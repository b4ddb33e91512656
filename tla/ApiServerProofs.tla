--------------------------- MODULE ApiServerProofs ---------------------------
(***************************************************************************)
(* The pool and the answers of ctf_archive for any set of requests, every  *)
(* size of the pool and every fault.                                       *)
(*                                                                         *)
(* PoolConserved carries itself, given that only finitely many handlers    *)
(* hold a connection at a time.  AnswerTellsSession does not: when a       *)
(* handler reads its reply, the session must be where the reply says it    *)
(* is, and that depends on what the daemon may do while the handler waits  *)
(* (DaemonFollowsHandler).                                                 *)
(***************************************************************************)
EXTENDS ApiServer, FiniteSetTheorems, TLAPS

Labels   == {"idle", "receive", "pool", "query", "connect", "await", "done"}
Statuses == {"none", "OK", "refused", "error", "reset", "gone"}

\* The parts of the invariant that the daemon could disturb.
DaemonInv == TypeOK /\ HandlerFollowsRoute /\ DaemonFollowsHandler /\ AnswerTellsSession

\* A handler that ends leaves the pool as if it had never held a connection.
LEMMA EndKeepsPool ==
  ASSUME TypeOK, IsFiniteSet(Holders), PoolConserved, NEW r \in Reqs, NEW s, End(r, s)
  PROVE  free' \in 0..PoolSize /\ IsFiniteSet(Holders') /\ PoolConserved'
<1> USE ApiServerAssumption
<1>1. Holders' = Holders \ {r}
  BY DEF TypeOK, End, Goto, Holders, Holds
<1>2. Cardinality(Holders) \in Nat
  BY FS_CardinalityType
<1>3. CASE Holds(r)
  <2>1. r \in Holders
    BY <1>3 DEF Holders
  <2>2. IsFiniteSet(Holders \ {r}) /\ Cardinality(Holders \ {r}) = Cardinality(Holders) - 1
    BY <2>1, FS_RemoveElement
  <2>3. Cardinality(Holders \ {r}) \in Nat
    BY <2>2, FS_CardinalityType
  <2>4. free' = free + 1
    BY <1>3 DEF End, Returned
  <2> QED BY <1>1, <1>2, <2>2, <2>3, <2>4 DEF TypeOK, PoolConserved
<1>4. CASE ~Holds(r)
  <2>1. Holders \ {r} = Holders
    BY <1>4 DEF Holders
  <2>2. free' = free
    BY <1>4 DEF End, Returned
  <2> QED BY <1>1, <2>1, <2>2 DEF TypeOK, PoolConserved
<1> QED BY <1>3, <1>4

\* The end of a handler keeps the invariant, provided that its answer fits what the
\* daemon has done for it.
LEMMA EndKeeps ==
  ASSUME IInv, NEW r \in Reqs, NEW s \in Statuses, End(r, s), UNCHANGED challdVars,
         s # "gone" => IF s = "OK" /\ route[r] \in DaemonRoutes
                         THEN stage[r] \in {"session"} \cup Challd!Ends /\ reply[r] = "OK"
                         ELSE \/ stage[r] \in {"idle", "over"}
                              \/ stage[r] = "left" /\ s = "error" /\ reply[r] = "closed"
  PROVE  IInv'
<1>1. free' \in 0..PoolSize /\ IsFiniteSet(Holders') /\ PoolConserved'
  BY EndKeepsPool DEF IInv
<1>2. TypeOK'
  BY <1>1 DEF IInv, TypeOK, End, Goto, challdVars, Statuses
<1>3. DaemonFollowsHandler' /\ HandlerFollowsRoute'
  BY DEF IInv, TypeOK, DaemonFollowsHandler, HandlerFollowsRoute, End, Goto, challdVars
<1>4. AnswerTellsSession'
  BY DEF IInv, TypeOK, AnswerTellsSession, End, Goto, challdVars
<1> QED BY <1>1, <1>2, <1>3, <1>4 DEF IInv

\* So does a handler that goes on to another await without ending, without taking
\* or returning a connection.
LEMMA MoveKeeps ==
  ASSUME IInv, NEW r \in Reqs, NEW k \in Routes, NEW label \in Labels \ {"await", "done"},
         at[r] \notin {"await", "done"}, Goto(r, label), UNCHANGED <<status, free, challdVars>>,
         \/ route' = [route EXCEPT ![r] = k]
         \/ UNCHANGED route /\ k = route[r],
         label = "receive" => k \in {"create", "set_archive"},
         label = "connect" => k \in DaemonRoutes,
         Holds(r)' <=> Holds(r)
  PROVE  IInv'
<1>0. \A q \in Reqs : q # r => at'[q] = at[q] /\ route'[q] = route[q]
  BY DEF IInv, TypeOK, Goto
<1>1. Holders' = Holders
  BY <1>0 DEF Holders, Holds
<1>2. TypeOK'
  BY DEF IInv, TypeOK, Goto, challdVars, Labels
<1>3. at'[r] = label /\ route'[r] = k
  BY DEF IInv, TypeOK, Goto
<1>4. DaemonFollowsHandler' /\ HandlerFollowsRoute'
  BY <1>0, <1>3 DEF IInv, DaemonFollowsHandler, HandlerFollowsRoute, challdVars
<1>5. AnswerTellsSession'
  BY <1>0, <1>3 DEF IInv, AnswerTellsSession, challdVars
<1> QED BY <1>1, <1>2, <1>4, <1>5 DEF IInv, PoolConserved

\* A server that has just started satisfies the invariant.
LEMMA InitIInv == Init => IInv
<1> SUFFICES ASSUME Init PROVE IInv
  OBVIOUS
<1>1. Holders = {}
  BY DEF Init, Holders, Holds
<1>2. IsFiniteSet(Holders) /\ Cardinality(Holders) = 0
  BY <1>1, FS_EmptySet
<1>3. TypeOK
  <2>1. free \in 0..PoolSize
    BY ApiServerAssumption DEF Init
  <2> QED BY <2>1 DEF Init, TypeOK, Challd!Init
<1>4. PoolConserved
  BY <1>2, ApiServerAssumption DEF Init, PoolConserved
<1>5. HandlerFollowsRoute /\ DaemonFollowsHandler /\ AnswerTellsSession
  BY DEF Init, HandlerFollowsRoute, DaemonFollowsHandler, AnswerTellsSession, Challd!Init,
         Challd!Refusals
<1> QED BY <1>2, <1>3, <1>4, <1>5 DEF IInv

\* What the daemon does keeps the invariant: while a handler waits, its answer is
\* lost only together with its session, whose container may stay.
LEMMA DaemonKeeps ==
  ASSUME IInv, UNCHANGED serverVars,
         \/ \E r \in Reqs : Challd!Step(r) \/ (at[r] = "done" /\ Challd!Lose(r))
         \/ Challd!Rise \/ Challd!Fall
  PROVE  IInv'
<1>1. Holders' = Holders
  BY DEF serverVars, Holders, Holds
<1>2. DaemonInv'
  <2> USE DEF IInv, TypeOK, DaemonInv, HandlerFollowsRoute, DaemonFollowsHandler, AnswerTellsSession,
              serverVars, Challd!Refusals, Challd!Ends
  <2>1. ASSUME Challd!Rise PROVE DaemonInv'
    BY <2>1 DEF Challd!Rise
  <2>2. ASSUME Challd!Fall PROVE DaemonInv'
    <3>1. PICK S \in SUBSET {c \in Reqs : stage[c] \in {"open", "session"}} :
            /\ \E f \in [S -> Challd!Ends] :
                  stage' = [c \in Reqs |-> IF c \in S THEN f[c] ELSE stage[c]]
            /\ \E T \in SUBSET {c \in Reqs : reply[c] = "sending" /\ (c \in S \/ stage[c] \in Challd!Ends)} :
                  reply' = [c \in Reqs |-> IF c \in T \/ (c \in S /\ stage[c] = "open")
                                             THEN "closed" ELSE reply[c]]
      BY <2>2 DEF Challd!Fall
    <3>2. PICK T \in SUBSET {c \in Reqs : reply[c] = "sending" /\ (c \in S \/ stage[c] \in Challd!Ends)} :
            reply' = [c \in Reqs |-> IF c \in T \/ (c \in S /\ stage[c] = "open")
                                       THEN "closed" ELSE reply[c]]
      BY <3>1
    <3>a. PICK f \in [S -> Challd!Ends] :
            stage' = [c \in Reqs |-> IF c \in S THEN f[c] ELSE stage[c]]
      BY <3>1
    <3>3. up' = FALSE
      BY <2>2 DEF Challd!Fall
    <3>4. \A c \in Reqs :
            /\ IF c \in S THEN stage'[c] \in Challd!Ends ELSE stage'[c] = stage[c]
            /\ reply'[c] = (IF c \in T \/ (c \in S /\ stage[c] = "open")
                              THEN "closed" ELSE reply[c])
      BY <3>a, <3>2
    <3>5. \A c \in Reqs :
            /\ c \in S => stage[c] \in {"open", "session"}
            /\ c \in T => reply[c] = "sending" /\ (c \in S \/ stage[c] \in Challd!Ends)
      OBVIOUS
    <3>6. stage' \in [Reqs -> {"idle", "open", "session"} \cup Challd!Ends]
      BY <3>a
    <3>7. reply' \in [Reqs -> Challd!Refusals \cup {"none", "sending", "OK", "closed"}]
      BY <3>2
    <3>8. TypeOK' /\ HandlerFollowsRoute'
      BY <3>3, <3>6, <3>7
    <3>9. DaemonFollowsHandler'
      BY <3>4, <3>5
    <3>10. AnswerTellsSession'
      BY <3>4, <3>5
    <3> QED BY <3>8, <3>9, <3>10
  <2>3. ASSUME NEW r \in Reqs, Challd!Refuse(r) PROVE DaemonInv'
    BY <2>3 DEF Challd!Refuse, Challd!Goto, Challd!Answer
  <2>4. ASSUME NEW r \in Reqs, Challd!Break(r) PROVE DaemonInv'
    BY <2>4 DEF Challd!Break, Challd!Goto, Challd!Answer
  <2>5. ASSUME NEW r \in Reqs, Challd!Begin(r) PROVE DaemonInv'
    BY <2>5 DEF Challd!Begin, Challd!Goto, Challd!Answer
  <2>6. ASSUME NEW r \in Reqs, Challd!Deliver(r) PROVE DaemonInv'
    BY <2>6 DEF Challd!Deliver, Challd!Answer
  <2>7. ASSUME NEW r \in Reqs, Challd!Finish(r) PROVE DaemonInv'
    BY <2>7 DEF Challd!Finish, Challd!Goto
  <2>8. ASSUME NEW r \in Reqs, at[r] = "done", Challd!Lose(r) PROVE DaemonInv'
    BY <2>8 DEF Challd!Lose, Challd!Answer
  <2>9. ASSUME NEW r \in Reqs, Challd!Vanish(r) PROVE DaemonInv'
    BY <2>9 DEF Challd!Vanish, Challd!Goto
  <2> QED BY <2>1, <2>2, <2>3, <2>4, <2>5, <2>6, <2>7, <2>8, <2>9 DEF Challd!Step
<1> QED BY <1>1, <1>2 DEF IInv, DaemonInv, PoolConserved, serverVars

\* Every step of the server and of the daemon keeps the invariant.
LEMMA NextIInv == IInv /\ [Next]_vars => IInv'
<1> SUFFICES ASSUME IInv, [Next]_vars PROVE IInv'
  OBVIOUS
<1>0. \A r \in Reqs : at[r] \notin {"await", "done"} => stage[r] = "idle"
  BY DEF IInv, DaemonFollowsHandler
<1>1. ASSUME NEW r \in Reqs, NEW k \in Routes, Arrive(r, k) PROVE IInv'
  <2>1. /\ AfterArrival(k) \in Labels \ {"await", "done", "connect"}
        /\ AfterArrival(k) = "receive" => k = "create"
    BY DEF AfterArrival, Labels
  <2>2. Holds(r)' <=> Holds(r)
    BY <1>1 DEF Arrive, Goto, Holds, AfterArrival, IInv, TypeOK
  <2> QED BY <1>1, <2>1, <2>2, MoveKeeps DEF Arrive
<1>2. ASSUME NEW r \in Reqs, Forbid(r) PROVE IInv'
  BY <1>0, <1>2, EndKeeps DEF Forbid, Statuses
<1>3. ASSUME NEW r \in Reqs, ReceiveUpload(r) PROVE IInv'
  <2>1. route[r] \in {"create", "set_archive"}
    BY <1>3 DEF ReceiveUpload, IInv, HandlerFollowsRoute
  <2>2. AfterReceive(route[r]) \in Labels \ {"await", "done", "connect", "receive"}
    BY DEF AfterReceive, Labels
  <2>3. Holds(r)' <=> Holds(r)
    BY <1>3, <2>1 DEF ReceiveUpload, Goto, Holds, AfterReceive, IInv, TypeOK
  <2> QED BY <1>3, <2>1, <2>2, <2>3, MoveKeeps DEF ReceiveUpload, Routes
<1>4. ASSUME NEW r \in Reqs, BadUpload(r) PROVE IInv'
  BY <1>0, <1>4, EndKeeps DEF BadUpload, Statuses
<1>5. ASSUME NEW r \in Reqs, GetConn(r) PROVE IInv'
  <2>1. r \notin Holders /\ Holders' = Holders \cup {r}
    BY <1>5 DEF GetConn, Goto, AfterPool, Holders, Holds, IInv, TypeOK
  <2>2. IsFiniteSet(Holders') /\ Cardinality(Holders') = Cardinality(Holders) + 1
    BY <2>1, FS_AddElement DEF IInv
  <2>3. Cardinality(Holders) \in Nat
    BY FS_CardinalityType DEF IInv
  <2>4. PoolConserved' /\ free' \in 0..PoolSize
    BY <1>5, <2>2, <2>3, ApiServerAssumption DEF GetConn, IInv, TypeOK, PoolConserved
  <2>5. TypeOK'
    BY <1>5, <2>4 DEF GetConn, Goto, AfterPool, challdVars, IInv, TypeOK
  <2>6. HandlerFollowsRoute' /\ DaemonFollowsHandler' /\ AnswerTellsSession'
    BY <1>5 DEF GetConn, Goto, AfterPool, challdVars, IInv, TypeOK, HandlerFollowsRoute,
                DaemonFollowsHandler, AnswerTellsSession
  <2> QED BY <2>2, <2>4, <2>5, <2>6 DEF IInv
<1>6. ASSUME NEW r \in Reqs, GetTimesOut(r) PROVE IInv'
  BY <1>0, <1>6, EndKeeps DEF GetTimesOut, Statuses
<1>7. ASSUME NEW r \in Reqs, Execute(r) PROVE IInv'
  <2>1. at[r] = "query" /\ stage[r] = "idle" /\ UNCHANGED challdVars
    BY <1>0, <1>7 DEF Execute
  <2>2. CASE route[r] \notin DaemonRoutes /\ End(r, "OK")
    BY <2>1, <2>2, EndKeeps DEF Statuses
  <2>3. CASE End(r, "refused") \/ End(r, "reset")
    BY <2>1, <2>3, EndKeeps DEF Statuses
  <2>4. CASE route[r] \in DaemonRoutes /\ Goto(r, "connect") /\ UNCHANGED <<route, status, free>>
    <3>1. Holds(r)' <=> Holds(r)
      BY <2>1, <2>4 DEF Goto, Holds, IInv, TypeOK
    <3> QED BY <2>1, <2>4, <3>1, MoveKeeps DEF Labels, Routes
  <2> QED BY <1>7, <2>2, <2>3, <2>4 DEF Execute
<1>8. ASSUME NEW r \in Reqs, QueryFails(r) PROVE IInv'
  BY <1>0, <1>8, EndKeeps DEF QueryFails, Statuses
<1>9. ASSUME NEW r \in Reqs, ConnectDaemon(r) PROVE IInv'
  <2>1. Holders' = Holders
    BY <1>9 DEF ConnectDaemon, Goto, Holders, Holds, IInv, TypeOK
  <2>2. TypeOK' /\ HandlerFollowsRoute' /\ DaemonFollowsHandler' /\ AnswerTellsSession'
    BY <1>9 DEF ConnectDaemon, Goto, Challd!Connect, Challd!Goto, IInv, TypeOK,
                HandlerFollowsRoute, DaemonFollowsHandler, AnswerTellsSession
  <2> QED BY <1>9, <2>1, <2>2 DEF ConnectDaemon, IInv, PoolConserved
<1>10. ASSUME NEW r \in Reqs, ConnectFails(r) PROVE IInv'
  BY <1>0, <1>10, EndKeeps DEF ConnectFails, Statuses
<1>11. ASSUME NEW r \in Reqs, ReadReply(r) PROVE IInv'
  <2>1. /\ route[r] \in DaemonRoutes
        /\ reply[r] = "OK" => stage[r] \in {"session"} \cup Challd!Ends
        /\ reply[r] # "OK" => stage[r] = "over" \/ (stage[r] = "left" /\ reply[r] = "closed")
    BY <1>11 DEF ReadReply, IInv, TypeOK, HandlerFollowsRoute, DaemonFollowsHandler, Challd!Ends
  <2> QED BY <1>11, <2>1, EndKeeps DEF ReadReply, Meaning, Statuses
<1>12. ASSUME NEW r \in Reqs, ClientGone(r) PROVE IInv'
  BY <1>12, EndKeeps DEF ClientGone, Statuses
<1>13. ASSUME Crash PROVE IInv'
  <2>1. Holders' = {}
    BY <1>13 DEF Crash, Holders, Holds
  <2>2. IsFiniteSet(Holders') /\ Cardinality(Holders') = 0
    BY <2>1, FS_EmptySet
  <2>3. PoolConserved' /\ free' \in 0..PoolSize
    BY <1>13, <2>2, ApiServerAssumption DEF Crash, PoolConserved
  <2>4. TypeOK'
    BY <1>13, <2>3 DEF Crash, challdVars, IInv, TypeOK
  <2>5. HandlerFollowsRoute' /\ DaemonFollowsHandler' /\ AnswerTellsSession'
    BY <1>13 DEF Crash, challdVars, IInv, TypeOK, HandlerFollowsRoute,
                 DaemonFollowsHandler, AnswerTellsSession
  <2> QED BY <2>2, <2>3, <2>4, <2>5 DEF IInv
<1>14. ASSUME \/ \E r \in Reqs : DaemonStep(r)
              \/ DaemonStarts \/ DaemonStops
       PROVE  IInv'
  BY <1>14, DaemonKeeps DEF DaemonStep, DaemonStarts, DaemonStops
<1>15. ASSUME UNCHANGED vars PROVE IInv'
  <2>1. Holders' = Holders
    BY <1>15 DEF vars, serverVars, Holders, Holds
  <2> QED
    BY <1>15, <2>1 DEF vars, serverVars, challdVars, IInv, TypeOK, PoolConserved,
                       HandlerFollowsRoute, DaemonFollowsHandler, AnswerTellsSession
<1> QED
  BY <1>1, <1>2, <1>3, <1>4, <1>5, <1>6, <1>7, <1>8, <1>9, <1>10, <1>11, <1>12, <1>13,
     <1>14, <1>15 DEF Next, UploadStep, ServerStep

\* For any set of requests and every size of the pool, the server keeps the
\* inductive invariant.
THEOREM SpecIInv == Spec => []IInv
  BY InitIInv, NextIInv, PTL DEF Spec

\* Every variable stays in its range; in particular the pool never has more idle
\* connections than it opened.
THEOREM SpecTypeOK == Spec => []TypeOK
<1>1. IInv => TypeOK
  BY DEF IInv
<1> QED BY SpecIInv, <1>1, PTL

\* For any set of requests and every size of the pool, the connections that are
\* idle and those that handlers hold are together what the pool opened.
THEOREM SpecPoolConserved == Spec => []PoolConserved
<1>1. IInv => PoolConserved
  BY DEF IInv
<1> QED BY SpecIInv, <1>1, PTL

\* Against every daemon that keeps the safety part of ContainerService: OK of start
\* and host_demo is the result of a session that was set up; any other answer means
\* that no session is in progress, and unless it is the error of a stream that challd
\* closed without a result, that no container was left either.
THEOREM SpecAnswerTellsSession == Spec => []AnswerTellsSession
<1>1. IInv => AnswerTellsSession
  BY DEF IInv
<1> QED BY SpecIInv, <1>1, PTL
=============================================================================
