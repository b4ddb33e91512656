------------------------- MODULE ChalldServiceProofs -------------------------
(***************************************************************************)
(* The daemon keeps what ContainerService promises its clients, and no     *)
(* more guests than addresses have a container.                            *)
(*                                                                         *)
(* The refinement forgets everything but the label's stage and the answer. *)
(* A step of a task is a step of the promise if it decides the request or  *)
(* ends the session, and a stutter otherwise; the three ways in which the  *)
(* process ends are each one Fall.  ReplyFollowsLabel is what makes the    *)
(* answers match: a stream that is closed before the decision had none;    *)
(* ContainerFollowsLabel, that a refusal leaves no container.              *)
(***************************************************************************)
EXTENDS ChalldProofs, FiniteSetTheorems

\* The stage of every label.  The container matters only when the tasks have ended.
LEMMA Stages ==
  \A k :
    /\ StageOf("idle", k) = "idle"
    /\ \A l \in {"backlog"} \cup Handler \cup Setup : StageOf(l, k) = "open"
    /\ \A l \in {"active"} \cup Teardown : StageOf(l, k) = "session"
    /\ \A l \in Ended : StageOf(l, k) = IF k \in Existing THEN "left" ELSE "over"
  BY DEF StageOf, Handler, Setup, Teardown, Ended

\* The stages of all connections, as the client side sees them.
Stage == [c \in Conns |-> StageOf(pc[c], ctr[c])]

\* A task that moves to another label moves its own stage only.
LEMMA MovesStage ==
  ASSUME TypeOK, NEW c \in Conns, NEW l, Goto(c, l), \A d \in Conns \ {c} : ctr'[d] = ctr[d]
  PROVE  Stage' = [Stage EXCEPT ![c] = StageOf(l, ctr'[c])]
<1>1. \A d \in Conns : pc'[d] = IF d = c THEN l ELSE pc[d]
  BY DEF TypeOK, Goto
<1> QED BY <1>1 DEF Stage

\* A step within a stage, without an answer, is a stutter of the promise.
LEMMA SilentStep ==
  ASSUME TypeOK, NEW c \in Conns, NEW l, Goto(c, l), \A d \in Conns \ {c} : ctr'[d] = ctr[d],
         StageOf(l, ctr'[c]) = StageOf(pc[c], ctr[c]), UNCHANGED <<main, reply>>
  PROVE  UNCHANGED Service!vars
<1>1. Stage' = [Stage EXCEPT ![c] = StageOf(l, ctr'[c])]
  BY MovesStage
<1>2. Stage' = Stage
  BY <1>1 DEF Stage
<1> QED BY <1>2 DEF Stage, Service!vars

\* A new daemon is a promise with no requests.
LEMMA InitService == Init => Service!Init
<1> SUFFICES ASSUME Init PROVE Service!Init
  OBVIOUS
<1>1. main \notin {"serving", "stalled", "draining", "exiting"}
  BY DEF Init
<1>2. [c \in Conns |-> StageOf(pc[c], ctr[c])] = [c \in Conns |-> "idle"]
  BY Stages DEF Init
<1>3. reply = [c \in Conns |-> "none"]
  BY DEF Init
<1> QED BY <1>1, <1>2, <1>3 DEF Service!Init

\* The end of a process, or of its main function: the connections at a label of
\* ends have ended, with or without their container, and those at a label of closes
\* lose an answer that is not out.
LEMMA EndIsFall ==
  ASSUME IInv,
         main' \notin {"serving", "stalled", "draining", "exiting"},
         NEW ends \in SUBSET ({"backlog"} \cup Handler \cup Tracked),
         NEW closes \in SUBSET (ends \cup Ended), ends \subseteq closes,
         \A c \in Conns : pc[c] \in ends => pc'[c] \in Ended,
         \A c \in Conns : pc[c] \notin ends => pc'[c] = pc[c],
         CloseOpen(closes), UNCHANGED ctr
  PROVE  Service!Fall
<1> DEFINE S == {c \in Conns : pc[c] \in ends}
           f == [c \in S |-> Stage'[c]]
           T == {c \in Conns : pc[c] \in closes /\ reply[c] = "sending"}
<1>1. S \in SUBSET {c \in Conns : Stage[c] \in {"open", "session"}}
  BY Stages DEF Stage, Tracked
<1>2. f \in [S -> Service!Ends] /\ Stage' = [c \in Conns |-> IF c \in S THEN f[c] ELSE Stage[c]]
  <2>1. \A c \in S : Stage'[c] \in Service!Ends
    BY Stages DEF Stage, Service!Ends
  <2>2. \A c \in Conns \ S : Stage'[c] = Stage[c]
    BY DEF Stage
  <2>3. Stage' = [c \in Conns |-> Stage'[c]]
    BY DEF Stage
  <2> HIDE DEF S
  <2> QED BY <2>1, <2>2, <2>3
<1>3. T \in SUBSET {c \in Conns : reply[c] = "sending" /\ (c \in S \/ Stage[c] \in Service!Ends)}
  BY Stages DEF Stage, Service!Ends
<1>4. \A c \in Conns :
        /\ pc[c] \in closes /\ reply[c] = "none" => c \in S /\ Stage[c] = "open"
        /\ c \in S /\ Stage[c] = "open" => reply[c] = "none"
  <2> SUFFICES ASSUME NEW c \in Conns
               PROVE  /\ pc[c] \in closes /\ reply[c] = "none" => c \in S /\ Stage[c] = "open"
                      /\ c \in S /\ Stage[c] = "open" => reply[c] = "none"
    OBVIOUS
  <2>1. reply[c] = "none" <=> pc[c] \in {"idle", "backlog"} \cup Handler \cup Setup
    BY DEF IInv, ReplyFollowsLabel
  <2>2. Stage[c] = StageOf(pc[c], ctr[c])
    BY DEF Stage
  <2>3. pc[c] \in closes /\ reply[c] = "none" => pc[c] \in {"backlog"} \cup Handler \cup Setup
    BY <2>1 DEF Tracked, Ended, Handler, Setup, Teardown
  <2>4. pc[c] \in ends /\ Stage[c] = "open" => pc[c] \in {"backlog"} \cup Handler \cup Setup
    BY <2>2, Stages DEF Tracked
  <2>5. pc[c] \in {"backlog"} \cup Handler \cup Setup => pc[c] \notin Ended
    BY DEF Ended, Handler, Setup
  <2> QED BY <2>1, <2>2, <2>3, <2>4, <2>5, Stages
<1>5. reply' = [c \in Conns |-> IF c \in T \/ (c \in S /\ Stage[c] = "open")
                                  THEN "closed" ELSE reply[c]]
  <2>1. \A c \in Conns :
          (c \in T \/ (c \in S /\ Stage[c] = "open"))
            <=> (pc[c] \in closes /\ reply[c] \in {"none", "sending"})
    BY <1>4
  <2> HIDE DEF S, T
  <2> QED BY <2>1 DEF CloseOpen
<1> HIDE DEF S, T, f
<1>6. \E g \in [S -> Service!Ends] :
         Stage' = [c \in Conns |-> IF c \in S THEN g[c] ELSE Stage[c]]
  BY <1>2
<1>7. \E U \in SUBSET {c \in Conns : reply[c] = "sending" /\ (c \in S \/ Stage[c] \in Service!Ends)} :
         reply' = [c \in Conns |-> IF c \in U \/ (c \in S /\ Stage[c] = "open")
                                     THEN "closed" ELSE reply[c]]
  BY <1>3, <1>5
<1>8. \E R \in SUBSET {c \in Conns : Stage[c] \in {"open", "session"}} :
        /\ \E g \in [R -> Service!Ends] :
              Stage' = [c \in Conns |-> IF c \in R THEN g[c] ELSE Stage[c]]
        /\ \E U \in SUBSET {c \in Conns : reply[c] = "sending" /\ (c \in R \/ Stage[c] \in Service!Ends)} :
              reply' = [c \in Conns |-> IF c \in U \/ (c \in R /\ Stage[c] = "open")
                                          THEN "closed" ELSE reply[c]]
  BY <1>1, <1>6, <1>7
<1>9. (main \in {"serving", "stalled", "draining", "exiting"})' = FALSE
  OBVIOUS
<1> QED BY <1>8, <1>9, ZenonT(60) DEF Service!Fall, Stage

\* Every step of the daemon is a step of the promise, or a stutter.
LEMMA StepService == IInv /\ [Next]_vars => [Service!Next]_(Service!vars)
<1> SUFFICES ASSUME IInv, [Next]_vars PROVE [Service!Next]_(Service!vars)
  OBVIOUS
<1>0. TypeOK
  BY DEF IInv
<1> USE DEF Handler, Setup, Teardown, Ended
<1>1. ASSUME NEW c \in Conns, ReadGuestRequest(c) PROVE UNCHANGED Service!vars
  BY <1>0, <1>1, SilentStep, Stages DEF ReadGuestRequest, amVars, worldVars
<1>2. ASSUME NEW c \in Conns, ReadDemoRequest(c) PROVE UNCHANGED Service!vars
  BY <1>0, <1>2, SilentStep, Stages DEF ReadDemoRequest, amVars, worldVars
<1>3. ASSUME NEW c \in Conns, IpAddrAdd(c) PROVE UNCHANGED Service!vars
  BY <1>0, <1>3, SilentStep, Stages DEF IpAddrAdd, amVars, worldVars
<1>4. ASSUME NEW c \in Conns, CreateContainer(c) PROVE UNCHANGED Service!vars
  BY <1>0, <1>4, SilentStep, Stages DEF CreateContainer, amVars, worldVars
<1>5. ASSUME NEW c \in Conns, InspectContainer(c) PROVE UNCHANGED Service!vars
  BY <1>0, <1>5, SilentStep, Stages DEF InspectContainer, amVars, worldVars
<1>6. ASSUME NEW c \in Conns, NatAdd(c) PROVE UNCHANGED Service!vars
  BY <1>0, <1>6, SilentStep, Stages DEF NatAdd, amVars, worldVars
<1>7. ASSUME NEW c \in Conns, RemovePeer(c) PROVE UNCHANGED Service!vars
  BY <1>0, <1>7, SilentStep, Stages DEF RemovePeer, amVars, worldVars
<1>8. ASSUME NEW c \in Conns, NatDelete(c) PROVE UNCHANGED Service!vars
  BY <1>0, <1>8, SilentStep, Stages DEF NatDelete, AfterNatDel, amVars, worldVars
<1>9. ASSUME NEW c \in Conns, IpAddrDel(c) PROVE UNCHANGED Service!vars
  BY <1>0, <1>9, SilentStep, Stages DEF IpAddrDel, AfterIpDel, amVars, worldVars
<1>10. ASSUME NEW c \in Conns, Accept(c) PROVE UNCHANGED Service!vars
  BY <1>0, <1>10, SilentStep, Stages DEF Accept, amVars, worldVars
<1>11. ASSUME NEW c \in Conns, SpawnTracked(c) PROVE UNCHANGED Service!vars
  <2>1. PICK l \in {"ip_add", "create"} : Goto(c, l)
    BY <1>11 DEF SpawnTracked
  <2> QED BY <1>0, <1>11, <2>1, SilentStep, Stages DEF SpawnTracked, worldVars
<1>12. ASSUME NEW c \in Conns, TakeAddr(c) PROVE UNCHANGED Service!vars
  <2>1. CASE Goto(c, "spawn")
    BY <1>0, <1>12, <2>1, SilentStep, Stages DEF TakeAddr, worldVars
  <2>2. CASE UNCHANGED pc
    BY <1>12, <2>2 DEF TakeAddr, Service!vars, worldVars
  <2> QED BY <1>12, <2>1, <2>2 DEF TakeAddr
<1>13. ASSUME NEW c \in Conns,
             TokenCancelled(c) \/ ShutdownSignal(c) \/ TimerElapses(c) \/ WaitFails(c)
      PROVE  UNCHANGED Service!vars
  <2>1. pc[c] = "active" /\ UNCHANGED <<main, reply, ctr>>
    BY <1>13 DEF TokenCancelled, ShutdownSignal, TimerElapses, WaitFails, worldVars
  <2>2. PICK l \in {"peer_del", "stop"} : Goto(c, l)
    BY <1>13 DEF TokenCancelled, ShutdownSignal, TimerElapses, WaitFails, AfterSelect,
                AfterDemoSelect
  <2> QED BY <1>0, <2>1, <2>2, SilentStep, Stages
<1>14. ASSUME NEW c \in Conns, RefuseRequest(c) \/ RefuseBusy(c) PROVE Service!Next
  <2>1. /\ Goto(c, "refused") /\ UNCHANGED main
        /\ pc[c] \in Handler
        /\ \E r \in Service!Refusals : Answer(c, r)
    BY <1>14 DEF RefuseRequest, RefuseBusy, Service!Refusals
  <2>2. ctr' = ctr /\ ctr[c] \notin Existing
    BY <1>14, <2>1 DEF RefuseRequest, RefuseBusy, worldVars, IInv, SessionInv, ContainerFollowsLabel,
                       Existing
  <2>4. Stage' = [Stage EXCEPT ![c] = "over"] /\ Stage[c] = "open"
    BY <1>0, <2>1, <2>2, MovesStage, Stages DEF Stage
  <2>3. Service!Refuse(c)
    BY <2>1, <2>4 DEF Service!Refuse, Service!Goto, Service!Answer, Answer, Stage
  <2> QED BY <2>3 DEF Service!Next, Service!Step
<1>15. ASSUME NEW c \in Conns, SetupPanics(c) PROVE Service!Next
  <2>1. pc[c] \in Setup /\ Answer(c, "closed") /\ UNCHANGED <<main, ctr>>
    BY <1>15 DEF SetupPanics, worldVars
  <2>2. PICK l \in {"unstopped", "panicked"} : Goto(c, l)
    BY <1>15 DEF SetupPanics
  <2>3. Stage[c] = "open" /\ StageOf(l, ctr'[c]) \in Service!Ends
    BY <2>1, <2>2, Stages DEF Stage, Service!Ends
  <2>5. Stage' = [Stage EXCEPT ![c] = StageOf(l, ctr'[c])]
    BY <1>0, <2>1, <2>2, MovesStage
  <2>4. Service!Break(c)
    BY <2>1, <2>3, <2>5 DEF Service!Break, Service!Goto, Service!Answer, Answer, Stage
  <2> QED BY <2>4 DEF Service!Next, Service!Step
<1>16. ASSUME NEW c \in Conns, pc[c] \in Setup, Goto(c, "active"), Answer(c, "sending"),
             UNCHANGED main, \A d \in Conns \ {c} : ctr'[d] = ctr[d]
      PROVE  Service!Next
  <2>1. Stage' = [Stage EXCEPT ![c] = "session"] /\ Stage[c] = "open"
    BY <1>0, <1>16, MovesStage, Stages DEF Stage
  <2>2. Service!Begin(c)
    BY <1>16, <2>1 DEF Service!Begin, Service!Goto, Service!Answer, Answer, Stage
  <2> QED BY <2>2 DEF Service!Next, Service!Step
<1>17. ASSUME NEW c \in Conns, AddTempPeer(c) PROVE Service!Next
  BY <1>16, <1>17 DEF AddTempPeer
<1>18. ASSUME NEW c \in Conns, StartContainer(c) PROVE [Service!Next]_(Service!vars)
  <2>0. \A d \in Conns \ {c} : ctr'[d] = ctr[d]
    BY <1>0, <1>18 DEF StartContainer, TypeOK
  <2>1. CASE Goto(c, "inspect") /\ UNCHANGED reply
    BY <1>0, <1>18, <2>0, <2>1, SilentStep, Stages DEF StartContainer
  <2>2. CASE Goto(c, "active") /\ Answer(c, "sending")
    BY <1>16, <1>18, <2>0, <2>2 DEF StartContainer
  <2> QED BY <1>18, <2>1, <2>2 DEF StartContainer
<1>19. ASSUME NEW c \in Conns, pc[c] \in Teardown, NEW l \in Ended, Goto(c, l),
             UNCHANGED <<main, reply>>, \A d \in Conns \ {c} : ctr'[d] = ctr[d]
      PROVE  Service!Next
  <2>1. Stage[c] = "session" /\ StageOf(l, ctr'[c]) \in Service!Ends
    BY <1>19, Stages DEF Stage, Service!Ends
  <2>3. Stage' = [Stage EXCEPT ![c] = StageOf(l, ctr'[c])]
    BY <1>0, <1>19, MovesStage
  <2>2. Service!Finish(c)
    BY <1>19, <2>1, <2>3 DEF Service!Finish, Service!Goto, Stage
  <2> QED BY <2>2 DEF Service!Next, Service!Step
<1>20. ASSUME NEW c \in Conns, Relinquish(c) PROVE Service!Next
  BY <1>19, <1>20 DEF Relinquish, worldVars
<1>21. ASSUME NEW c \in Conns, TeardownPanics(c) PROVE Service!Next
  <2>1. PICK l \in {"unstopped", "panicked"} : Goto(c, l)
    BY <1>21 DEF TeardownPanics
  <2> QED BY <1>19, <1>21, <2>1 DEF TeardownPanics, worldVars
<1>22. ASSUME NEW c \in Conns, StopContainer(c) PROVE [Service!Next]_(Service!vars)
  <2>0. \A d \in Conns \ {c} : ctr'[d] = ctr[d]
    BY <1>0, <1>22 DEF StopContainer, Stopped, TypeOK
  <2>1. CASE Goto(c, "nat_del")
    BY <1>0, <1>22, <2>0, <2>1, SilentStep, Stages DEF StopContainer
  <2>2. CASE Goto(c, "done")
    BY <1>19, <1>22, <2>0, <2>2 DEF StopContainer
  <2> QED BY <1>22, <2>1, <2>2 DEF StopContainer, AfterStop
<1>23. ASSUME NEW c \in Conns, Connect(c) PROVE Service!Next
  <2>1. Stage' = [Stage EXCEPT ![c] = "open"] /\ Stage[c] = "idle"
    BY <1>0, <1>23, MovesStage, Stages DEF Connect, Stage, worldVars
  <2>2. Service!Connect(c)
    BY <1>23, <2>1 DEF Connect, Service!Connect, Service!Goto, Stage
  <2> QED BY <2>2 DEF Service!Next
<1>24. ASSUME NEW c \in Conns, SendOk(c) PROVE Service!Next
  <2>1. Service!Deliver(c) \/ Service!Lose(c)
    BY <1>24 DEF SendOk, Answer, Service!Deliver, Service!Lose, Service!Answer, worldVars
  <2> QED BY <2>1 DEF Service!Next, Service!Step
<1>25. ASSUME NEW c \in Conns, ContainerExits(c) PROVE [Service!Next]_(Service!vars)
  <2>1. /\ \A d \in Conns \ {c} : ctr'[d] = ctr[d]
        /\ ctr[c] = "running" /\ ctr'[c] = "gone" /\ UNCHANGED <<main, pc, reply>>
    BY <1>0, <1>25 DEF ContainerExits, TypeOK
  <2>2. CASE pc[c] \in Ended
    <3>1. Stage[c] = "left" /\ Stage'[c] = "over"
      BY <2>1, <2>2, Stages DEF Stage, Existing
    <3>2. Stage' = [Stage EXCEPT ![c] = "over"]
      BY <2>1, <3>1 DEF Stage
    <3>3. Service!Vanish(c)
      BY <2>1, <3>1, <3>2 DEF Service!Vanish, Service!Goto, Stage
    <3> QED BY <3>3 DEF Service!Next, Service!Step
  <2>3. CASE pc[c] \notin Ended
    <3>1. pc[c] \in {"idle", "backlog"} \cup Handler \cup Setup \cup {"active"} \cup Teardown
      BY <1>0, <2>3 DEF TypeOK, Tracked
    <3>2. StageOf(pc[c], ctr'[c]) = StageOf(pc[c], ctr[c])
      BY <3>1, Stages
    <3>3. Stage' = Stage
      BY <2>1, <3>2 DEF Stage
    <3> QED BY <2>1, <3>3 DEF Stage, Service!vars
  <2> QED BY <2>2, <2>3
<1>26. ASSUME Boot PROVE Service!Next
  <2>1. Service!Rise
    BY <1>26 DEF Boot, Service!Rise
  <2> QED BY <2>1 DEF Service!Next
<1>27. ASSUME AcceptFails \/ Signal \/ WaitReturns PROVE UNCHANGED Service!vars
  BY <1>27 DEF AcceptFails, Signal, WaitReturns, Service!vars, worldVars
<1>28. ASSUME MainReturns PROVE Service!Next
  <2>1. Service!Fall
    <3> DEFINE ends == {"backlog"}
    <3>1. /\ main' \notin {"serving", "stalled", "draining", "exiting"}
          /\ \A c \in Conns : pc[c] \in ends => pc'[c] \in Ended
          /\ \A c \in Conns : pc[c] \notin ends => pc'[c] = pc[c]
          /\ CloseOpen(ends) /\ UNCHANGED ctr
      BY <1>28 DEF MainReturns
    <3> QED BY <3>1, EndIsFall
  <2> QED BY <2>1 DEF Service!Next
<1>29. ASSUME RuntimeDropped PROVE Service!Next
  <2>1. Service!Fall
    <3> DEFINE ends == Handler \cup Tracked
    <3>1. /\ main' \notin {"serving", "stalled", "draining", "exiting"}
          /\ \A c \in Conns : pc[c] \in ends => pc'[c] \in Ended
          /\ \A c \in Conns : pc[c] \notin ends => pc'[c] = pc[c]
          /\ CloseOpen(ends \cup Ended) /\ UNCHANGED ctr
      BY <1>29 DEF RuntimeDropped, Tracked
    <3> HIDE DEF Handler, Setup, Teardown, Ended
    <3> QED BY <3>1, EndIsFall
  <2> QED BY <2>1 DEF Service!Next
<1>30. ASSUME Crash PROVE Service!Next
  <2>1. Service!Fall
    <3> DEFINE ends == {"backlog"} \cup Handler \cup Tracked
    <3>1. /\ main' \notin {"serving", "stalled", "draining", "exiting"}
          /\ \A c \in Conns : pc[c] \in ends => pc'[c] \in Ended
          /\ \A c \in Conns : pc[c] \notin ends => pc'[c] = pc[c]
          /\ CloseOpen(ends \cup Ended) /\ UNCHANGED ctr
      BY <1>30 DEF Crash, Tracked, worldVars
    <3> HIDE DEF Handler, Setup, Teardown, Ended
    <3> QED BY <3>1, EndIsFall
  <2> QED BY <2>1 DEF Service!Next
<1>31. ASSUME UNCHANGED vars PROVE UNCHANGED Service!vars
  BY <1>31 DEF vars, Service!vars, worldVars
<1> QED
  BY <1>1, <1>2, <1>3, <1>4, <1>5, <1>6, <1>7, <1>8, <1>9, <1>10, <1>11, <1>12, <1>13,
     <1>14, <1>15, <1>16, <1>17, <1>18, <1>19, <1>20, <1>21, <1>22, <1>23, <1>24, <1>25,
     <1>26, <1>27, <1>28, <1>29, <1>30, <1>31 DEF Next, TaskStep, MainStep

\* For every set of connections, all faults and any number of restarts, the daemon
\* keeps what ContainerService promises its clients, on which ApiServer is built.
THEOREM ImplementsService == Spec => ServiceSpec
  BY SpecIInv, InitService, StepService, PTL DEF Spec, ServiceSpec, Service!Spec
-----------------------------------------------------------------------------
\* While the first process runs, every guest whose container exists holds an
\* address of its own, so there are no more of them than addresses.
LEMMA GuestsHoldAddresses ==
  ASSUME IInv, main # "down", boots = 1, "stop" \notin Faults
  PROVE  IsFiniteSet(GuestContainers) /\ Cardinality(GuestContainers) <= MAX_INSTANCES
<1>1. \A c \in GuestContainers : addr[c] \in 1..MAX_INSTANCES
  <2> SUFFICES ASSUME NEW c \in Conns, mode[c] = "guest", ctr[c] \in Existing
               PROVE  addr[c] \in 1..MAX_INSTANCES
    BY DEF GuestContainers
  <2>1. pc[c] \in {"idle", "backlog"} \cup Handler \cup Tracked \cup Ended
    BY DEF IInv, TypeOK
  <2>2. pc[c] \notin {"idle", "backlog", "refused", "done", "dead"} \cup Handler
    BY DEF IInv, SessionInv, ContainerFollowsLabel, ModeFollowsLabel, Existing
  <2>3. pc[c] \in Tracked \cup {"panicked", "unstopped"}
    BY <2>1, <2>2 DEF Ended
  <2>4. addr[c] # 0
    BY <2>3 DEF IInv, ModeFollowsLabel, HasAddr
  <2>5. addr[c] \in 0..MAX_INSTANCES
    BY DEF IInv, TypeOK, AM!TypeOK
  <2> QED BY <2>4, <2>5, ChalldAssumption
<1> DEFINE f == [c \in GuestContainers |-> addr[c]]
<1>2. \A c, d \in GuestContainers : addr[c] = addr[d] => c = d
  BY <1>1, ChalldAssumption DEF IInv, AM!IInv, AM!AddressExclusive, GuestContainers
<1>3. f \in Injection(GuestContainers, 1..MAX_INSTANCES)
  BY <1>1, <1>2 DEF Injection, IsInjective
<1>4. IsFiniteSet(1..MAX_INSTANCES) /\ Cardinality(1..MAX_INSTANCES) = MAX_INSTANCES
  BY FS_Interval, ChalldAssumption
<1> HIDE DEF f
<1> QED BY <1>3, <1>4, FS_Injection

\* A daemon that is down, or goes down, creates no container.
LEMMA NoneCreatedWhenDown ==
  IInv /\ [Next]_vars /\ main' = "down" => GuestContainers' \subseteq GuestContainers
<1> SUFFICES ASSUME IInv, [Next]_vars, main' = "down"
             PROVE  \A c \in Conns : mode'[c] = "guest" /\ ctr'[c] \in Existing
                        => mode[c] = "guest" /\ ctr[c] \in Existing
  BY DEF GuestContainers
<1>1. CASE UNCHANGED <<mode, ctr>>
  BY <1>1
<1>2. ASSUME NEW d \in Conns, main = "down", TaskStep(d) PROVE UNCHANGED <<mode, ctr>>
  <2>1. pc[d] \notin Handler \cup Tracked
    BY <1>2 DEF IInv, SessionInv, DownIsQuiet
  <2> QED
    BY <1>2, <2>1
       DEF TaskStep, RefuseRequest, ReadGuestRequest, ReadDemoRequest, TakeAddr, RefuseBusy,
           SpawnTracked, IpAddrAdd, CreateContainer, StartContainer, InspectContainer, NatAdd,
           AddTempPeer, SetupPanics, TokenCancelled, ShutdownSignal, RemovePeer, StopContainer,
           NatDelete, IpAddrDel, Relinquish, TeardownPanics, Handler, Tracked, Setup, Teardown
<1>3. ASSUME NEW d \in Conns, TaskStep(d) PROVE main' = main
  BY <1>3
     DEF TaskStep, RefuseRequest, ReadGuestRequest, ReadDemoRequest, TakeAddr, RefuseBusy,
         SpawnTracked, IpAddrAdd, CreateContainer, StartContainer, InspectContainer, NatAdd,
         AddTempPeer, SetupPanics, TokenCancelled, ShutdownSignal, RemovePeer, StopContainer,
         NatDelete, IpAddrDel, Relinquish, TeardownPanics
<1>4. ASSUME NEW d \in Conns, ContainerExits(d)
      PROVE  \A c \in Conns : mode'[c] = "guest" /\ ctr'[c] \in Existing
                 => mode[c] = "guest" /\ ctr[c] \in Existing
  BY <1>4 DEF ContainerExits, IInv, TypeOK, Existing
<1>5. ASSUME NEW d \in Conns,
             Connect(d) \/ Accept(d) \/ SendOk(d) \/ TimerElapses(d) \/ WaitFails(d)
      PROVE  UNCHANGED <<mode, ctr>>
  BY <1>5 DEF Connect, Accept, SendOk, TimerElapses, WaitFails, worldVars
<1>6. ASSUME Boot \/ AcceptFails \/ Signal \/ MainStep \/ Crash \/ UNCHANGED vars
      PROVE  UNCHANGED <<mode, ctr>>
  BY <1>6 DEF Boot, AcceptFails, Signal, MainStep, WaitReturns, MainReturns, RuntimeDropped,
              Crash, vars, worldVars
<1> QED BY <1>1, <1>2, <1>3, <1>4, <1>5, <1>6 DEF Next

\* For every set of connections, every number of addresses and every set of faults
\* that leaves Docker able to stop containers, a daemon that is started once never
\* has more guest containers than addresses, counting what panicked tasks, the
\* shutdown and a crash leave behind.
THEOREM SpecInstanceBound ==
  ASSUME MaxBoots <= 1, "stop" \notin Faults
  PROVE  Spec => []InstanceBound
<1> DEFINE Bounded == IsFiniteSet(GuestContainers) /\ InstanceBound
<1>1. Init => Bounded
  <2> SUFFICES ASSUME Init PROVE Bounded
    OBVIOUS
  <2>1. GuestContainers = {}
    BY DEF Init, GuestContainers, Existing
  <2> QED BY <2>1, FS_EmptySet, ChalldAssumption DEF InstanceBound
<1>2. IInv => (main # "down" => Bounded)
  <2> SUFFICES ASSUME IInv, main # "down" PROVE Bounded
    OBVIOUS
  <2>1. boots = 1
    BY ChalldAssumption DEF IInv, TypeOK, SessionInv, DownIsQuiet
  <2> QED BY <2>1, GuestsHoldAddresses DEF InstanceBound
<1>3. IInv /\ (main # "down" => Bounded)' /\ Bounded /\ [Next]_vars => Bounded'
  <2> SUFFICES ASSUME IInv, (main # "down" => Bounded)', Bounded, [Next]_vars PROVE Bounded'
    OBVIOUS
  <2>1. CASE main' = "down"
    <3>1. GuestContainers' \in SUBSET GuestContainers
      BY <2>1, NoneCreatedWhenDown
    <3>2. IsFiniteSet(GuestContainers') /\ Cardinality(GuestContainers') <= Cardinality(GuestContainers)
      BY <3>1, FS_Subset
    <3>3. Cardinality(GuestContainers) \in Nat /\ Cardinality(GuestContainers') \in Nat
      BY <3>2, FS_CardinalityType
    <3> QED BY <3>2, <3>3, ChalldAssumption DEF InstanceBound
  <2>2. CASE main' # "down"
    BY <2>2
  <2> QED BY <2>1, <2>2
<1>4. Bounded => InstanceBound
  OBVIOUS
<1> HIDE DEF Bounded
<1> QED BY SpecIInv, <1>1, <1>2, <1>3, <1>4, PTL DEF Spec
=============================================================================
