------------------------------ MODULE ApiServer ------------------------------
(***************************************************************************)
(* The requests of ctf_archive that use the database, and the daemon two   *)
(* of them wait for: the handlers of ctfs.rs, categories.rs and            *)
(* challenges.rs with the pool of state.rs and start_container of          *)
(* challd.rs, composed with ContainerService.                              *)
(*                                                                         *)
(* What counts here is what a handler waits for and what it holds          *)
(* meanwhile.  A connection of the pool is a local of the handler, so it   *)
(* goes back whenever the handler ends: by an answer, a panic, or because  *)
(* the HTTP client went away and the handler was dropped at its await.     *)
(* The handlers differ in when they take it: create reads the upload       *)
(* first, set_archive takes the connection first, start and host_demo keep *)
(* it while they wait for challd, without a timeout.  What the statements  *)
(* do to the tables is in Catalogue.                                       *)
(***************************************************************************)
EXTENDS Naturals, FiniteSets

CONSTANTS Reqs,       \* HTTP requests
          PoolSize,   \* connections of the pool (bb8's default is 10)
          Faults      \* "db": the database fails; "crash": the server dies

ASSUME ApiServerAssumption ==
    /\ PoolSize \in Nat \ {0}
    /\ Faults \subseteq {"db", "crash"}

VARIABLES at, route, status,   \* per request
          free,                \* idle connections of the pool
          up, stage, reply     \* the daemon, see ContainerService

Challd == INSTANCE ContainerService WITH Conns <- Reqs

serverVars == <<at, route, status, free>>
challdVars == <<up, stage, reply>>
vars       == <<serverVars, challdVars>>

\* "plain" is any of the handlers that only execute one statement.
DaemonRoutes == {"start", "host_demo"}
Routes == {"plain", "create", "set_archive"} \cup DaemonRoutes

\* The order in which a handler receives the upload and takes a connection.
AfterArrival(k) == IF k = "create" THEN "receive" ELSE "pool"
AfterPool(k)    == IF k = "set_archive" THEN "receive" ELSE "query"
AfterReceive(k) == IF k = "create" THEN "pool" ELSE "query"

\* conn is alive in the handler.
Holds(r) ==
    \/ at[r] \in {"query", "connect", "await"}
    \/ at[r] = "receive" /\ route[r] = "set_archive"

Holders == {r \in Reqs : Holds(r)}

Goto(r, label) == at' = [at EXCEPT ![r] = label]

\* Seeded fault: the connection is not returned when the daemon cannot be reached.
ReturnedUnlessConnecting(r) == IF Holds(r) /\ at[r] # "connect" THEN free + 1 ELSE free
\* Seeded fault: a handler that holds none returns one too.
ReturnedAlways(r) == free + 1
\* What the drop of a handler's locals leaves in the pool.
Returned(r) == IF Holds(r) THEN free + 1 ELSE free

\* The handler of r ends.
End(r, s) ==
    /\ Goto(r, "done")
    /\ status' = [status EXCEPT ![r] = s]
    /\ free' = Returned(r)
    /\ UNCHANGED route

Init ==
    /\ at = [r \in Reqs |-> "idle"]
    /\ route = [r \in Reqs |-> "none"]
    /\ status = [r \in Reqs |-> "none"]
    /\ free = PoolSize
    /\ Challd!Init
-----------------------------------------------------------------------------
\* The extractors accept the token and the permission is there.
Arrive(r, k) ==
    /\ at[r] = "idle"
    /\ route' = [route EXCEPT ![r] = k]
    /\ Goto(r, AfterArrival(k))
    /\ UNCHANGED <<status, free, challdVars>>

\* No valid token (UNAUTHORIZED) or no permission (FORBIDDEN).
Forbid(r) ==
    /\ at[r] = "idle"
    /\ End(r, "refused")
    /\ UNCHANGED challdVars

\* multi.next_field() and field.bytes() have the whole upload.
ReceiveUpload(r) ==
    /\ at[r] = "receive"
    /\ Goto(r, AfterReceive(route[r]))
    /\ UNCHANGED <<route, status, free, challdVars>>

\* The upload is not a zip_file, or cannot be read.
BadUpload(r) ==
    /\ at[r] = "receive"
    /\ End(r, "refused")
    /\ UNCHANGED challdVars

\* state.pool().get().await
GetConn(r) ==
    /\ at[r] = "pool"
    /\ free > 0
    /\ free' = free - 1
    /\ Goto(r, AfterPool(route[r]))
    /\ UNCHANGED <<route, status, challdVars>>

\* Seeded fault: a pool without a timeout.
GetNeverTimesOut(r) == FALSE /\ End(r, "reset") /\ UNCHANGED challdVars
\* get() gives up after its timeout because every connection is in use, or because
\* none can be opened: unwrap() panics and the HTTP connection is reset.
GetTimesOut(r) ==
    /\ at[r] = "pool"
    /\ free = 0 \/ "db" \in Faults
    /\ End(r, "reset")
    /\ UNCHANGED challdVars

\* The statement is executed, or ctfs::create panics on a date that is no day.  start
\* and host_demo go on if the challenge has an image and answer NOT_FOUND otherwise.
Execute(r) ==
    /\ at[r] = "query"
    /\ \/ /\ route[r] \notin DaemonRoutes
          /\ End(r, "OK") \/ End(r, "refused")
       \/ route[r] = "plain" /\ End(r, "reset")
       \/ route[r] \in DaemonRoutes /\ End(r, "refused")
       \/ /\ route[r] \in DaemonRoutes
          /\ Goto(r, "connect")
          /\ UNCHANGED <<route, status, free>>
    /\ UNCHANGED challdVars

\* The statement fails: INTERNAL_SERVER_ERROR, or the unwrap() of ctfs::list.
QueryFails(r) ==
    /\ at[r] = "query"
    /\ "db" \in Faults
    /\ End(r, "error") \/ (route[r] = "plain" /\ End(r, "reset"))
    /\ UNCHANGED challdVars
-----------------------------------------------------------------------------
(* start_container, and the daemon.                                        *)

\* UnixStream::connect and write_all.  (If the daemon goes away before it has read
\* the message, that shows in its reply.)
ConnectDaemon(r) ==
    /\ at[r] = "connect"
    /\ Challd!Connect(r)
    /\ Goto(r, "await")
    /\ UNCHANGED <<route, status, free>>

\* Seeded fault: the connection is tried again until the daemon is there.
ConnectRetries(r) == FALSE /\ End(r, "error") /\ UNCHANGED challdVars
\* There is no socket: ChalldError::Io.
ConnectFails(r) ==
    /\ at[r] = "connect"
    /\ ~up
    /\ End(r, "error")
    /\ UNCHANGED challdVars

\* Seeded fault: the result code is not looked at.
MeaningAlwaysOk(rep) == IF rep = "closed" THEN "error" ELSE "OK"
\* RESPONSE_OK, or ChalldError::ResponseCode, or ChalldError::Io.
Meaning(rep) == IF rep = "OK" THEN "OK" ELSE "error"

\* conn.read_u8() and, for a guest, the configuration.
ReadReply(r) ==
    /\ at[r] = "await"
    /\ reply[r] \notin {"none", "sending"}
    /\ End(r, Meaning(reply[r]))
    /\ UNCHANGED challdVars

\* The daemon goes on by itself; it cannot write an answer to a handler that has
\* ended.  (That an answer it does write is understood is shown in StartProtocol,
\* for requests with fewer than 256 ports.)
DaemonStep(r) ==
    /\ Challd!Step(r) \/ (at[r] = "done" /\ Challd!Lose(r))
    /\ UNCHANGED serverVars

DaemonStarts == Challd!Rise /\ UNCHANGED serverVars
DaemonStops  == Challd!Fall /\ UNCHANGED serverVars
-----------------------------------------------------------------------------
\* The HTTP client goes away: the handler is dropped at the await it stands at.
ClientGone(r) ==
    /\ at[r] \notin {"idle", "done"}
    /\ End(r, "gone")
    /\ UNCHANGED challdVars

\* The server dies and is started again, with a new pool.
Crash ==
    /\ "crash" \in Faults
    /\ \E r \in Reqs : at[r] \notin {"idle", "done"}
    /\ status' = [r \in Reqs |-> IF at[r] \in {"idle", "done"} THEN status[r] ELSE "gone"]
    /\ at' = [r \in Reqs |-> IF at[r] = "idle" THEN "idle" ELSE "done"]
    /\ free' = PoolSize
    /\ UNCHANGED <<route, challdVars>>

\* What the server does for r by itself, and the database's answer.
ServerStep(r) ==
    GetConn(r) \/ GetTimesOut(r) \/ Execute(r) \/ ConnectDaemon(r) \/ ConnectFails(r) \/ ReadReply(r)

\* What waits for the client's upload.
UploadStep(r) == ReceiveUpload(r) \/ BadUpload(r)

Next ==
    \/ \E r \in Reqs : \/ \E k \in Routes : Arrive(r, k)
                       \/ Forbid(r) \/ UploadStep(r) \/ ServerStep(r)
                       \/ QueryFails(r) \/ ClientGone(r) \/ DaemonStep(r)
    \/ DaemonStarts \/ DaemonStops \/ Crash

Spec == Init /\ [][Next]_vars

\* tokio runs what can run, the timer of the pool elapses and the database answers.
\* Nothing is assumed of HTTP clients or of the daemon.
FairSpec == Spec /\ \A r \in Reqs : WF_vars(ServerStep(r))

\* Clients who upload finish.
Uploads == \A r \in Reqs : WF_vars(UploadStep(r))
-----------------------------------------------------------------------------
\* Every variable stays in its range.
TypeOK ==
    /\ at \in [Reqs -> {"idle", "receive", "pool", "query", "connect", "await", "done"}]
    /\ route \in [Reqs -> Routes \cup {"none"}]
    /\ status \in [Reqs -> {"none", "OK", "refused", "error", "reset", "gone"}]
    /\ free \in 0..PoolSize
    /\ up \in BOOLEAN
    /\ stage \in [Reqs -> {"idle", "open", "session"} \cup Challd!Ends]
    /\ reply \in [Reqs -> Challd!Refusals \cup {"none", "sending", "OK", "closed"}]

\* However handlers end (answers, errors of the database or the daemon, panics,
\* clients that leave, a crash), no connection of the pool is lost or returned
\* twice.
PoolConserved == free + Cardinality(Holders) = PoolSize

\* What an answer of the server tells about the daemon.  OK of start and host_demo
\* means that a session was set up and that the server read its result.  After any
\* other answer no session is in progress.  A container may then be left that nobody
\* will stop, but only behind an error that stands for a stream which challd closed
\* without a result (it panicked or ended): a result code, or a daemon that was not
\* reached, means that there is none.  Only if the client left, or the server died,
\* can a session go on that nobody knows of.
AnswerTellsSession ==
    \A r \in Reqs : at[r] = "done" /\ status[r] # "gone" =>
        \/ /\ status[r] = "OK" /\ route[r] \in DaemonRoutes
           /\ stage[r] \in {"session"} \cup Challd!Ends /\ reply[r] = "OK"
        \/ /\ ~(status[r] = "OK" /\ route[r] \in DaemonRoutes)
           /\ \/ stage[r] \in {"idle", "over"}
              \/ stage[r] = "left" /\ status[r] = "error" /\ reply[r] = "closed"

(* The inductive invariant behind the theorems of ApiServerProofs.         *)

\* Only the handlers that have an upload receive one, and only start and host_demo
\* talk to the daemon.
HandlerFollowsRoute ==
    \A r \in Reqs :
        /\ at[r] \in {"pool", "query"} => route[r] \in Routes
        /\ at[r] = "receive" => route[r] \in {"create", "set_archive"}
        /\ at[r] \in {"connect", "await"} => route[r] \in DaemonRoutes

\* What the daemon does for a handler, and what it has answered, follow from where
\* the handler stands: only a client that is gone can lose the answer of a session.
DaemonFollowsHandler ==
    \A r \in Reqs :
        /\ at[r] \notin {"await", "done"} => stage[r] = "idle"
        /\ stage[r] \in {"idle", "open"} => reply[r] = "none"
        /\ at[r] # "done" /\ reply[r] = "closed" => stage[r] \in Challd!Ends
        /\ reply[r] \in Challd!Refusals => stage[r] = "over"

IInv ==
    /\ TypeOK
    /\ IsFiniteSet(Holders) /\ PoolConserved
    /\ HandlerFollowsRoute /\ DaemonFollowsHandler /\ AnswerTellsSession
-----------------------------------------------------------------------------
\* A request that does not need the daemon or an upload ends in bounded time (with
\* an answer, or reset by the pool's timeout), even if the daemon never answers the
\* requests that hold the connections.
PlainEnds == \A r \in Reqs : route[r] = "plain" ~> at[r] = "done"

\* If the daemon keeps its promise and uploads finish, every request ends, and so
\* gives back the connection it keeps from the others.
RequestEnds ==
    Challd!Answered /\ Uploads => \A r \in Reqs : route[r] # "none" ~> at[r] = "done"
=============================================================================
