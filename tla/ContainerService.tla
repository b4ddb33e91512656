--------------------------- MODULE ContainerService --------------------------
(***************************************************************************)
(* What challd promises to whoever connects to its socket, with nothing of *)
(* how it does it: a request is refused, broken off or turned into a       *)
(* session; only a request that became a session is answered OK; an answer *)
(* is final; a request refused with a result code leaves nothing; and a    *)
(* session whose answer was lost is not in progress any more, unless it    *)
(* was the client who went away.  What is not promised is that the end of  *)
(* a request or a session removes its container: it may be left, with      *)
(* nobody to stop it.  Challd implements this specification and ApiServer  *)
(* is built on it.                                                         *)
(***************************************************************************)
CONSTANT Conns      \* connections, each used once

VARIABLES up,       \* the socket takes connections
          stage,    \* idle, open (no decision yet), session, over, or left: over
                    \* but for a container that no task will remove
          reply     \* what the client can read

vars == <<up, stage, reply>>

Refusals == {"MALFORMED_REQUEST", "INVALID_PORT", "BUSY"}

Ends == {"over", "left"}

Init ==
    /\ up = FALSE
    /\ stage = [c \in Conns |-> "idle"]
    /\ reply = [c \in Conns |-> "none"]

Goto(c, s) == stage' = [stage EXCEPT ![c] = s]
Answer(c, r) == reply' = [reply EXCEPT ![c] = r]

Rise == ~up /\ up' = TRUE /\ UNCHANGED <<stage, reply>>

Connect(c) ==
    /\ up
    /\ stage[c] = "idle"
    /\ Goto(c, "open")
    /\ UNCHANGED <<up, reply>>

Refuse(c) ==
    /\ stage[c] = "open"
    /\ Goto(c, "over")
    /\ \E r \in Refusals : Answer(c, r)
    /\ UNCHANGED up

\* The task that sets the session up panics.
Break(c) ==
    /\ stage[c] = "open"
    /\ \E s \in Ends : Goto(c, s)
    /\ Answer(c, "closed")
    /\ UNCHANGED up

Begin(c) ==
    /\ stage[c] = "open"
    /\ Goto(c, "session")
    /\ Answer(c, "sending")
    /\ UNCHANGED up

Deliver(c) ==
    /\ reply[c] = "sending"
    /\ Answer(c, "OK")
    /\ UNCHANGED <<up, stage>>

\* The client has gone away.
Lose(c) ==
    /\ reply[c] = "sending"
    /\ Answer(c, "closed")
    /\ UNCHANGED <<up, stage>>

Finish(c) ==
    /\ stage[c] = "session"
    /\ \E s \in Ends : Goto(c, s)
    /\ UNCHANGED <<up, reply>>

\* The program in a container that was left ends by itself.
Vanish(c) ==
    /\ stage[c] = "left"
    /\ Goto(c, "over")
    /\ UNCHANGED <<up, reply>>

\* The daemon stops or dies: some requests and sessions end with it, now or
\* later, and the answers of sessions that have ended may be lost.
Fall ==
    /\ up' = FALSE
    /\ \E S \in SUBSET {c \in Conns : stage[c] \in {"open", "session"}} :
          /\ \E f \in [S -> Ends] :
                stage' = [c \in Conns |-> IF c \in S THEN f[c] ELSE stage[c]]
          /\ \E T \in SUBSET {c \in Conns : reply[c] = "sending" /\ (c \in S \/ stage[c] \in Ends)} :
                reply' = [c \in Conns |-> IF c \in T \/ (c \in S /\ stage[c] = "open")
                                            THEN "closed" ELSE reply[c]]

Step(c) == Refuse(c) \/ Break(c) \/ Begin(c) \/ Deliver(c) \/ Finish(c) \/ Vanish(c)

Next == Rise \/ Fall \/ \E c \in Conns : Connect(c) \/ Step(c) \/ Lose(c)

Spec == Init /\ [][Next]_vars

\* Every client is answered, or its stream is closed.
Answered == \A c \in Conns : stage[c] = "open" ~> reply[c] \notin {"none", "sending"}
=============================================================================
