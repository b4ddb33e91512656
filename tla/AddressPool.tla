---------------------------- MODULE AddressPool ----------------------------
(***************************************************************************)
(* What a pool of addresses promises to the tasks that share it, whatever  *)
(* data structure it is built from (challd/src/address_manager.rs):        *)
(*                                                                         *)
(*  - a call that succeeds returns an address nobody holds at that moment; *)
(*  - a call may come back empty-handed only if, for every address, there  *)
(*    was a moment during the call at which somebody held it;              *)
(*  - an address stays with its holder until the holder gives it back, or  *)
(*    until the whole pool is thrown away with its process.                *)
(*                                                                         *)
(* The second promise is deliberately weaker than "some moment at which    *)
(* every address was held": the scan in the code is not atomic.            *)
(***************************************************************************)

CONSTANTS Tasks,    \* the callers
          Addrs,    \* the addresses handed out
          NoAddr    \* not an address: the caller holds nothing

VARIABLES holds,    \* [Tasks -> Addrs \cup {NoAddr}]
          calling,  \* the tasks inside a take call
          seen      \* per caller, the addresses it has observed as held

vars == <<holds, calling, seen>>

Free(a) == \A t \in Tasks : holds[t] # a

Init ==
    /\ holds = [t \in Tasks |-> NoAddr]
    /\ calling = {}
    /\ seen = [t \in Tasks |-> {}]

Call(t) ==
    /\ t \notin calling
    /\ holds[t] = NoAddr
    /\ calling' = calling \cup {t}
    /\ UNCHANGED <<holds, seen>>

Observe(t, a) ==
    /\ t \in calling
    /\ ~Free(a)
    /\ seen' = [seen EXCEPT ![t] = @ \cup {a}]
    /\ UNCHANGED <<holds, calling>>

ReturnSome(t, a) ==
    /\ t \in calling
    /\ Free(a)
    /\ holds' = [holds EXCEPT ![t] = a]
    /\ calling' = calling \ {t}
    /\ seen' = [seen EXCEPT ![t] = {}]

ReturnNone(t) ==
    /\ t \in calling
    /\ \A a \in Addrs \ seen[t] : ~Free(a)
    /\ calling' = calling \ {t}
    /\ seen' = [seen EXCEPT ![t] = {}]
    /\ UNCHANGED holds

GiveBack(t) ==
    /\ holds[t] # NoAddr
    /\ holds' = [holds EXCEPT ![t] = NoAddr]
    /\ UNCHANGED <<calling, seen>>

Discard ==
    /\ holds' = [t \in Tasks |-> NoAddr]
    /\ calling' = {}
    /\ seen' = [t \in Tasks |-> {}]

Next ==
    \/ \E t \in Tasks : Call(t) \/ ReturnNone(t) \/ GiveBack(t)
    \/ \E t \in Tasks, a \in Addrs : Observe(t, a) \/ ReturnSome(t, a)
    \/ Discard

Spec == Init /\ [][Next]_vars
=============================================================================
