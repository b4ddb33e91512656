--------------------------- MODULE AddressManager ---------------------------
(***************************************************************************)
(* challd/src/address_manager.rs: the lock-free table of VPN addresses.    *)
(*                                                                         *)
(* used_addresses is an array of MAX_INSTANCES AtomicBools.  A caller of   *)
(* take_next_addr walks the array from the first slot and does one atomic  *)
(* fetch_or(true) per slot; the walk as a whole is not atomic, so several  *)
(* walks and releases interleave slot by slot.  Slot i (0-based) in the    *)
(* code is index i + 1 here, the value the code hands out as the address.  *)
(*                                                                         *)
(* Ordering::Relaxed gives no order between slots, but every read-modify-  *)
(* write of one AtomicBool still sees the latest value of that AtomicBool, *)
(* which is all the model relies on.                                       *)
(***************************************************************************)
EXTENDS Naturals

CONSTANTS Tasks,          \* the tokio tasks that call into the table
          MAX_INSTANCES   \* its size

ASSUME MaxInstancesAssumption == MAX_INSTANCES \in Nat \ {0}

VARIABLES used_addresses, \* [Addrs -> BOOLEAN]
          scan,           \* per task: the slot its walk probes next, 0 outside a call
          addr            \* per task: the address it was given, 0 if none

vars == <<used_addresses, scan, addr>>

Addrs == 1..MAX_INSTANCES

\* AddressManager::new: every slot free, nobody in a call.
Init ==
    /\ used_addresses = [a \in Addrs |-> FALSE]
    /\ scan = [t \in Tasks |-> 0]
    /\ addr = [t \in Tasks |-> 0]

\* A task that holds nothing calls take_next_addr; the walk starts at slot 1.
TakeNextAddr(t) ==
    /\ scan[t] = 0
    /\ addr[t] = 0
    /\ scan' = [scan EXCEPT ![t] = 1]
    /\ UNCHANGED <<used_addresses, addr>>

\* The outcome of fetch_or(true) on a slot, and of store(false).
MarkedNot(a) == used_addresses                   \* seeded fault: a plain load
Marked(a)    == [used_addresses EXCEPT ![a] = TRUE]

UnmarkedNot(a) == used_addresses                 \* seeded fault: store forgotten
Unmarked(a)    == [used_addresses EXCEPT ![a] = FALSE]

\* The address take_next_addr returns for slot a.
AddressOfPlusOne(a) == a + 1                     \* seeded fault: off by one
AddressOf(a)        == a

\* fetch_or returned false: the slot is now ours and the walk ends.
ProbeFree(t) ==
    /\ scan[t] # 0
    /\ ~used_addresses[scan[t]]
    /\ used_addresses' = Marked(scan[t])
    /\ addr' = [addr EXCEPT ![t] = AddressOf(scan[t])]
    /\ scan' = [scan EXCEPT ![t] = 0]

\* Seeded fault: the walk starts over instead of giving up at the end.
ProbeUsedForever(t) ==
    /\ scan[t] # 0
    /\ used_addresses[scan[t]]
    /\ scan' = [scan EXCEPT ![t] = IF @ = MAX_INSTANCES THEN 1 ELSE @ + 1]
    /\ UNCHANGED <<used_addresses, addr>>

\* fetch_or returned true: go on to the next slot.
ProbeUsed(t) ==
    /\ scan[t] # 0
    /\ scan[t] < MAX_INSTANCES
    /\ used_addresses[scan[t]]
    /\ scan' = [scan EXCEPT ![t] = @ + 1]
    /\ UNCHANGED <<used_addresses, addr>>

\* Seeded fault: the loop bound is one short, so the last slot is never probed.
ProbeLastEarly(t) ==
    /\ scan[t] # 0
    /\ scan[t] + 1 >= MAX_INSTANCES
    /\ used_addresses[scan[t]]
    /\ scan' = [scan EXCEPT ![t] = 0]
    /\ UNCHANGED <<used_addresses, addr>>

\* fetch_or returned true on the last slot: take_next_addr returns None.
ProbeLast(t) ==
    /\ scan[t] = MAX_INSTANCES
    /\ used_addresses[scan[t]]
    /\ scan' = [scan EXCEPT ![t] = 0]
    /\ UNCHANGED <<used_addresses, addr>>

\* relinquish_addr(addr): the assertion on the range (which also lets
\* MAX_INSTANCES + 1 through), then the store to slot addr - 1.
RelinquishAddr(t) ==
    /\ addr[t] \in 1..(MAX_INSTANCES + 1)
    /\ used_addresses' = Unmarked(addr[t])
    /\ addr' = [addr EXCEPT ![t] = 0]
    /\ UNCHANGED scan

\* The process is gone with its tasks; the next one starts from new().
Discard ==
    /\ used_addresses' = [a \in Addrs |-> FALSE]
    /\ scan' = [t \in Tasks |-> 0]
    /\ addr' = [t \in Tasks |-> 0]

Probe(t) == ProbeFree(t) \/ ProbeUsed(t) \/ ProbeLast(t)

Next ==
    \/ \E t \in Tasks : TakeNextAddr(t) \/ Probe(t) \/ RelinquishAddr(t)
    \/ Discard

Spec == Init /\ [][Next]_vars

\* A task inside take_next_addr is not preempted for ever: the walk has no
\* await, so the worker thread that runs it keeps running it.
FairSpec == Spec /\ \A t \in Tasks : WF_vars(Probe(t))
-----------------------------------------------------------------------------
\* Every variable stays in its range; an address fits the table it indexes,
\* which is stricter than what the assertion in relinquish_addr checks.
TypeOK ==
    /\ used_addresses \in [Addrs -> BOOLEAN]
    /\ scan \in [Tasks -> 0..MAX_INSTANCES]
    /\ addr \in [Tasks -> 0..MAX_INSTANCES]

\* No two tasks hold the same address, although their walks interleave.
AddressExclusive ==
    \A t, u \in Tasks : addr[t] # 0 /\ addr[t] = addr[u] => t = u

\* A slot is marked exactly while some task holds it: no address is handed out
\* twice and none is lost by take_next_addr or relinquish_addr themselves.
MarkedIffHeld ==
    \A a \in Addrs : used_addresses[a] <=> \E t \in Tasks : addr[t] = a

\* A task is never inside a call while it holds an address.
HoldsOutsideCall == \A t \in Tasks : scan[t] # 0 => addr[t] = 0

\* The inductive invariant behind the theorems of AddressManagerProofs.
IInv == TypeOK /\ AddressExclusive /\ MarkedIffHeld /\ HoldsOutsideCall

\* take_next_addr always returns, however the other tasks take and release:
\* the walk is bounded (the table is wait-free, not merely lock-free).
TakeReturns == \A t \in Tasks : scan[t] # 0 ~> scan[t] = 0

\* The table implements the abstract pool: the walk's position stands for the
\* set of addresses the caller has seen held.
Pool == INSTANCE AddressPool WITH
            NoAddr  <- 0,
            holds   <- addr,
            calling <- {t \in Tasks : scan[t] # 0},
            seen    <- [t \in Tasks |-> {a \in Addrs : a < scan[t]}]

\* What take_next_addr and relinquish_addr promise, for every interleaving of
\* their slot operations.
PoolSpec == Pool!Spec
=============================================================================
