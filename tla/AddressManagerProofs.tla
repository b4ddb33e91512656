------------------------ MODULE AddressManagerProofs ------------------------
(***************************************************************************)
(* The address table is correct for every number of slots and any set of   *)
(* tasks.  IInv is inductive: exclusion alone is not, because a probe that *)
(* finds a slot unmarked must also know that nobody holds it               *)
(* (MarkedIffHeld), and a release must not unmark a slot for another task. *)
(***************************************************************************)
EXTENDS AddressManager, TLAPS

\* A new table satisfies the inductive invariant.
LEMMA InitIInv == Init => IInv
  BY MaxInstancesAssumption
     DEF Init, IInv, TypeOK, AddressExclusive, MarkedIffHeld, HoldsOutsideCall, Addrs

\* Every slot operation keeps the inductive invariant.
LEMMA NextIInv == IInv /\ [Next]_vars => IInv'
<1> SUFFICES ASSUME IInv, [Next]_vars PROVE IInv'
  OBVIOUS
<1> USE MaxInstancesAssumption
    DEF IInv, TypeOK, AddressExclusive, MarkedIffHeld, HoldsOutsideCall, Addrs
<1>1. ASSUME NEW t \in Tasks, TakeNextAddr(t) PROVE IInv'
  BY <1>1 DEF TakeNextAddr
<1>2. ASSUME NEW t \in Tasks, ProbeFree(t) PROVE IInv'
  <2>1. scan[t] \in 1..MAX_INSTANCES /\ addr[t] = 0
    BY <1>2 DEF ProbeFree
  <2>2. \A u \in Tasks : addr[u] # scan[t]
    BY <1>2, <2>1 DEF ProbeFree
  <2>3. TypeOK' /\ HoldsOutsideCall'
    BY <1>2, <2>1 DEF ProbeFree, Marked, AddressOf
  <2>4. AddressExclusive'
    BY <1>2, <2>1, <2>2 DEF ProbeFree, AddressOf
  <2>5. MarkedIffHeld'
    BY <1>2, <2>1, <2>2 DEF ProbeFree, Marked, AddressOf
  <2> QED BY <2>3, <2>4, <2>5
<1>3. ASSUME NEW t \in Tasks, ProbeUsed(t) PROVE IInv'
  BY <1>3 DEF ProbeUsed
<1>4. ASSUME NEW t \in Tasks, ProbeLast(t) PROVE IInv'
  BY <1>4 DEF ProbeLast
<1>5. ASSUME NEW t \in Tasks, RelinquishAddr(t) PROVE IInv'
  <2>1. addr[t] \in 1..MAX_INSTANCES
    BY <1>5 DEF RelinquishAddr
  <2>2. TypeOK' /\ HoldsOutsideCall' /\ AddressExclusive'
    BY <1>5, <2>1 DEF RelinquishAddr, Unmarked
  <2>3. MarkedIffHeld'
    BY <1>5, <2>1 DEF RelinquishAddr, Unmarked
  <2> QED BY <2>2, <2>3
<1>6. CASE Discard
  BY <1>6 DEF Discard
<1>7. CASE UNCHANGED vars
  BY <1>7 DEF vars
<1> QED
  BY <1>1, <1>2, <1>3, <1>4, <1>5, <1>6, <1>7 DEF Next, Probe

\* The table keeps its inductive invariant.
THEOREM SpecIInv == Spec => []IInv
  BY InitIInv, NextIInv, PTL DEF Spec

\* For every table size and every set of tasks, every interleaving of walks and
\* releases keeps all values in range, in particular every address within the
\* table it indexes.
THEOREM SpecTypeOK == Spec => []TypeOK
<1>1. IInv => TypeOK
  BY DEF IInv
<1> QED BY SpecIInv, <1>1, PTL

\* For every table size and every set of tasks, take_next_addr never gives one
\* address to two tasks.
THEOREM SpecAddressExclusive == Spec => []AddressExclusive
<1>1. IInv => AddressExclusive
  BY DEF IInv
<1> QED BY SpecIInv, <1>1, PTL

\* A slot is marked exactly while it is held: the table itself loses no address.
THEOREM SpecMarkedIffHeld == Spec => []MarkedIffHeld
<1>1. IInv => MarkedIffHeld
  BY DEF IInv
<1> QED BY SpecIInv, <1>1, PTL
-----------------------------------------------------------------------------
\* A new table is a pool with nothing given out.
LEMMA InitRefines == Init => Pool!Init
  BY DEF Init, Pool!Init, Addrs

\* The walk's position as the pool sees it: which tasks are in a call, and which
\* addresses a caller has gone past.
LEMMA WalkEnds ==
  ASSUME TypeOK, NEW t \in Tasks, scan' = [scan EXCEPT ![t] = 0]
  PROVE  /\ {u \in Tasks : scan[u] # 0}' = {u \in Tasks : scan[u] # 0} \ {t}
         /\ [u \in Tasks |-> {a \in Addrs : a < scan[u]}]'
              = [[u \in Tasks |-> {a \in Addrs : a < scan[u]}] EXCEPT ![t] = {}]
<1>1. \A u \in Tasks : scan'[u] = IF u = t THEN 0 ELSE scan[u]
  BY DEF TypeOK
<1>2. {a \in Addrs : a < 0} = {}
  BY MaxInstancesAssumption DEF Addrs
<1>3. {u \in Tasks : scan'[u] # 0} = {u \in Tasks : scan[u] # 0} \ {t}
  BY <1>1
<1>4. [u \in Tasks |-> {a \in Addrs : a < scan'[u]}]
        = [[u \in Tasks |-> {a \in Addrs : a < scan[u]}] EXCEPT ![t] = {}]
  BY <1>1, <1>2
<1> QED BY <1>3, <1>4 DEF Addrs

\* Every slot operation is a step of the pool: a probe of a held slot is what the
\* pool calls observing it, and the last operation of a walk is its return.
LEMMA StepRefines == IInv /\ [Next]_vars => [Pool!Next]_(Pool!vars)
<1> SUFFICES ASSUME IInv, [Next]_vars PROVE [Pool!Next]_(Pool!vars)
  OBVIOUS
<1>0. /\ MAX_INSTANCES \in Nat \ {0}
      /\ TypeOK /\ MarkedIffHeld /\ HoldsOutsideCall
  BY MaxInstancesAssumption DEF IInv
<1>1. ASSUME NEW t \in Tasks, TakeNextAddr(t) PROVE Pool!Next
  <2>1. {u \in Tasks : scan[u] # 0}' = {u \in Tasks : scan[u] # 0} \cup {t}
    BY <1>0, <1>1 DEF TakeNextAddr, TypeOK
  <2>2. [u \in Tasks |-> {a \in Addrs : a < scan[u]}]'
          = [u \in Tasks |-> {a \in Addrs : a < scan[u]}]
    <3>1. \A a \in Addrs : ~(a < 0) /\ ~(a < 1)
      BY <1>0 DEF Addrs
    <3>2. \A u \in Tasks : {a \in Addrs : a < scan'[u]} = {a \in Addrs : a < scan[u]}
      BY <1>0, <1>1, <3>1 DEF TakeNextAddr, TypeOK
    <3> QED BY <3>2 DEF Addrs
  <2>3. Pool!Call(t)
    BY <1>1, <2>1, <2>2 DEF TakeNextAddr, Pool!Call
  <2> QED BY <2>3 DEF Pool!Next
<1>2. ASSUME NEW t \in Tasks, ProbeFree(t) PROVE Pool!Next
  <2>1. scan[t] \in Addrs
    BY <1>0, <1>2 DEF ProbeFree, TypeOK, Addrs
  <2>2. Pool!Free(scan[t])
    BY <1>0, <1>2, <2>1 DEF ProbeFree, MarkedIffHeld, Pool!Free
  <2>3. PICK a \in Addrs : a = scan[t]
    BY <2>1
  <2>4. Pool!Free(a)
    BY <2>2, <2>3 DEF Pool!Free
  <2>5. Pool!ReturnSome(t, a)
    BY <1>0, <1>2, <2>3, <2>4, WalkEnds DEF ProbeFree, AddressOf, Pool!ReturnSome
  <2> QED BY <2>3, <2>5 DEF Pool!Next
<1>3. ASSUME NEW t \in Tasks, ProbeUsed(t) PROVE Pool!Next
  <2>1. scan[t] \in Addrs
    BY <1>0, <1>3 DEF ProbeUsed, TypeOK, Addrs
  <2>2. ~Pool!Free(scan[t])
    BY <1>0, <1>3, <2>1 DEF ProbeUsed, MarkedIffHeld, Pool!Free
  <2>3. \A u \in Tasks : scan'[u] = IF u = t THEN scan[t] + 1 ELSE scan[u]
    BY <1>0, <1>3 DEF ProbeUsed, TypeOK
  <2>4. {u \in Tasks : scan[u] # 0}' = {u \in Tasks : scan[u] # 0}
    BY <1>0, <1>3, <2>3 DEF ProbeUsed, TypeOK
  <2>5. {a \in Addrs : a < scan[t] + 1} = {a \in Addrs : a < scan[t]} \cup {scan[t]}
    BY <1>0, <2>1 DEF Addrs
  <2>6. [u \in Tasks |-> {a \in Addrs : a < scan[u]}]'
          = [[u \in Tasks |-> {a \in Addrs : a < scan[u]}] EXCEPT ![t] = @ \cup {scan[t]}]
    BY <2>3, <2>5 DEF Addrs
  <2>7. PICK a \in Addrs : a = scan[t]
    BY <2>1
  <2>8. ~Pool!Free(a)
    BY <2>2, <2>7 DEF Pool!Free
  <2>9. Pool!Observe(t, a)
    BY <1>3, <2>4, <2>6, <2>7, <2>8 DEF ProbeUsed, Pool!Observe
  <2> QED BY <2>7, <2>9 DEF Pool!Next
<1>4. ASSUME NEW t \in Tasks, ProbeLast(t) PROVE Pool!Next
  <2>1. \A a \in Addrs : a < scan[t] \/ a = scan[t]
    BY <1>0, <1>4 DEF ProbeLast, Addrs
  <2>2. scan[t] \in Addrs /\ scan[t] # 0
    BY <1>0, <1>4 DEF ProbeLast, Addrs
  <2>3. ~Pool!Free(scan[t])
    BY <1>0, <1>4, <2>2 DEF ProbeLast, MarkedIffHeld, Pool!Free
  <2>4. Pool!ReturnNone(t)
    BY <1>0, <1>4, <2>1, <2>2, <2>3, WalkEnds DEF ProbeLast, Pool!ReturnNone
  <2> QED BY <2>4 DEF Pool!Next
<1>5. ASSUME NEW t \in Tasks, RelinquishAddr(t) PROVE Pool!Next
  <2>1. Pool!GiveBack(t)
    BY <1>0, <1>5 DEF RelinquishAddr, Pool!GiveBack, Addrs, TypeOK
  <2> QED BY <2>1 DEF Pool!Next
<1>6. ASSUME Discard PROVE Pool!Next
  <2>1. \A a \in Addrs : ~(a < 0)
    BY <1>0 DEF Addrs
  <2>2. Pool!Discard
    BY <1>6, <2>1 DEF Discard, Pool!Discard, Addrs
  <2> QED BY <2>2 DEF Pool!Next
<1>7. ASSUME UNCHANGED vars PROVE UNCHANGED Pool!vars
  BY <1>7 DEF vars, Pool!vars, Addrs
<1> QED
  BY <1>1, <1>2, <1>3, <1>4, <1>5, <1>6, <1>7 DEF Next, Probe

\* The table implements the abstract pool for every size and every set of tasks:
\* what it returns was free, and None is returned only if every address was seen
\* held at some moment of the walk.
THEOREM ImplementsPool == Spec => PoolSpec
<1> QED BY SpecIInv, InitRefines, StepRefines, PTL DEF Spec, PoolSpec, Pool!Spec
=============================================================================
