---------------------------- MODULE InMemorySet ----------------------------
(***************************************************************************)
(* ctf_archive/src/codes.rs: a set whose elements leave by themselves.     *)
(*                                                                         *)
(* Every operation holds the mutex for its whole effect, so each one is    *)
(* one action.  insert_temp also spawns a task that sleeps and then        *)
(* removes the value; that task knows the value but not which insertion it *)
(* belongs to, and neither remove nor wipe cancels it.  A sleep never ends *)
(* early but may end late.                                                 *)
(***************************************************************************)
EXTENDS Naturals

CONSTANTS Vals,      \* the values that can be inserted
          TimerIds,  \* bound on the sleeping tasks alive at a time
          MaxTime    \* bound on the clock

VARIABLES set,       \* the HashSet
          timers,    \* the sleeping tasks: [id, val, at]
          now        \* the clock

vars == <<set, timers, now>>

FreeIds == {i \in TimerIds : \A t \in timers : t.id # i}

\* InMemorySet::default.
Init == set = {} /\ timers = {} /\ now = 0

\* Seeded fault: a value that is in the set already gets no task of its own.
InsertTempOnce(v, d) ==
    \E i \in FreeIds :
        /\ set' = set \cup {v}
        /\ timers' = IF v \in set THEN timers
                                  ELSE timers \cup {[id |-> i, val |-> v, at |-> now + d]}
        /\ UNCHANGED now

\* insert_temp(val, duration).
InsertTemp(v, d) ==
    \E i \in FreeIds :
        /\ set' = set \cup {v}
        /\ timers' = timers \cup {[id |-> i, val |-> v, at |-> now + d]}
        /\ UNCHANGED now

\* What remove leaves behind; the caller learns whether v was there.
WithoutNot(v) == set                             \* seeded fault: contains, not remove
Without(v)    == set \ {v}

\* remove(val).
Remove(v) ==
    /\ set' = Without(v)
    /\ UNCHANGED <<timers, now>>

\* wipe(): the sleeping tasks stay.
Wipe ==
    /\ set' = {}
    /\ UNCHANGED <<timers, now>>

\* Seeded fault: the task gives up without removing its value.
ExpireKeeps(t) ==
    /\ t \in timers
    /\ t.at <= now
    /\ timers' = timers \ {t}
    /\ UNCHANGED <<set, now>>

\* A sleeping task wakes and removes its value, whoever has inserted it since.
Expire(t) ==
    /\ t \in timers
    /\ t.at <= now
    /\ set' = set \ {t.val}
    /\ timers' = timers \ {t}
    /\ UNCHANGED now

\* The process is gone, and its tasks with it.
Discard ==
    /\ set' = {} /\ timers' = {}
    /\ UNCHANGED now

Tick ==
    /\ now < MaxTime
    /\ now' = now + 1
    /\ UNCHANGED <<set, timers>>
=============================================================================
