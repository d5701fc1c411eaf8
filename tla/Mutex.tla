-------------------------------- MODULE Mutex --------------------------------
(***************************************************************************)
(* What a struct lock of thread/sync.h promises: one holder at a time, who *)
(* may take the lock again and must release it as often.  No queue, no     *)
(* semaphore, no scheduler.                                                *)
(***************************************************************************)
EXTENDS Naturals

CONSTANTS Threads, Locks, NULL

VARIABLES
    holder,     \* the thread inside, NULL if none
    depth       \* how often it has to release

Init ==
    /\ holder = [l \in Locks |-> NULL]
    /\ depth = [l \in Locks |-> 0]

Acquire(t, l) ==
    /\ holder[l] \in {NULL, t}
    /\ holder' = [holder EXCEPT ![l] = t]
    /\ depth' = [depth EXCEPT ![l] = @ + 1]

Release(t, l) ==
    /\ holder[l] = t
    /\ depth' = [depth EXCEPT ![l] = @ - 1]
    /\ holder' = [holder EXCEPT ![l] = IF depth[l] = 1 THEN NULL ELSE t]

Next == \E t \in Threads, l \in Locks : Acquire(t, l) \/ Release(t, l)

Spec == Init /\ [][Next]_<< holder, depth >>
=============================================================================
