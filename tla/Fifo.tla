-------------------------------- MODULE Fifo --------------------------------
(***************************************************************************)
(* What device/ioqueue.c promises: a first-in first-out queue of bounded   *)
(* length.                                                                 *)
(***************************************************************************)
EXTENDS Integers, Sequences

CONSTANTS
    Chars,      \* what is queued
    Capacity,   \* the most that fits
    NULL

VARIABLES
    q,          \* the queue
    taken       \* what was taken out last, NULL at first

vars == << q, taken >>

Init == q = << >> /\ taken = NULL

Put(c) ==
    /\ Len(q) < Capacity
    /\ q' = Append(q, c)
    /\ UNCHANGED taken

Get ==
    /\ q # << >>
    /\ taken' = Head(q)
    /\ q' = Tail(q)

Next == Get \/ \E c \in Chars : Put(c)

Spec == Init /\ [][Next]_vars
=============================================================================
