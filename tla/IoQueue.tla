------------------------------- MODULE IoQueue -------------------------------
(***************************************************************************)
(* device/ioqueue.c: the ring buffer between an interrupt handler or       *)
(* writing threads and reading threads.                                    *)
(*                                                                         *)
(* Both operations run with interrupts off (their first line ASSERTs it),  *)
(* so a step is what a thread does up to the point where it blocks.        *)
(*                                                                         *)
(* ioq_wakeup takes a struct pcb_struct ** and is given ioq->consumer,     *)
(* not its address.  *waiter is then the first word of the waiter's pcb,   *)
(* its saved stack pointer, and thread_unlock reads a status from a stack. *)
(* Whatever it finds there, the machine does not survive: it stops in an   *)
(* ASSERT, or links a piece of stack into the ready list and zeroes the    *)
(* waiter's stack pointer.                                                 *)
(***************************************************************************)
EXTENDS Integers, Sequences

CONSTANTS
    Readers,    \* threads that call ioq_getchar
    Writers,    \* threads that call ioq_putchar
    Chars,      \* what is queued
    BufSize,    \* buf_size
    NULL

Threads == Readers \cup Writers
Positions == 0 .. BufSize - 1

ASSUME IoQueueAssumption ==
    /\ BufSize \in Nat \ {0}
    /\ NULL \notin Threads
    /\ NULL \notin Chars

VARIABLES
    buf, head, tail,
    consumer, producer,     \* the waiting thread, or NULL
    holder,                 \* io_lock
    state,                  \* thread |-> "run", "wait" (thread_lock), "lock" (lock_acquire)
    unlocked,               \* what thread_unlock was called with last
    taken                   \* what ioq_getchar returned last

ring == << buf, head, tail >>
waiting == << consumer, producer, holder, state, unlocked >>
vars == << ring, waiting, taken >>

\* *waiter in ioq_wakeup: the word at the start of t's pcb.
self_kernel_stack(t) == [stack_of |-> t]

Init ==
    /\ buf = [i \in Positions |-> NULL]
    /\ head = 0 /\ tail = 0
    /\ consumer = NULL /\ producer = NULL
    /\ holder = NULL
    /\ state = [t \in Threads |-> "run"]
    /\ unlocked = NULL
    /\ taken = NULL

next_pos(pos) == (pos + 1) % BufSize

\* Mutant: the position kept free is used too.
ioqueue_is_full_never == FALSE

ioqueue_is_full == next_pos(head) = tail

ioqueue_is_empty == head = tail

\* Nothing runs after thread_unlock was called with a stack pointer.
Alive == unlocked = NULL

\* lock_acquire and ioq_wait, when the lock is free; lock_acquire blocks when not.
\* The lock is held while its holder waits.
ioq_wait(t, Wait) ==
    \/ /\ holder = NULL
       /\ holder' = t
       /\ state' = [state EXCEPT ![t] = "wait"]
       /\ Wait
    \/ /\ holder # NULL
       /\ state' = [state EXCEPT ![t] = "lock"]
       /\ UNCHANGED << consumer, producer, holder >>

\* `if (ioq->consumer != 0) ioq_wakeup(ioq->consumer)', or the same for producer.
ioq_wakeup(waiter) ==
    /\ unlocked' = IF waiter = NULL THEN unlocked ELSE self_kernel_stack(waiter)
    /\ UNCHANGED << consumer, producer, holder, state >>

\* ioq_getchar: wait while the queue is empty, else take the next one.
ioq_getchar(t) ==
    /\ Alive /\ state[t] = "run"
    /\ \/ /\ ioqueue_is_empty
          /\ ioq_wait(t, consumer' = t /\ UNCHANGED producer)
          /\ UNCHANGED << ring, unlocked, taken >>
       \/ /\ ~ioqueue_is_empty
          /\ taken' = buf[tail]
          /\ tail' = next_pos(tail)
          /\ ioq_wakeup(producer)
          /\ UNCHANGED << buf, head >>

\* The second half of ioq_putchar: the character is stored.
put(byte) ==
    /\ buf' = [buf EXCEPT ![head] = byte]
    /\ head' = next_pos(head)
    /\ ioq_wakeup(consumer)
    /\ UNCHANGED << tail, taken >>

\* ioq_putchar by a thread: wait while the queue is full, else store.
ioq_putchar(t, byte) ==
    /\ Alive /\ state[t] = "run"
    /\ \/ /\ ioqueue_is_full
          /\ ioq_wait(t, producer' = t /\ UNCHANGED consumer)
          /\ UNCHANGED << ring, unlocked, taken >>
       \/ ~ioqueue_is_full /\ put(byte)

Next ==
    \/ \E t \in Readers : ioq_getchar(t)
    \/ \E t \in Writers, byte \in Chars : ioq_putchar(t, byte)

Spec == Init /\ [][Next]_vars

-----------------------------------------------------------------------------
(* Properties.                                                             *)

\* head and tail are positions, and the buffer holds characters.
RingOK ==
    /\ buf \in [Positions -> Chars \cup {NULL}]
    /\ head \in Positions
    /\ tail \in Positions

\* The characters between tail and head, oldest first.
Count == (head - tail) % BufSize
Contents == [i \in 1 .. Count |-> buf[(tail + i - 1) % BufSize]]

F == INSTANCE Fifo WITH Capacity <- BufSize - 1, q <- Contents

\* The ring buffer is a bounded first-in first-out queue: nothing is overwritten,
\* lost, repeated or reordered when head and tail wrap round, and it holds
\* buf_size - 1 characters.
ImplementsFifo == F!Spec

\* thread.c:180, ASSERT(status == TASK_BLOCKED || ...): thread_unlock is called
\* with a thread that is blocked.
UnlocksBlocked ==
    unlocked # NULL => unlocked \in {t \in Threads : state[t] # "run"}
=============================================================================
