-------------------------------- MODULE Sched --------------------------------
(***************************************************************************)
(* Threads, the scheduler and blocking locks on one CPU: thread/thread.c,  *)
(* thread/sync.c, the timer handler of device/timer.c, the interrupt flag  *)
(* of kernel/interrupt.c and process_activate of userprog/process.c.       *)
(*                                                                         *)
(* Only the thread `running' executes.  Code between intr_disable and the  *)
(* intr_set_status that ends it is one action, because nothing can come in *)
(* between, unless it calls schedule(): then the action ends with          *)
(* switch_to and the thread continues, interrupts still off, in a later    *)
(* action of its own.  Code that runs with interrupts on is split wherever *)
(* a timer interrupt between two of its accesses could matter.             *)
(*                                                                         *)
(* A thread's own program is any sequence of calls of the operations       *)
(* below; it releases only locks it holds (sync.c asserts it).             *)
(***************************************************************************)
EXTENDS List

CONSTANTS
    Threads,    \* every struct pcb_struct that may ever exist
    Main,       \* main_thread_pcb_ptr
    Idle,       \* idle_thread
    Procs,      \* the ones started by process_execute: they get a pgdir
    Locks,      \* struct lock objects: console_lock, pid_lock, pool locks ...
    NULL,
    Priority,   \* priority[t], the ticks of one time slice
    MaxRepeat   \* bound on holder_repeat_num (a uint32_t in the code)

ASSUME ThreadsAssumption ==
    /\ Main \in Threads /\ Idle \in Threads /\ Main # Idle
    /\ Procs \subseteq Threads \ {Main, Idle}

ASSUME NullAssumption == NULL \notin Threads /\ NULL \notin Locks

ASSUME BoundsAssumption ==
    /\ Priority \in [Threads -> 0 .. 255]
    /\ MaxRepeat \in Nat \ {0}

VARIABLES
    running,            \* running_thread(): whose kernel stack is in use
    intr,               \* EFLAGS.IF
    cr3,                \* page directory in use: a process's own, NULL = kernel's
    esp0,               \* tss.esp0: whose kernel stack a trap from ring 3 uses
    ready_thread_list,
    status,             \* pcb->status; "UNBORN" before thread_init
    ticks,              \* pcb->ticks
    pgdir,              \* pcb->pgdir, NULL for a kernel thread
    pc,                 \* where the thread is in its own control flow
    arg,                \* the lock an unfinished lock operation is about
    frame,              \* the timer interrupted it: an intr_stack is on its stack
    old_status,         \* old_status of sem_down / thread_yield / thread_lock
    caller_intr,        \* interrupt state its own program has asked for
    value,              \* plock->sem.value
    waiter,             \* plock->sem.waiter
    holder,             \* plock->holder
    holder_repeat_num

cpuVars == << running, intr, cr3, esp0 >>
schedVars == << ready_thread_list, status, ticks >>
pcVars == << pc, arg, frame, old_status, caller_intr >>
semVars == << value, waiter >>
lockVars == << holder, holder_repeat_num >>
vars == << cpuVars, schedVars, pgdir, pcVars, semVars, lockVars >>

\* After system_thread_init and sti in init_all: main runs, idle has been
\* started, every lock has been through lock_init.
Init ==
    /\ running = Main /\ intr = TRUE /\ cr3 = NULL /\ esp0 = NULL
    /\ ready_thread_list = << Idle >>
    /\ status = [t \in Threads |-> CASE t = Main -> "RUNNING"
                                     [] t = Idle -> "READY"
                                     [] OTHER -> "UNBORN"]
    /\ ticks = Priority
    /\ pgdir = [t \in Threads |-> NULL]
    /\ pc = [t \in Threads |-> IF t = Main THEN "run" ELSE "start"]
    /\ arg = [t \in Threads |-> NULL]
    /\ frame = [t \in Threads |-> FALSE]
    /\ old_status = [t \in Threads |-> FALSE]
    /\ caller_intr = [t \in Threads |-> TRUE]
    /\ value = [l \in Locks |-> 1]
    /\ waiter = [l \in Locks |-> << >>]
    /\ holder = [l \in Locks |-> NULL]
    /\ holder_repeat_num = [l \in Locks |-> 0]

(***************************************************************************)
(* schedule() and switch_to, entered with interrupts off.  rl and st are   *)
(* ready_thread_list and status as the caller has just left them.          *)
(***************************************************************************)

\* Mutant: nothing is loaded when the next thread is a kernel thread.
process_activate_lazy(next) ==
    IF pgdir[next] = NULL THEN UNCHANGED << cr3, esp0 >>
    ELSE cr3' = pgdir[next] /\ esp0' = next

\* process_activate(next): cr3 always follows next->pgdir, esp0 only when next
\* is a user process.
process_activate(next) ==
    /\ cr3' = pgdir[next]
    /\ esp0' = IF pgdir[next] # NULL THEN next ELSE esp0

\* next's kernel stack is the current one; interrupts stay off.
switch_to(next) == running' = next /\ intr' = FALSE

\* Mutant: an expired thread goes to the front of the queue.
schedule_front(rl, st) ==
    LET expired == st[running] = "RUNNING"
        rl1 == IF expired THEN list_push(rl, running) ELSE rl
        st1 == IF expired THEN [st EXCEPT ![running] = "READY"] ELSE st
        rl2 == IF list_empty(rl1) THEN list_push(rl1, Idle) ELSE rl1
        next == list_first(rl2)
    IN  /\ ready_thread_list' = list_pop(rl2)
        /\ status' = [st1 EXCEPT ![next] = "RUNNING"]
        /\ ticks' = IF expired
                    THEN [ticks EXCEPT ![running] = Priority[running]]
                    ELSE ticks
        /\ process_activate(next)
        /\ switch_to(next)

schedule(rl, st) ==
    LET expired == st[running] = "RUNNING"
        rl1 == IF expired THEN list_append(rl, running) ELSE rl
        st1 == IF expired THEN [st EXCEPT ![running] = "READY"] ELSE st
        rl2 == IF list_empty(rl1) THEN list_push(rl1, Idle) ELSE rl1
        next == list_first(rl2)
    IN  /\ ready_thread_list' = list_pop(rl2)
        /\ status' = [st1 EXCEPT ![next] = "RUNNING"]
        /\ ticks' = IF expired
                    THEN [ticks EXCEPT ![running] = Priority[running]]
                    ELSE ticks
        /\ process_activate(next)
        /\ switch_to(next)

-----------------------------------------------------------------------------
(* What an interrupt does to whatever is running.                          *)

\* Mutant: the slice is decremented before it is tested.
intr_timer_handler_early ==
    /\ intr
    /\ pc' = IF pc[running] = "hlt" THEN [pc EXCEPT ![running] = "loop"] ELSE pc
    /\ ticks' = [ticks EXCEPT ![running] = @ - 1]
    /\ UNCHANGED << cpuVars, ready_thread_list, status, frame, pgdir, arg,
                    old_status, caller_intr, semVars, lockVars >>

\* intr_timer_handler, entered through an interrupt gate; hlt ends when any
\* interrupt has been served.
intr_timer_handler ==
    /\ intr
    /\ pc' = IF pc[running] = "hlt" THEN [pc EXCEPT ![running] = "loop"] ELSE pc
    /\ \/ /\ ticks[running] = 0
          /\ schedule(ready_thread_list, status)
          /\ frame' = [frame EXCEPT ![running] = TRUE]
       \/ /\ ticks[running] # 0
          /\ ticks' = [ticks EXCEPT ![running] = @ - 1]
          /\ UNCHANGED << cpuVars, ready_thread_list, status, frame >>
    /\ UNCHANGED << pgdir, arg, old_status, caller_intr, semVars, lockVars >>

\* exit_intr: back from schedule() in the handler, iret restores IF = 1.
exit_intr(t) ==
    /\ running = t /\ frame[t]
    /\ frame' = [frame EXCEPT ![t] = FALSE]
    /\ intr' = TRUE
    /\ UNCHANGED << running, cr3, esp0, schedVars, pgdir, pc, arg, old_status,
                    caller_intr, semVars, lockVars >>

-----------------------------------------------------------------------------
(* Steps of a thread t that has the CPU outside interrupt handlers.        *)

At(t, label) == running = t /\ ~frame[t] /\ pc[t] = label

Goto(t, label) == pc' = [pc EXCEPT ![t] = label]

\* First instructions of a new thread; idle's function is its endless loop.
kernel_thread(t) ==
    /\ At(t, "start")
    /\ intr' = TRUE
    /\ Goto(t, IF t = Idle THEN "loop" ELSE "run")
    /\ UNCHANGED << running, cr3, esp0, schedVars, pgdir, arg, frame,
                    old_status, caller_intr, semVars, lockVars >>

\* thread_lock(TASK_BLOCKED) up to switch_to: only schedule() runs after the
\* status is set.
thread_lock(t) ==
    schedule(ready_thread_list, [status EXCEPT ![t] = "BLOCKED"])

\* The while loop of sem_down, interrupts off: sleep, or take the semaphore
\* and restore the caller's interrupt state.
sem_down_loop(t, l, saved) ==
    \/ /\ value[l] = 0
       /\ waiter' = [waiter EXCEPT ![l] = list_append(@, t)]
       /\ thread_lock(t)
       /\ Goto(t, "sleep")
       /\ UNCHANGED value
    \/ /\ value[l] # 0
       /\ value' = [value EXCEPT ![l] = @ - 1]
       /\ intr' = saved
       /\ Goto(t, "own")
       /\ UNCHANGED << running, cr3, esp0, schedVars, waiter >>

\* Mutant: interrupts are switched on at the end, whatever they were before.
sem_down_enable(t) ==
    /\ At(t, "down")
    /\ old_status' = [old_status EXCEPT ![t] = TRUE]
    /\ sem_down_loop(t, arg[t], TRUE)
    /\ UNCHANGED << pgdir, arg, frame, caller_intr, lockVars >>

sem_down(t) ==
    /\ At(t, "down")
    /\ old_status' = [old_status EXCEPT ![t] = intr]
    /\ sem_down_loop(t, arg[t], intr)
    /\ UNCHANGED << pgdir, arg, frame, caller_intr, lockVars >>

\* Mutant: `if' instead of `while': the woken thread does not test again.
sem_down_again_if(t) ==
    /\ At(t, "sleep")
    /\ value' = [value EXCEPT ![arg[t]] = 0]
    /\ intr' = old_status[t]
    /\ Goto(t, "own")
    /\ UNCHANGED << running, cr3, esp0, schedVars, waiter, pgdir, arg, frame,
                    old_status, caller_intr, lockVars >>

\* Back from thread_lock inside sem_down: test the value again.
sem_down_again(t) ==
    /\ At(t, "sleep")
    /\ sem_down_loop(t, arg[t], old_status[t])
    /\ UNCHANGED << pgdir, arg, frame, old_status, caller_intr, lockVars >>

\* thread_unlock(popthread), inside sem_up.
thread_unlock(t) ==
    /\ status' = [status EXCEPT ![t] = "READY"]
    /\ ready_thread_list' = list_push(ready_thread_list, t)

\* Mutant: the value goes up and nobody is woken.
sem_up_silent(t) ==
    /\ At(t, "up")
    /\ value' = [value EXCEPT ![arg[t]] = @ + 1]
    /\ Goto(t, "run")
    /\ arg' = [arg EXCEPT ![t] = NULL]
    /\ UNCHANGED << cpuVars, schedVars, pgdir, frame, old_status, caller_intr,
                    waiter, lockVars >>

sem_up(t) ==
    LET l == arg[t]
    IN  /\ At(t, "up")
        /\ \/ /\ ~list_empty(waiter[l])
              /\ thread_unlock(list_first(waiter[l]))
              /\ waiter' = [waiter EXCEPT ![l] = list_pop(@)]
           \/ /\ list_empty(waiter[l])
              /\ UNCHANGED << status, ready_thread_list, waiter >>
        /\ value' = [value EXCEPT ![l] = @ + 1]
        /\ Goto(t, "run")
        /\ arg' = [arg EXCEPT ![t] = NULL]
        /\ UNCHANGED << cpuVars, ticks, pgdir, frame, old_status, caller_intr,
                        lockVars >>

\* lock_acquire: the holder is read with interrupts as the caller left them.
lock_acquire(t, l) ==
    /\ At(t, "run")
    /\ \/ /\ holder[l] # t
          /\ Goto(t, "down")
          /\ arg' = [arg EXCEPT ![t] = l]
          /\ UNCHANGED holder_repeat_num
       \/ /\ holder[l] = t
          /\ holder_repeat_num[l] < MaxRepeat
          /\ holder_repeat_num' = [holder_repeat_num EXCEPT ![l] = @ + 1]
          /\ UNCHANGED << pc, arg >>
    /\ UNCHANGED << cpuVars, schedVars, pgdir, frame, old_status, caller_intr,
                    semVars, holder >>

\* The rest of lock_acquire, after sem_down has returned.
lock_acquired(t) ==
    LET l == arg[t]
    IN  /\ At(t, "own")
        /\ holder' = [holder EXCEPT ![l] = t]
        /\ holder_repeat_num' = [holder_repeat_num EXCEPT ![l] = 1]
        /\ Goto(t, "run")
        /\ arg' = [arg EXCEPT ![t] = NULL]
        /\ UNCHANGED << cpuVars, schedVars, pgdir, frame, old_status,
                        caller_intr, semVars >>

\* Mutant: no early return for a nested release.
lock_release_flat(t, l) ==
    /\ At(t, "run")
    /\ holder[l] = t
    /\ holder' = [holder EXCEPT ![l] = NULL]
    /\ holder_repeat_num' = [holder_repeat_num EXCEPT ![l] = 0]
    /\ Goto(t, "up")
    /\ arg' = [arg EXCEPT ![t] = l]
    /\ UNCHANGED << cpuVars, schedVars, pgdir, frame, old_status, caller_intr,
                    semVars >>

\* lock_release up to its call of sem_up.
lock_release(t, l) ==
    /\ At(t, "run")
    /\ holder[l] = t
    /\ \/ /\ holder_repeat_num[l] > 1
          /\ holder_repeat_num' = [holder_repeat_num EXCEPT ![l] = @ - 1]
          /\ UNCHANGED << holder, pc, arg >>
       \/ /\ holder_repeat_num[l] <= 1
          /\ holder' = [holder EXCEPT ![l] = NULL]
          /\ holder_repeat_num' = [holder_repeat_num EXCEPT ![l] = 0]
          /\ Goto(t, "up")
          /\ arg' = [arg EXCEPT ![t] = l]
    /\ UNCHANGED << cpuVars, schedVars, pgdir, frame, old_status, caller_intr,
                    semVars >>

\* Mutant: the status stays RUNNING, so schedule() links the thread again.
thread_yield_running(t) ==
    /\ At(t, "run")
    /\ old_status' = [old_status EXCEPT ![t] = intr]
    /\ schedule(list_append(ready_thread_list, t), status)
    /\ Goto(t, "yield")
    /\ UNCHANGED << pgdir, arg, frame, caller_intr, semVars, lockVars >>

\* thread_yield: the slice is not refilled, the thread goes to the back.
thread_yield(t) ==
    /\ At(t, "run")
    /\ old_status' = [old_status EXCEPT ![t] = intr]
    /\ schedule(list_append(ready_thread_list, t),
                [status EXCEPT ![t] = "READY"])
    /\ Goto(t, "yield")
    /\ UNCHANGED << pgdir, arg, frame, caller_intr, semVars, lockVars >>

\* Back from schedule() in thread_yield: intr_set_status(old_status).
thread_yield_return(t) ==
    /\ At(t, "yield")
    /\ intr' = old_status[t]
    /\ Goto(t, "run")
    /\ UNCHANGED << running, cr3, esp0, schedVars, pgdir, arg, frame,
                    old_status, caller_intr, semVars, lockVars >>

\* thread_init: u gets its first slice, the pgdir dir its creator gives it, and
\* is linked at the back.  The pid and the pages it needs are the business of
\* other modules.
thread_init(t, u, dir) ==
    /\ At(t, "run")
    /\ status[u] = "UNBORN"
    /\ status' = [status EXCEPT ![u] = "READY"]
    /\ ticks' = [ticks EXCEPT ![u] = Priority[u]]
    /\ pgdir' = [pgdir EXCEPT ![u] = dir]
    /\ ready_thread_list' = list_append(ready_thread_list, u)
    /\ UNCHANGED << cpuVars, pcVars, semVars, lockVars >>

\* A kernel thread shares the kernel's page directory.
thread_start(t, u) == u \notin Procs /\ thread_init(t, u, NULL)

\* A user process gets one of its own, from create_page_dir.
process_execute(t, u) == u \in Procs /\ thread_init(t, u, u)

\* The thread's own intr_disable / cli, or int 0x80 (an interrupt gate).
intr_disable(t) ==
    /\ At(t, "run") /\ intr
    /\ intr' = FALSE
    /\ caller_intr' = [caller_intr EXCEPT ![t] = FALSE]
    /\ UNCHANGED << running, cr3, esp0, schedVars, pgdir, pc, arg, frame,
                    old_status, semVars, lockVars >>

\* The intr_set_status(INTR_ON), sti or iret that ends it.
intr_enable(t) ==
    /\ At(t, "run") /\ ~intr
    /\ intr' = TRUE
    /\ caller_intr' = [caller_intr EXCEPT ![t] = TRUE]
    /\ UNCHANGED << running, cr3, esp0, schedVars, pgdir, pc, arg, frame,
                    old_status, semVars, lockVars >>

-----------------------------------------------------------------------------
(* idle: thread_lock(TASK_BLOCKED); sti; hlt, for ever.                    *)

idle_block ==
    /\ At(Idle, "loop")
    /\ old_status' = [old_status EXCEPT ![Idle] = intr]
    /\ thread_lock(Idle)
    /\ Goto(Idle, "blocked")
    /\ UNCHANGED << pgdir, arg, frame, caller_intr, semVars, lockVars >>

\* Back from schedule(): intr_set_status(old_status) at the end of thread_lock.
idle_unlocked ==
    /\ At(Idle, "blocked")
    /\ intr' = old_status[Idle]
    /\ Goto(Idle, "wake")
    /\ UNCHANGED << running, cr3, esp0, schedVars, pgdir, arg, frame,
                    old_status, caller_intr, semVars, lockVars >>

\* sti; hlt: the CPU stops until the next interrupt.
idle_hlt ==
    /\ At(Idle, "wake")
    /\ intr' = TRUE
    /\ Goto(Idle, "hlt")
    /\ UNCHANGED << running, cr3, esp0, schedVars, pgdir, arg, frame,
                    old_status, caller_intr, semVars, lockVars >>

-----------------------------------------------------------------------------
\* What a thread does when it gets the CPU back, interrupts still off.
Resume(t) ==
    \/ exit_intr(t) \/ kernel_thread(t) \/ sem_down_again(t)
    \/ thread_yield_return(t)

\* The next step of a lock operation in progress; a timer interrupt may come
\* first.
Step(t) == sem_down(t) \/ sem_up(t) \/ lock_acquired(t)

\* A step its own program chooses.
Call(t) ==
    \/ \E l \in Locks : lock_acquire(t, l) \/ lock_release(t, l)
    \/ thread_yield(t)
    \/ \E u \in Threads : thread_start(t, u) \/ process_execute(t, u)
    \/ intr_disable(t) \/ intr_enable(t)

Next ==
    \/ intr_timer_handler
    \/ \E t \in Threads : Resume(t) \/ Step(t) \/ Call(t)
    \/ idle_block \/ idle_unlocked \/ idle_hlt

Spec == Init /\ [][Next]_vars

(***************************************************************************)
(* Fairness.  The PIC keeps a timer interrupt pending until IF is set, so  *)
(* the handler runs again and again unless interrupts stay off; a thread   *)
(* that gets the CPU again and again executes its next kernel step; a      *)
(* section with interrupts off and a locked section are finite code.       *)
(***************************************************************************)
last_release(t, l) == holder_repeat_num[l] = 1 /\ lock_release(t, l)

Fairness ==
    /\ SF_vars(intr_timer_handler)
    /\ \A t \in Threads : WF_vars(Resume(t))
    /\ \A t \in Threads \ {Idle} : SF_vars(Step(t)) /\ SF_vars(intr_enable(t))
    /\ \A t \in Threads \ {Idle}, l \in Locks :
        SF_vars(lock_release(t, l)) /\ SF_vars(last_release(t, l))
    /\ SF_vars(idle_block) /\ WF_vars(idle_unlocked)

FairSpec == Spec /\ Fairness

-----------------------------------------------------------------------------
(* Properties.                                                             *)

Labels == {"start", "run", "down", "sleep", "own", "up", "yield",
           "loop", "blocked", "wake", "hlt"}

\* The labels at which a thread that is not running can only be because it
\* called schedule() there (or has not run yet).
SwitchedOut == {"start", "sleep", "yield", "blocked"}

\* Types of all the variables.
TypeOK ==
    /\ running \in Threads
    /\ intr \in BOOLEAN
    /\ cr3 \in Threads \cup {NULL}
    /\ esp0 \in Threads \cup {NULL}
    /\ ready_thread_list \in Seq(Threads)
    /\ status \in [Threads -> {"UNBORN", "RUNNING", "READY", "BLOCKED"}]
    /\ ticks \in [Threads -> 0 .. 255]
    /\ pgdir \in [Threads -> Threads \cup {NULL}]
    /\ pc \in [Threads -> Labels]
    /\ arg \in [Threads -> Locks \cup {NULL}]
    /\ frame \in [Threads -> BOOLEAN]
    /\ old_status \in [Threads -> BOOLEAN]
    /\ caller_intr \in [Threads -> BOOLEAN]
    /\ value \in [Locks -> {0, 1}]
    /\ waiter \in [Locks -> Seq(Threads)]
    /\ holder \in [Locks -> Threads \cup {NULL}]
    /\ holder_repeat_num \in [Locks -> 0 .. MaxRepeat]

\* general_tag is one pair of pointers: a pcb is linked into at most one of
\* ready_thread_list and the waiter lists, at most once, and status says into
\* which; only the running thread is in none (or idle, asleep in its loop).
\* This is what the elem_find assertions of schedule, thread_unlock,
\* thread_yield, thread_start and sem_down, and the status assertions of
\* thread_unlock (idle's wake-up in schedule included), ask for.
OneList ==
    /\ NoDup(ready_thread_list)
    /\ \A l \in Locks : NoDup(waiter[l])
    /\ \A t \in Threads :
        /\ status[t] = "RUNNING" <=> t = running
        /\ status[t] = "READY" <=> elem_find(ready_thread_list, t)
        /\ \A l \in Locks :
            elem_find(waiter[l], t) <=>
                status[t] = "BLOCKED" /\ t # Idle /\ arg[t] = l
        /\ status[t] = "BLOCKED" => pc[t] = IF t = Idle THEN "blocked" ELSE "sleep"

\* t is past sem_down in lock_acquire(l) and not yet past sem_up in the last
\* lock_release(l).
Owns(t, l) ==
    \/ holder[l] = t
    \/ pc[t] \in {"own", "up"} /\ arg[t] = l

\* A lock has at most one owner, and its semaphore is down exactly while it has
\* one: the assertions of sem_up on entry (value = 0), of sem_down on exit
\* (value = 0) and of lock_acquire (holder_repeat_num = 0 once the semaphore
\* is taken), at every interleaving of acquire, release and preemption.
MutualExclusion ==
    \A l \in Locks :
        /\ \A t, u \in Threads : Owns(t, l) /\ Owns(u, l) => t = u
        /\ value[l] = 0 <=> \E t \in Threads : Owns(t, l)
        /\ holder[l] = NULL <=> holder_repeat_num[l] = 0
        /\ \A t \in Threads :
            pc[t] \in {"own", "up"} /\ arg[t] = l => holder[l] = NULL

\* sem_up wakes one waiter and raises the value without handing it over, so the
\* value can be taken by another thread first.  Still no wake-up is lost: while
\* the semaphore is up and threads sleep on it, some thread it woke has yet to
\* test the value.
NoLostWakeup ==
    \A l \in Locks :
        value[l] = 1 /\ ~list_empty(waiter[l]) =>
            \E t \in Threads :
                /\ pc[t] = "sleep" /\ arg[t] = l
                /\ status[t] \in {"READY", "RUNNING"}

\* IF is one bit of the CPU, saved in one thread's old_status while others run,
\* preempt, block and yield with theirs.  Whenever a thread is back in its own
\* code, or between two steps of a lock operation, the flag is what that thread
\* asked for: no switch leaks one thread's interrupt state into another.
IntrPreserved ==
    ~frame[running] /\ pc[running] \notin SwitchedOut =>
        intr = caller_intr[running]

\* The address space and the kernel stack for traps from ring 3 are those of the
\* running process; while a kernel thread runs, its kernel page directory is
\* loaded and esp0 still names the process that ran last.
AddressSpace ==
    /\ cr3 = pgdir[running]
    /\ pgdir[running] # NULL => esp0 = running

\* thread_unlock puts a woken thread at the FRONT of ready_thread_list.  Even so
\* no ready thread is passed over for ever: a thread keeps its remaining ticks
\* when it sleeps, so it goes to the back once they are used up.
ReadyRuns == \A t \in Threads : status[t] = "READY" ~> running = t

\* Every thread asleep in sem_down is woken some day, though others may take the
\* lock first and it may go back to the end of the queue.
WaiterWoken ==
    \A t \in Threads \ {Idle}, l \in Locks :
        elem_find(waiter[l], t) ~> ~elem_find(waiter[l], t)

\* What a lock promises its users, and the proof obligation that sync.c on top
\* of the scheduler keeps the promise.
Mutex == INSTANCE Mutex WITH depth <- holder_repeat_num

ImplementsMutex == Mutex!Spec

-----------------------------------------------------------------------------
(* The inductive invariant behind the invariants above.                    *)

\* Every thread off the CPU left it through schedule() (or has yet to start),
\* interrupts are off until it has resumed, and what it will restore when it
\* does is what it had: iret and kernel_thread set IF, the others old_status.
SwitchOK ==
    /\ intr => ~frame[running] /\ pc[running] \notin SwitchedOut
    /\ \A t \in Threads :
        /\ t # running => frame[t] \/ pc[t] \in SwitchedOut
        /\ frame[t] => pc[t] \notin SwitchedOut /\ caller_intr[t]
        /\ pc[t] \in {"sleep", "yield", "blocked"} =>
                old_status[t] = caller_intr[t]
        /\ pc[t] = "start" => caller_intr[t]

\* arg names a lock exactly inside a lock operation, and only idle runs idle().
PcOK ==
    /\ \A t \in Threads : arg[t] # NULL <=> pc[t] \in {"down", "sleep", "own", "up"}
    /\ \A t \in Threads \ {Idle} : pc[t] \notin {"loop", "blocked", "wake", "hlt"}
    /\ pc[Idle] \in {"start", "loop", "blocked", "wake", "hlt"}
    /\ caller_intr[Idle]

IInv ==
    /\ TypeOK /\ OneList /\ MutualExclusion /\ NoLostWakeup
    /\ IntrPreserved /\ AddressSpace /\ SwitchOK /\ PcOK
=============================================================================
