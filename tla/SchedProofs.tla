----------------------------- MODULE SchedProofs -----------------------------
(***************************************************************************)
(* Proofs about Sched for every set of threads and locks.                  *)
(***************************************************************************)
EXTENDS Sched, LibProofs

-----------------------------------------------------------------------------
(* What schedule() does, given a queue and statuses that agree.            *)

Status == {"UNBORN", "RUNNING", "READY", "BLOCKED"}

\* rl and st agree: every ready thread is linked, once, and only the running
\* thread can be RUNNING.
Agree(rl, st) ==
    /\ rl \in Seq(Threads) /\ NoDup(rl)
    /\ st \in [Threads -> Status]
    /\ \A t \in Threads : st[t] = "READY" <=> elem_find(rl, t)
    /\ \A t \in Threads : st[t] = "RUNNING" => t = running

\* Afterwards they agree again, and the next thread was ready or is idle.
Scheduled(st) ==
    /\ running' \in Threads /\ ~intr' /\ intr' \in BOOLEAN
    /\ running' = Idle \/ st[running'] \in {"READY", "RUNNING"}
    /\ ready_thread_list' \in Seq(Threads) /\ NoDup(ready_thread_list')
    /\ status' \in [Threads -> Status]
    /\ ticks' \in [Threads -> 0 .. 255]
    /\ cr3' = pgdir[running']
    /\ pgdir[running'] # NULL => esp0' = running'
    /\ esp0' \in Threads \cup {NULL}
    /\ \A t \in Threads :
        /\ status'[t] = "RUNNING" <=> t = running'
        /\ status'[t] = "READY" <=> elem_find(ready_thread_list', t)
        /\ status'[t] = "BLOCKED" <=> st[t] = "BLOCKED" /\ t # running'
        /\ status'[t] = "UNBORN" => st[t] = "UNBORN"

\* schedule() keeps queue and statuses in agreement, expired thread, empty queue
\* and idle's wake-up included.
LEMMA ScheduleLemma ==
    ASSUME TypeOK, NEW rl, NEW st, Agree(rl, st), schedule(rl, st)
    PROVE  Scheduled(st)
<1> USE ThreadsAssumption, NullAssumption, BoundsAssumption
<1> DEFINE expired == st[running] = "RUNNING"
           rl1 == IF expired THEN list_append(rl, running) ELSE rl
           st1 == IF expired THEN [st EXCEPT ![running] = "READY"] ELSE st
           rl2 == IF list_empty(rl1) THEN list_push(rl1, Idle) ELSE rl1
           next == list_first(rl2)
<1>1. /\ ready_thread_list' = list_pop(rl2)
      /\ status' = [st1 EXCEPT ![next] = "RUNNING"]
      /\ ticks' = IF expired
                  THEN [ticks EXCEPT ![running] = Priority[running]]
                  ELSE ticks
      /\ cr3' = pgdir[next]
      /\ esp0' = IF pgdir[next] # NULL THEN next ELSE esp0
      /\ running' = next
      /\ intr' = FALSE
  BY DEF schedule, process_activate, switch_to
<1>2. running \in Threads /\ Idle \in Threads
  BY DEF TypeOK
<1>3. /\ rl1 \in Seq(Threads) /\ NoDup(rl1)
      /\ st1 \in [Threads -> Status]
      /\ \A t \in Threads : st1[t] = "READY" <=> elem_find(rl1, t)
      /\ \A t \in Threads : st1[t] # "RUNNING"
      /\ \A t \in Threads : st1[t] = "BLOCKED" <=> st[t] = "BLOCKED"
      /\ \A t \in Threads : st1[t] = "UNBORN" <=> st[t] = "UNBORN"
      /\ \A t \in Threads : st1[t] = "READY" => st[t] \in {"READY", "RUNNING"}
  <2>1. CASE expired
    <3>1. ~elem_find(rl, running)
      BY <2>1, <1>2 DEF Agree
    <3>2. /\ rl1 \in Seq(Threads) /\ NoDup(rl1)
          /\ \A x : elem_find(rl1, x) <=> elem_find(rl, x) \/ x = running
      BY <2>1, <3>1, <1>2, AppendLemma DEF Agree
    <3> QED BY <2>1, <3>2, <1>2 DEF Agree, Status
  <2>2. CASE ~expired
    BY <2>2, <1>2 DEF Agree, Status
  <2> QED BY <2>1, <2>2
<1> HIDE DEF rl1, st1
<1>4. /\ rl2 \in Seq(Threads) /\ NoDup(rl2) /\ rl2 # << >>
      /\ \A x : elem_find(rl2, x) <=>
                elem_find(rl1, x) \/ (list_empty(rl1) /\ x = Idle)
  <2>1. CASE list_empty(rl1)
    <3>1. \A x : ~elem_find(rl1, x)
      BY <2>1 DEF list_empty, elem_find
    <3> QED BY <2>1, <3>1, <1>2, <1>3, PushLemma
  <2>2. CASE ~list_empty(rl1)
    BY <2>2, <1>3 DEF list_empty
  <2> QED BY <2>1, <2>2
<1> HIDE DEF rl2
<1>5. /\ next \in Threads /\ elem_find(rl2, next)
      /\ list_pop(rl2) \in Seq(Threads) /\ NoDup(list_pop(rl2))
      /\ \A x : elem_find(list_pop(rl2), x) <=> elem_find(rl2, x) /\ x # next
  BY <1>4, PopLemma
<1> HIDE DEF next
<1>6. \A t \in Threads : list_empty(rl1) => ~elem_find(rl1, t)
  BY DEF list_empty, elem_find
<1>7. next = Idle \/ st[next] \in {"READY", "RUNNING"}
  BY <1>3, <1>4, <1>5
<1>8. status' \in [Threads -> Status]
  BY <1>1, <1>3, <1>5 DEF Status
<1>9. ticks' \in [Threads -> 0 .. 255]
  BY <1>1, <1>2 DEF TypeOK
<1>10. \A t \in Threads :
        /\ status'[t] = "RUNNING" <=> t = next
        /\ status'[t] = "READY" <=> elem_find(list_pop(rl2), t)
        /\ status'[t] = "BLOCKED" <=> st[t] = "BLOCKED" /\ t # next
        /\ status'[t] = "UNBORN" => st[t] = "UNBORN"
  BY <1>1, <1>3, <1>4, <1>5, <1>6 DEF Status
<1>11. esp0' \in Threads \cup {NULL} /\ (pgdir[next] # NULL => esp0' = next)
  BY <1>1, <1>5 DEF TypeOK
<1> QED BY <1>1, <1>5, <1>7, <1>8, <1>9, <1>10, <1>11 DEF Scheduled

-----------------------------------------------------------------------------
(* Every action preserves the invariant.                                   *)

\* Ownership depends on holder, and on pc and arg at two labels only.
LEMMA MutexStable ==
    ASSUME MutualExclusion, UNCHANGED << value, lockVars >>,
           \A t \in Threads :
               \/ pc'[t] = pc[t] /\ arg'[t] = arg[t]
               \/ pc[t] \notin {"own", "up"} /\ pc'[t] \notin {"own", "up"}
    PROVE  MutualExclusion'
<1>1. \A t \in Threads, l \in Locks :
        (pc'[t] \in {"own", "up"} /\ arg'[t] = l) <=> (pc[t] \in {"own", "up"} /\ arg[t] = l)
  OBVIOUS
<1>2. \A t \in Threads, l \in Locks : Owns(t, l)' <=> Owns(t, l)
  BY <1>1 DEF Owns, lockVars
<1> QED BY <1>1, <1>2 DEF MutualExclusion, lockVars

\* exit_intr: the interrupted thread goes on with IF set.
LEMMA exit_intr_IInv ==
    ASSUME IInv, NEW t \in Threads, exit_intr(t)
    PROVE  IInv'
<1> USE ThreadsAssumption, NullAssumption, BoundsAssumption DEF IInv, exit_intr,
        At, Goto, cpuVars, schedVars, pcVars, semVars, lockVars
<1>1. TypeOK' BY DEF TypeOK, Labels
<1>2. OneList' BY DEF TypeOK, Labels, OneList, PcOK, SwitchOK
<1>3. MutualExclusion' BY MutexStable DEF TypeOK
<1>4. NoLostWakeup' BY DEF TypeOK, NoLostWakeup, PcOK, OneList
<1>5. IntrPreserved' BY DEF TypeOK, IntrPreserved, SwitchOK, SwitchedOut, PcOK
<1>6. AddressSpace' BY DEF TypeOK, AddressSpace, OneList
<1>7. SwitchOK' BY DEF TypeOK, SwitchOK, SwitchedOut, IntrPreserved, PcOK, OneList
<1>8. PcOK' BY DEF TypeOK, PcOK
<1> QED BY <1>1, <1>2, <1>3, <1>4, <1>5, <1>6, <1>7, <1>8

\* kernel_thread: a new thread starts.
LEMMA kernel_thread_IInv ==
    ASSUME IInv, NEW t \in Threads, kernel_thread(t)
    PROVE  IInv'
<1> USE ThreadsAssumption, NullAssumption, BoundsAssumption DEF IInv, kernel_thread,
        At, Goto, cpuVars, schedVars, pcVars, semVars, lockVars
<1>1. TypeOK' BY DEF TypeOK, Labels
<1>2. OneList' BY DEF TypeOK, Labels, OneList, PcOK, SwitchOK
<1>3. MutualExclusion' BY MutexStable DEF TypeOK
<1>4. NoLostWakeup' BY DEF TypeOK, NoLostWakeup, PcOK, OneList
<1>5. IntrPreserved' BY DEF TypeOK, IntrPreserved, SwitchOK, SwitchedOut, PcOK
<1>6. AddressSpace' BY DEF TypeOK, AddressSpace, OneList
<1>7. SwitchOK' BY DEF TypeOK, SwitchOK, SwitchedOut, IntrPreserved, PcOK, OneList
<1>8. PcOK' BY DEF TypeOK, PcOK
<1> QED BY <1>1, <1>2, <1>3, <1>4, <1>5, <1>6, <1>7, <1>8

\* the end of lock_acquire: the holder is set.
LEMMA lock_acquired_IInv ==
    ASSUME IInv, NEW t \in Threads, lock_acquired(t)
    PROVE  IInv'
<1> USE ThreadsAssumption, NullAssumption, BoundsAssumption DEF IInv, lock_acquired,
        At, Goto, cpuVars, schedVars, pcVars, semVars, lockVars
<1> DEFINE l == arg[t]
<1>0. l \in Locks
  BY DEF TypeOK, PcOK
<1>1. TypeOK'
  <2>1. holder' \in [Locks -> Threads \cup {NULL}] BY DEF TypeOK
  <2>2. holder_repeat_num' \in [Locks -> 0 .. MaxRepeat]
    <3>1. 1 \in 0 .. MaxRepeat OBVIOUS
    <3> QED BY <3>1, <1>0 DEF TypeOK
  <2> QED BY <2>1, <2>2 DEF TypeOK, Labels
<1>2. OneList' BY DEF TypeOK, Labels, OneList, PcOK, SwitchOK
<1>3. MutualExclusion'
  <2>1. \A k \in Locks : holder'[k] = (IF k = l THEN t ELSE holder[k])
                      /\ holder_repeat_num'[k] = (IF k = l THEN 1 ELSE holder_repeat_num[k])
    BY DEF TypeOK
  <2>2. \A u \in Threads : pc'[u] = (IF u = t THEN "run" ELSE pc[u])
                        /\ arg'[u] = (IF u = t THEN NULL ELSE arg[u])
    BY DEF TypeOK
  <2>3. /\ Owns(t, l) /\ holder[l] = NULL
        /\ \A u \in Threads : Owns(u, l) => u = t
        /\ value[l] = 0
    BY <1>0 DEF MutualExclusion, Owns
  <2>4. \A u \in Threads, k \in Locks : Owns(u, k)' <=> Owns(u, k)
    BY <2>1, <2>2, <2>3, <1>0 DEF Owns
  <2> QED BY <2>1, <2>2, <2>3, <2>4, <1>0 DEF MutualExclusion, Owns
<1>4. NoLostWakeup' BY DEF TypeOK, NoLostWakeup, PcOK, OneList
<1>5. IntrPreserved' BY DEF TypeOK, IntrPreserved, SwitchOK, SwitchedOut, PcOK
<1>6. AddressSpace' BY DEF TypeOK, AddressSpace, OneList
<1>7. SwitchOK' BY DEF TypeOK, SwitchOK, SwitchedOut, IntrPreserved, PcOK, OneList
<1>8. PcOK' BY DEF TypeOK, PcOK
<1> QED BY <1>1, <1>2, <1>3, <1>4, <1>5, <1>6, <1>7, <1>8

\* the end of thread_yield.
LEMMA thread_yield_return_IInv ==
    ASSUME IInv, NEW t \in Threads, thread_yield_return(t)
    PROVE  IInv'
<1> USE ThreadsAssumption, NullAssumption, BoundsAssumption DEF IInv, thread_yield_return,
        At, Goto, cpuVars, schedVars, pcVars, semVars, lockVars
<1>1. TypeOK' BY DEF TypeOK, Labels
<1>2. OneList' BY DEF TypeOK, Labels, OneList, PcOK, SwitchOK
<1>3. MutualExclusion' BY MutexStable DEF TypeOK
<1>4. NoLostWakeup' BY DEF TypeOK, NoLostWakeup, PcOK, OneList
<1>5. IntrPreserved' BY DEF TypeOK, IntrPreserved, SwitchOK, SwitchedOut, PcOK
<1>6. AddressSpace' BY DEF TypeOK, AddressSpace, OneList
<1>7. SwitchOK' BY DEF TypeOK, SwitchOK, SwitchedOut, IntrPreserved, PcOK, OneList
<1>8. PcOK' BY DEF TypeOK, PcOK
<1> QED BY <1>1, <1>2, <1>3, <1>4, <1>5, <1>6, <1>7, <1>8

\* intr_disable by the thread's own program.
LEMMA intr_disable_IInv ==
    ASSUME IInv, NEW t \in Threads, intr_disable(t)
    PROVE  IInv'
<1> USE ThreadsAssumption, NullAssumption, BoundsAssumption DEF IInv, intr_disable,
        At, Goto, cpuVars, schedVars, pcVars, semVars, lockVars
<1>1. TypeOK' BY DEF TypeOK, Labels
<1>2. OneList' BY DEF TypeOK, Labels, OneList, PcOK, SwitchOK
<1>3. MutualExclusion' BY MutexStable DEF TypeOK
<1>4. NoLostWakeup' BY DEF TypeOK, NoLostWakeup, PcOK, OneList
<1>5. IntrPreserved' BY DEF TypeOK, IntrPreserved, SwitchOK, SwitchedOut, PcOK
<1>6. AddressSpace' BY DEF TypeOK, AddressSpace, OneList
<1>7. SwitchOK'
  <2>1. \A u \in Threads : u # t => caller_intr'[u] = caller_intr[u]
    BY DEF TypeOK
  <2>2. pc[t] = "run" /\ ~frame[t]
    OBVIOUS
  <2> QED BY <2>1, <2>2 DEF SwitchOK, SwitchedOut
<1>8. PcOK' BY DEF TypeOK, PcOK
<1> QED BY <1>1, <1>2, <1>3, <1>4, <1>5, <1>6, <1>7, <1>8

\* intr_enable by the thread's own program.
LEMMA intr_enable_IInv ==
    ASSUME IInv, NEW t \in Threads, intr_enable(t)
    PROVE  IInv'
<1> USE ThreadsAssumption, NullAssumption, BoundsAssumption DEF IInv, intr_enable,
        At, Goto, cpuVars, schedVars, pcVars, semVars, lockVars
<1>1. TypeOK' BY DEF TypeOK, Labels
<1>2. OneList' BY DEF TypeOK, Labels, OneList, PcOK, SwitchOK
<1>3. MutualExclusion' BY MutexStable DEF TypeOK
<1>4. NoLostWakeup' BY DEF TypeOK, NoLostWakeup, PcOK, OneList
<1>5. IntrPreserved' BY DEF TypeOK, IntrPreserved, SwitchOK, SwitchedOut, PcOK
<1>6. AddressSpace' BY DEF TypeOK, AddressSpace, OneList
<1>7. SwitchOK'
  <2>1. /\ \A u \in Threads : u # t => caller_intr'[u] = caller_intr[u]
        /\ caller_intr'[t]
    BY DEF TypeOK
  <2>2. pc[t] = "run" /\ ~frame[t] /\ t = running
    OBVIOUS
  <2> QED BY <2>1, <2>2 DEF SwitchOK, SwitchedOut
<1>8. PcOK' BY DEF TypeOK, PcOK
<1> QED BY <1>1, <1>2, <1>3, <1>4, <1>5, <1>6, <1>7, <1>8

\* idle's return from thread_lock.
LEMMA idle_unlocked_IInv ==
    ASSUME IInv, idle_unlocked
    PROVE  IInv'
<1> USE ThreadsAssumption, NullAssumption, BoundsAssumption DEF IInv, idle_unlocked,
        At, Goto, cpuVars, schedVars, pcVars, semVars, lockVars
<1>1. TypeOK' BY DEF TypeOK, Labels
<1>2. OneList' BY DEF TypeOK, Labels, OneList, PcOK, SwitchOK
<1>3. MutualExclusion' BY MutexStable DEF TypeOK
<1>4. NoLostWakeup' BY DEF TypeOK, NoLostWakeup, PcOK, OneList
<1>5. IntrPreserved' BY DEF TypeOK, IntrPreserved, SwitchOK, SwitchedOut, PcOK
<1>6. AddressSpace' BY DEF TypeOK, AddressSpace, OneList
<1>7. SwitchOK' BY DEF TypeOK, SwitchOK, SwitchedOut, IntrPreserved, PcOK, OneList
<1>8. PcOK' BY DEF TypeOK, PcOK
<1> QED BY <1>1, <1>2, <1>3, <1>4, <1>5, <1>6, <1>7, <1>8

\* idle's hlt.
LEMMA idle_hlt_IInv ==
    ASSUME IInv, idle_hlt
    PROVE  IInv'
<1> USE ThreadsAssumption, NullAssumption, BoundsAssumption DEF IInv, idle_hlt,
        At, Goto, cpuVars, schedVars, pcVars, semVars, lockVars
<1>1. TypeOK' BY DEF TypeOK, Labels
<1>2. OneList' BY DEF TypeOK, Labels, OneList, PcOK, SwitchOK
<1>3. MutualExclusion' BY MutexStable DEF TypeOK
<1>4. NoLostWakeup' BY DEF TypeOK, NoLostWakeup, PcOK, OneList
<1>5. IntrPreserved' BY DEF TypeOK, IntrPreserved, SwitchOK, SwitchedOut, PcOK
<1>6. AddressSpace' BY DEF TypeOK, AddressSpace, OneList
<1>7. SwitchOK' BY DEF TypeOK, SwitchOK, SwitchedOut, IntrPreserved, PcOK, OneList
<1>8. PcOK' BY DEF TypeOK, PcOK
<1> QED BY <1>1, <1>2, <1>3, <1>4, <1>5, <1>6, <1>7, <1>8

\* lock_acquire up to sem_down, and the nested acquisition.
LEMMA lock_acquire_IInv ==
    ASSUME IInv, NEW t \in Threads, NEW l \in Locks, lock_acquire(t, l)
    PROVE  IInv'
<1> USE ThreadsAssumption, NullAssumption, BoundsAssumption DEF IInv, lock_acquire,
        At, Goto, cpuVars, schedVars, pcVars, semVars, lockVars
<1>0. \/ /\ pc' = [pc EXCEPT ![t] = "down"] /\ arg' = [arg EXCEPT ![t] = l]
         /\ UNCHANGED holder_repeat_num
      \/ /\ holder_repeat_num[l] < MaxRepeat /\ UNCHANGED << pc, arg >>
         /\ holder_repeat_num' = [holder_repeat_num EXCEPT ![l] = holder_repeat_num[l] + 1]
  OBVIOUS
<1>1. TypeOK'
  <2>1. holder_repeat_num[l] \in Nat
    BY DEF TypeOK
  <2>2. holder_repeat_num[l] < MaxRepeat => holder_repeat_num[l] + 1 \in 0 .. MaxRepeat
    BY <2>1
  <2>3. holder_repeat_num' \in [Locks -> 0 .. MaxRepeat]
    BY <1>0, <2>2 DEF TypeOK
  <2>4. pc' \in [Threads -> Labels] /\ arg' \in [Threads -> Locks \cup {NULL}]
    <3>1. CASE UNCHANGED << pc, arg >>
      BY <3>1 DEF TypeOK
    <3>2. CASE pc' = [pc EXCEPT ![t] = "down"] /\ arg' = [arg EXCEPT ![t] = l]
      BY <3>2 DEF TypeOK, Labels
    <3> QED BY <1>0, <3>1, <3>2
  <2> QED BY <2>3, <2>4 DEF TypeOK
<1>2. OneList' BY DEF TypeOK, Labels, OneList, PcOK, SwitchOK
<1>3. MutualExclusion'
  <2>1. CASE holder[l] # t
    BY <2>1, MutexStable DEF TypeOK
  <2>2. CASE holder[l] = t
    <3>1. \A u \in Threads, k \in Locks : Owns(u, k)' <=> Owns(u, k)
      BY <2>2 DEF Owns
    <3>2. \A k \in Locks : holder_repeat_num'[k] = 0 <=> holder_repeat_num[k] = 0
      <4>1. holder_repeat_num[l] \in 0 .. MaxRepeat /\ holder_repeat_num[l] # 0
        BY <2>2 DEF TypeOK, MutualExclusion
      <4>2. holder_repeat_num[l] + 1 # 0
        BY <4>1
      <4> QED BY <2>2, <4>1, <4>2 DEF TypeOK
    <3> QED BY <2>2, <3>1, <3>2 DEF MutualExclusion
  <2> QED BY <2>1, <2>2
<1>4. NoLostWakeup' BY DEF TypeOK, NoLostWakeup, PcOK, OneList
<1>5. IntrPreserved' BY DEF TypeOK, IntrPreserved, SwitchOK, SwitchedOut, PcOK
<1>6. AddressSpace' BY DEF TypeOK, AddressSpace, OneList
<1>7. SwitchOK' BY DEF TypeOK, SwitchOK, SwitchedOut, IntrPreserved, PcOK, OneList
<1>8. PcOK'
  <2>1. CASE UNCHANGED << pc, arg >>
    BY <2>1 DEF PcOK
  <2>2. CASE pc' = [pc EXCEPT ![t] = "down"] /\ arg' = [arg EXCEPT ![t] = l]
    BY <2>2 DEF TypeOK, PcOK
  <2> QED BY <1>0, <2>1, <2>2
<1> QED BY <1>1, <1>2, <1>3, <1>4, <1>5, <1>6, <1>7, <1>8

\* lock_release up to sem_up, and the nested release.
LEMMA lock_release_IInv ==
    ASSUME IInv, NEW t \in Threads, NEW l \in Locks, lock_release(t, l)
    PROVE  IInv'
<1> USE ThreadsAssumption, NullAssumption, BoundsAssumption DEF IInv, lock_release,
        At, Goto, cpuVars, schedVars, pcVars, semVars, lockVars
<1>0. holder_repeat_num[l] \in 0 .. MaxRepeat /\ holder_repeat_num[l] # 0
  BY DEF TypeOK, MutualExclusion
<1>c. \/ /\ UNCHANGED << pc, arg, holder >>
         /\ holder_repeat_num' = [holder_repeat_num EXCEPT ![l] = holder_repeat_num[l] - 1]
      \/ /\ pc' = [pc EXCEPT ![t] = "up"] /\ arg' = [arg EXCEPT ![t] = l]
         /\ holder' = [holder EXCEPT ![l] = NULL]
         /\ holder_repeat_num' = [holder_repeat_num EXCEPT ![l] = 0]
  OBVIOUS
<1>1. TypeOK'
  <2>1. 0 \in 0 .. MaxRepeat /\ holder_repeat_num[l] - 1 \in 0 .. MaxRepeat
    BY <1>0
  <2>2. CASE /\ UNCHANGED << pc, arg, holder >>
             /\ holder_repeat_num' = [holder_repeat_num EXCEPT ![l] = holder_repeat_num[l] - 1]
    <3>1. holder_repeat_num' \in [Locks -> 0 .. MaxRepeat]
      BY <2>1, <2>2 DEF TypeOK
    <3> QED BY <2>2, <3>1 DEF TypeOK
  <2>3. CASE /\ pc' = [pc EXCEPT ![t] = "up"] /\ arg' = [arg EXCEPT ![t] = l]
             /\ holder' = [holder EXCEPT ![l] = NULL]
             /\ holder_repeat_num' = [holder_repeat_num EXCEPT ![l] = 0]
    <3>1. pc' \in [Threads -> Labels] /\ arg' \in [Threads -> Locks \cup {NULL}]
      BY <2>3 DEF TypeOK, Labels
    <3>2. holder' \in [Locks -> Threads \cup {NULL}]
      BY <2>3 DEF TypeOK
    <3>3. holder_repeat_num' \in [Locks -> 0 .. MaxRepeat]
      BY <2>1, <2>3 DEF TypeOK
    <3> QED BY <3>1, <3>2, <3>3 DEF TypeOK
  <2> QED BY <1>c, <2>2, <2>3
<1>2. OneList' BY DEF TypeOK, Labels, OneList, PcOK, SwitchOK
<1>3. MutualExclusion'
  <2>1. CASE holder_repeat_num[l] > 1
    <3>1. \A u \in Threads, k \in Locks : Owns(u, k)' <=> Owns(u, k)
      BY <2>1, <1>0 DEF Owns
    <3>2. \A k \in Locks : holder_repeat_num'[k] = 0 <=> holder_repeat_num[k] = 0
      BY <2>1, <1>0 DEF TypeOK
    <3> QED BY <2>1, <1>0, <3>1, <3>2 DEF MutualExclusion
  <2>2. CASE holder_repeat_num[l] <= 1
    <3>1. /\ holder' = [holder EXCEPT ![l] = NULL]
          /\ holder_repeat_num' = [holder_repeat_num EXCEPT ![l] = 0]
          /\ pc' = [pc EXCEPT ![t] = "up"] /\ arg' = [arg EXCEPT ![t] = l]
      BY <2>2, <1>0
    <3>2. \A k \in Locks : holder'[k] = (IF k = l THEN NULL ELSE holder[k])
                        /\ holder_repeat_num'[k] = (IF k = l THEN 0 ELSE holder_repeat_num[k])
      BY <3>1 DEF TypeOK
    <3>3. \A u \in Threads : pc'[u] = (IF u = t THEN "up" ELSE pc[u])
                          /\ arg'[u] = (IF u = t THEN l ELSE arg[u])
      BY <3>1 DEF TypeOK
    <3>4. \A u \in Threads : ~(pc[u] \in {"own", "up"} /\ arg[u] = l)
      BY DEF MutualExclusion
    <3>5. \A u \in Threads, k \in Locks : Owns(u, k)' <=> Owns(u, k)
      BY <3>2, <3>3, <3>4 DEF Owns
    <3> QED BY <3>2, <3>3, <3>4, <3>5 DEF MutualExclusion
  <2> QED BY <2>1, <2>2, <1>0
<1>4. NoLostWakeup' BY DEF TypeOK, NoLostWakeup, PcOK, OneList
<1>5. IntrPreserved' BY DEF TypeOK, IntrPreserved, SwitchOK, SwitchedOut, PcOK
<1>6. AddressSpace' BY DEF TypeOK, AddressSpace, OneList
<1>7. SwitchOK' BY DEF TypeOK, SwitchOK, SwitchedOut, IntrPreserved, PcOK, OneList
<1>8. PcOK'
  <2>1. CASE UNCHANGED << pc, arg >>
    BY <2>1 DEF PcOK
  <2>2. CASE pc' = [pc EXCEPT ![t] = "up"] /\ arg' = [arg EXCEPT ![t] = l]
    BY <2>2 DEF TypeOK, PcOK
  <2> QED BY <1>c, <2>1, <2>2
<1> QED BY <1>1, <1>2, <1>3, <1>4, <1>5, <1>6, <1>7, <1>8

\* thread_start / process_execute: the new thread is linked at the back.
LEMMA thread_init_IInv ==
    ASSUME IInv, NEW t \in Threads, NEW u \in Threads,
           NEW dir \in {NULL, u}, thread_init(t, u, dir)
    PROVE  IInv'
<1> USE ThreadsAssumption, NullAssumption, BoundsAssumption DEF IInv, thread_init,
        At, Goto, cpuVars, schedVars, pcVars, semVars, lockVars
<1>0. /\ ready_thread_list' \in Seq(Threads) /\ NoDup(ready_thread_list')
      /\ \A x : elem_find(ready_thread_list', x) <=> elem_find(ready_thread_list, x) \/ x = u
  <2>1. /\ ready_thread_list \in Seq(Threads) /\ NoDup(ready_thread_list)
        /\ ~elem_find(ready_thread_list, u)
        /\ ready_thread_list' = list_append(ready_thread_list, u)
    BY DEF TypeOK, OneList
  <2> HIDE DEF IInv, thread_init, At, Goto, cpuVars, schedVars, pcVars, semVars, lockVars
  <2> QED BY <2>1, AppendLemma
<1>1. TypeOK'
  <2>1. ticks' \in [Threads -> 0 .. 255] /\ pgdir' \in [Threads -> Threads \cup {NULL}]
    BY DEF TypeOK
  <2> QED BY <1>0, <2>1 DEF TypeOK
<1>2. OneList'
  <2>1. \A v \in Threads : status'[v] = (IF v = u THEN "READY" ELSE status[v])
    BY DEF TypeOK
  <2> QED BY <1>0, <2>1 DEF OneList
<1>3. MutualExclusion' BY MutexStable DEF TypeOK
<1>4. NoLostWakeup' BY DEF TypeOK, NoLostWakeup
<1>5. IntrPreserved' BY DEF TypeOK, IntrPreserved, SwitchOK, SwitchedOut, PcOK
<1>6. AddressSpace'
  <2>1. u # running BY DEF OneList
  <2> QED BY <2>1 DEF TypeOK, AddressSpace
<1>7. SwitchOK' BY DEF TypeOK, SwitchOK, SwitchedOut, IntrPreserved, PcOK, OneList
<1>8. PcOK' BY DEF TypeOK, PcOK
<1> QED BY <1>1, <1>2, <1>3, <1>4, <1>5, <1>6, <1>7, <1>8

\* sem_up: the first waiter moves to the ready queue and the value goes up.
LEMMA sem_up_IInv ==
    ASSUME IInv, NEW t \in Threads, sem_up(t)
    PROVE  IInv'
<1> USE ThreadsAssumption, NullAssumption, BoundsAssumption DEF IInv, sem_up,
        At, Goto, cpuVars, schedVars, pcVars, semVars, lockVars
<1> DEFINE l == arg[t]
           w == list_first(waiter[l])
<1>a. l \in Locks /\ Owns(t, l) /\ value[l] = 0 /\ holder[l] = NULL
  BY DEF TypeOK, PcOK, Owns, MutualExclusion
<1>b. \A k \in Locks : waiter[k] \in Seq(Threads) /\ NoDup(waiter[k])
  BY DEF TypeOK, OneList
<1>c. /\ \A k \in Locks : value'[k] = IF k = l THEN 1 ELSE value[k]
      /\ value' \in [Locks -> {0, 1}]
  BY <1>a DEF TypeOK
<1>d. \A v \in Threads : pc'[v] = (IF v = t THEN "run" ELSE pc[v])
                      /\ arg'[v] = (IF v = t THEN NULL ELSE arg[v])
  BY DEF TypeOK
<1>e. ASSUME waiter[l] # << >>
      PROVE  /\ w \in Threads /\ elem_find(waiter[l], w)
             /\ status[w] = "BLOCKED" /\ w # Idle /\ w # t /\ arg[w] = l
             /\ pc[w] = "sleep"
             /\ \A v \in Threads : status'[v] = IF v = w THEN "READY" ELSE status[v]
             /\ status' \in [Threads -> {"UNBORN", "RUNNING", "READY", "BLOCKED"}]
             /\ waiter' \in [Locks -> Seq(Threads)]
             /\ \A k \in Locks : NoDup(waiter'[k])
             /\ \A k \in Locks, x \in Threads :
                    elem_find(waiter'[k], x) <=> elem_find(waiter[k], x) /\ ~(k = l /\ x = w)
             /\ ready_thread_list' \in Seq(Threads) /\ NoDup(ready_thread_list')
             /\ \A x : elem_find(ready_thread_list', x) <=>
                        elem_find(ready_thread_list, x) \/ x = w
  <2>1. /\ w \in Threads /\ elem_find(waiter[l], w)
        /\ list_pop(waiter[l]) \in Seq(Threads) /\ NoDup(list_pop(waiter[l]))
        /\ \A x : elem_find(list_pop(waiter[l]), x) <=> elem_find(waiter[l], x) /\ x # w
    BY <1>e, <1>a, <1>b, PopLemma
  <2>2. /\ status[w] = "BLOCKED" /\ w # Idle /\ w # t /\ arg[w] = l
        /\ pc[w] = "sleep" /\ ~elem_find(ready_thread_list, w)
    BY <2>1, <1>a DEF OneList
  <2> HIDE DEF w
  <2>3. /\ status' = [status EXCEPT ![w] = "READY"]
        /\ ready_thread_list' = list_push(ready_thread_list, w)
        /\ waiter' = [waiter EXCEPT ![l] = list_pop(waiter[l])]
    BY <1>e DEF thread_unlock, list_empty, w
  <2>4. /\ ready_thread_list' \in Seq(Threads) /\ NoDup(ready_thread_list')
        /\ \A x : elem_find(ready_thread_list', x) <=>
                   elem_find(ready_thread_list, x) \/ x = w
    <3>1. ready_thread_list \in Seq(Threads) /\ NoDup(ready_thread_list)
      BY DEF TypeOK, OneList
    <3> HIDE DEF sem_up, At, Goto, cpuVars, semVars, lockVars, IInv
    <3> QED BY <2>1, <2>2, <2>3, <3>1, PushLemma
  <2>5. /\ status' \in [Threads -> {"UNBORN", "RUNNING", "READY", "BLOCKED"}]
        /\ \A v \in Threads : status'[v] = IF v = w THEN "READY" ELSE status[v]
    BY <2>1, <2>3 DEF TypeOK
  <2>6. /\ waiter' \in [Locks -> Seq(Threads)]
        /\ \A k \in Locks : waiter'[k] = IF k = l THEN list_pop(waiter[l]) ELSE waiter[k]
    BY <2>1, <2>3, <1>a DEF TypeOK
  <2>7. \A k \in Locks : NoDup(waiter'[k])
    BY <2>1, <2>6, <1>b
  <2>8. \A k \in Locks, x \in Threads :
            elem_find(waiter'[k], x) <=> elem_find(waiter[k], x) /\ ~(k = l /\ x = w)
    BY <2>1, <2>6
  <2> QED BY <2>1, <2>2, <2>4, <2>5, <2>6, <2>7, <2>8
<1>f. ASSUME waiter[l] = << >>
      PROVE  UNCHANGED << status, ready_thread_list, waiter >>
  BY <1>f DEF list_empty
<1> HIDE DEF w
<1>1. TypeOK'
  BY <1>c, <1>e, <1>f DEF TypeOK, Labels
<1>2. OneList'
  <2>1. CASE waiter[l] # << >>
    BY <2>1, <1>a, <1>d, <1>e DEF OneList
  <2>2. CASE waiter[l] = << >>
    BY <2>2, <1>d, <1>f DEF OneList, TypeOK, PcOK, SwitchOK, SwitchedOut
  <2> QED BY <2>1, <2>2
<1>3. MutualExclusion'
  <2>1. \A v \in Threads, k \in Locks : Owns(v, k)' <=> Owns(v, k) /\ ~(v = t /\ k = l)
    BY <1>a, <1>d DEF Owns
  <2>2. \A v \in Threads : Owns(v, l) => v = t
    BY <1>a DEF MutualExclusion
  <2> QED BY <1>a, <1>c, <1>d, <2>1, <2>2 DEF MutualExclusion
<1>4. NoLostWakeup'
  <2>1. CASE waiter[l] # << >>
    BY <2>1, <1>a, <1>c, <1>d, <1>e DEF NoLostWakeup, list_empty
  <2>2. CASE waiter[l] = << >>
    BY <2>2, <1>a, <1>c, <1>d, <1>f DEF NoLostWakeup, list_empty
  <2> QED BY <2>1, <2>2
<1>5. IntrPreserved' BY DEF TypeOK, IntrPreserved, SwitchOK, SwitchedOut, PcOK
<1>6. AddressSpace' BY DEF TypeOK, AddressSpace, OneList
<1>7. SwitchOK' BY DEF TypeOK, SwitchOK, SwitchedOut, IntrPreserved, PcOK, OneList
<1>8. PcOK' BY DEF TypeOK, PcOK
<1> QED BY <1>1, <1>2, <1>3, <1>4, <1>5, <1>6, <1>7, <1>8

-----------------------------------------------------------------------------
(* The actions that end in schedule().                                     *)

\* A thread that leaves the CPU in schedule() leaves an intr_stack or one of the
\* labels SwitchedOut behind, so the next one finds interrupts off until it has
\* restored its own state.
LEMMA SwitchLemma ==
    ASSUME IInv, NEW st, Scheduled(st),
           UNCHANGED << pgdir, caller_intr >>,
           \A u \in Threads : u # running =>
               frame'[u] = frame[u] /\ pc'[u] = pc[u] /\ old_status'[u] = old_status[u],
           frame'[running] \/ pc'[running] \in SwitchedOut,
           frame'[running] => pc'[running] \notin SwitchedOut /\ caller_intr[running],
           pc'[running] \in SwitchedOut =>
               old_status'[running] = caller_intr[running] /\ pc'[running] # "start"
    PROVE  IntrPreserved' /\ AddressSpace' /\ SwitchOK'
<1>1. \A u \in Threads : frame'[u] \/ pc'[u] \in SwitchedOut
  BY DEF IInv, SwitchOK
<1>2. running' \in Threads /\ ~intr'
  BY DEF Scheduled
<1>3. IntrPreserved'
  BY <1>1, <1>2 DEF IntrPreserved
<1>4. AddressSpace'
  BY DEF Scheduled, AddressSpace
<1>5. SwitchOK'
  <2>1. \A u \in Threads : frame'[u] => pc'[u] \notin SwitchedOut /\ caller_intr'[u]
    BY DEF IInv, SwitchOK
  <2>2. \A u \in Threads : pc'[u] \in {"sleep", "yield", "blocked"} =>
                            old_status'[u] = caller_intr'[u]
    BY DEF IInv, SwitchOK, SwitchedOut
  <2>3. \A u \in Threads : pc'[u] = "start" => caller_intr'[u]
    BY DEF IInv, SwitchOK, SwitchedOut
  <2> QED BY <1>1, <1>2, <2>1, <2>2, <2>3 DEF SwitchOK
<1> QED BY <1>3, <1>4, <1>5

\* intr_timer_handler, with and without a switch.
LEMMA intr_timer_handler_IInv ==
    ASSUME IInv, intr_timer_handler
    PROVE  IInv'
<1> USE ThreadsAssumption, NullAssumption, BoundsAssumption
<1>0. /\ running \in Threads /\ intr /\ caller_intr[running]
      /\ ~frame[running] /\ pc[running] \notin SwitchedOut
      /\ status[running] = "RUNNING"
  BY DEF IInv, intr_timer_handler, TypeOK, SwitchOK, IntrPreserved, OneList
<1>1. /\ pc' \in [Threads -> Labels]
      /\ \A u \in Threads : u # running => pc'[u] = pc[u]
      /\ pc'[running] = pc[running] \/ (pc[running] = "hlt" /\ pc'[running] = "loop")
      /\ pc'[running] \notin SwitchedOut
  <2>1. CASE pc[running] = "hlt"
    BY <1>0, <2>1 DEF IInv, intr_timer_handler, TypeOK, Labels, SwitchedOut
  <2>2. CASE pc[running] # "hlt"
    BY <1>0, <2>2 DEF IInv, intr_timer_handler, TypeOK
  <2> QED BY <2>1, <2>2
<1>2. UNCHANGED << pgdir, arg, old_status, caller_intr, value, waiter, holder,
                   holder_repeat_num >>
  BY DEF intr_timer_handler, semVars, lockVars
<1>3. MutualExclusion'
  BY <1>1, <1>2, MutexStable DEF IInv, lockVars
<1>4. PcOK'
  BY <1>0, <1>1, <1>2 DEF IInv, PcOK
<1>5. CASE ticks[running] = 0
  <2>1. /\ schedule(ready_thread_list, status)
        /\ frame' = [frame EXCEPT ![running] = TRUE]
    BY <1>5 DEF intr_timer_handler
  <2>2. Agree(ready_thread_list, status)
    BY DEF IInv, TypeOK, OneList, Agree, Status
  <2>3. Scheduled(status)
    BY <2>1, <2>2, ScheduleLemma DEF IInv
  <2>4. /\ frame' \in [Threads -> BOOLEAN] /\ frame'[running]
        /\ \A u \in Threads : u # running => frame'[u] = frame[u]
    BY <1>0, <2>1 DEF IInv, TypeOK
  <2>5. IntrPreserved' /\ AddressSpace' /\ SwitchOK'
    BY <1>0, <1>1, <1>2, <2>3, <2>4, SwitchLemma
  <2>6. TypeOK'
    BY <1>1, <1>2, <2>3, <2>4 DEF IInv, TypeOK, Scheduled, Status
  <2>7. OneList'
    BY <1>0, <1>1, <1>2, <2>3 DEF IInv, OneList, Scheduled
  <2>8. NoLostWakeup'
    BY <1>0, <1>1, <1>2, <2>3 DEF IInv, NoLostWakeup, Scheduled, SwitchedOut, Status
  <2> QED BY <1>3, <1>4, <2>5, <2>6, <2>7, <2>8 DEF IInv
<1>6. CASE ticks[running] # 0
  <2>1. /\ ticks' = [ticks EXCEPT ![running] = ticks[running] - 1]
        /\ UNCHANGED << running, intr, cr3, esp0, ready_thread_list, status, frame >>
    BY <1>6 DEF intr_timer_handler, cpuVars
  <2>2. ticks' \in [Threads -> 0 .. 255]
    <3>1. ticks[running] - 1 \in 0 .. 255
      BY <1>0, <1>6 DEF IInv, TypeOK
    <3> QED BY <2>1, <3>1 DEF IInv, TypeOK
  <2>3. TypeOK'
    BY <1>1, <1>2, <2>1, <2>2 DEF IInv, TypeOK
  <2>4. OneList'
    BY <1>0, <1>1, <1>2, <2>1 DEF IInv, OneList
  <2>5. NoLostWakeup'
    BY <1>0, <1>1, <1>2, <2>1 DEF IInv, NoLostWakeup, SwitchedOut
  <2>6. IntrPreserved' /\ AddressSpace'
    BY <1>0, <1>1, <1>2, <2>1 DEF IInv, IntrPreserved, AddressSpace
  <2>7. SwitchOK'
    BY <1>0, <1>1, <1>2, <2>1 DEF IInv, SwitchOK, SwitchedOut
  <2> QED BY <1>3, <1>4, <2>3, <2>4, <2>5, <2>6, <2>7 DEF IInv
<1> QED BY <1>5, <1>6

\* thread_yield: the thread is linked at the back before schedule().
LEMMA thread_yield_IInv ==
    ASSUME IInv, NEW t \in Threads, thread_yield(t)
    PROVE  IInv'
<1> USE ThreadsAssumption, NullAssumption, BoundsAssumption
<1> DEFINE rl == list_append(ready_thread_list, t)
           st == [status EXCEPT ![t] = "READY"]
<1>0. /\ t = running /\ ~frame[t] /\ pc[t] = "run" /\ schedule(rl, st)
      /\ pc' = [pc EXCEPT ![t] = "yield"]
      /\ old_status' = [old_status EXCEPT ![t] = intr]
      /\ UNCHANGED << pgdir, arg, frame, caller_intr, value, waiter, holder,
                      holder_repeat_num >>
  BY DEF thread_yield, At, Goto, semVars, lockVars
<1>1. /\ pc' \in [Threads -> Labels] /\ old_status' \in [Threads -> BOOLEAN]
      /\ \A u \in Threads : u # t => pc'[u] = pc[u] /\ old_status'[u] = old_status[u]
      /\ pc'[t] = "yield" /\ old_status'[t] = intr
  BY <1>0 DEF IInv, TypeOK, Labels
<1>2. /\ status[t] = "RUNNING" /\ intr = caller_intr[t]
      /\ ~elem_find(ready_thread_list, t)
  BY <1>0 DEF IInv, OneList, IntrPreserved, SwitchedOut
<1>3. \A u \in Threads : st[u] = IF u = t THEN "READY" ELSE status[u]
  BY DEF IInv, TypeOK
<1>4. Agree(rl, st)
  <2>1. /\ rl \in Seq(Threads) /\ NoDup(rl)
        /\ \A x : elem_find(rl, x) <=> elem_find(ready_thread_list, x) \/ x = t
    <3>1. ready_thread_list \in Seq(Threads) /\ NoDup(ready_thread_list)
      BY DEF IInv, TypeOK, OneList
    <3> QED BY <1>2, <3>1, AppendLemma
  <2>2. st \in [Threads -> Status]
    BY DEF IInv, TypeOK, Status
  <2> HIDE DEF rl, st
  <2> QED BY <1>0, <1>3, <2>1, <2>2 DEF IInv, OneList, Agree
<1> HIDE DEF rl, st
<1>5. Scheduled(st)
  BY <1>0, <1>4, ScheduleLemma DEF IInv
<1>6. IntrPreserved' /\ AddressSpace' /\ SwitchOK'
  BY <1>0, <1>1, <1>2, <1>5, SwitchLemma DEF SwitchedOut
<1>7. TypeOK'
  BY <1>0, <1>1, <1>5 DEF IInv, TypeOK, Scheduled, Status
<1>8. OneList'
  BY <1>0, <1>1, <1>2, <1>3, <1>5 DEF IInv, OneList, Scheduled
<1>9. NoLostWakeup'
  <2>1. \A u \in Threads : status[u] \in {"READY", "RUNNING"} =>
                             status'[u] \in {"READY", "RUNNING"}
    BY <1>3, <1>5 DEF Scheduled, Status
  <2> QED BY <1>0, <1>1, <2>1 DEF IInv, NoLostWakeup
<1>10. MutualExclusion'
  BY <1>0, <1>1, MutexStable DEF IInv, lockVars
<1>11. PcOK'
  BY <1>0, <1>1 DEF IInv, PcOK
<1> QED BY <1>6, <1>7, <1>8, <1>9, <1>10, <1>11 DEF IInv

\* idle blocks itself, though no semaphore will wake it: schedule() does.
LEMMA idle_block_IInv ==
    ASSUME IInv, idle_block
    PROVE  IInv'
<1> USE ThreadsAssumption, NullAssumption, BoundsAssumption
<1> DEFINE t == Idle
           st == [status EXCEPT ![t] = "BLOCKED"]
<1>0. /\ t = running /\ ~frame[t] /\ pc[t] = "loop"
      /\ schedule(ready_thread_list, st)
      /\ pc' = [pc EXCEPT ![t] = "blocked"]
      /\ old_status' = [old_status EXCEPT ![t] = intr]
      /\ UNCHANGED << pgdir, arg, frame, caller_intr, value, waiter, holder,
                      holder_repeat_num >>
  BY DEF idle_block, thread_lock, At, Goto, semVars, lockVars
<1>1. /\ pc' \in [Threads -> Labels] /\ old_status' \in [Threads -> BOOLEAN]
      /\ \A u \in Threads : u # t => pc'[u] = pc[u] /\ old_status'[u] = old_status[u]
      /\ pc'[t] = "blocked" /\ old_status'[t] = intr
  BY <1>0 DEF IInv, TypeOK, Labels
<1>2. status[t] = "RUNNING" /\ intr = caller_intr[t]
  BY <1>0 DEF IInv, OneList, IntrPreserved, SwitchedOut
<1>3. \A u \in Threads : st[u] = IF u = t THEN "BLOCKED" ELSE status[u]
  BY DEF IInv, TypeOK
<1>4. Agree(ready_thread_list, st)
  <2>1. st \in [Threads -> Status]
    BY DEF IInv, TypeOK, Status
  <2> HIDE DEF st
  <2> QED BY <1>0, <1>2, <1>3, <2>1 DEF IInv, TypeOK, OneList, Agree
<1> HIDE DEF st
<1>5. Scheduled(st)
  BY <1>0, <1>4, ScheduleLemma DEF IInv
<1>6. IntrPreserved' /\ AddressSpace' /\ SwitchOK'
  BY <1>0, <1>1, <1>2, <1>5, SwitchLemma DEF SwitchedOut
<1>7. TypeOK'
  BY <1>0, <1>1, <1>5 DEF IInv, TypeOK, Scheduled, Status
<1>8. OneList'
  <2>1. \A u \in Threads : u # Idle => (status'[u] = "BLOCKED" <=> status[u] = "BLOCKED")
    BY <1>3, <1>5 DEF Scheduled
  <2>2. \A u \in Threads, k \in Locks :
            elem_find(waiter[k], u) <=> status'[u] = "BLOCKED" /\ u # Idle /\ arg[u] = k
    BY <2>1 DEF IInv, OneList
  <2>3. \A u \in Threads : status'[u] = "BLOCKED" =>
                            pc'[u] = IF u = Idle THEN "blocked" ELSE "sleep"
    BY <1>1, <2>1 DEF IInv, OneList
  <2> QED BY <1>0, <1>5, <2>2, <2>3 DEF IInv, OneList, Scheduled
<1>9. NoLostWakeup'
  BY <1>0, <1>1, <1>3, <1>5 DEF IInv, NoLostWakeup, Scheduled, Status, PcOK
<1>10. MutualExclusion'
  BY <1>0, <1>1, MutexStable DEF IInv, lockVars
<1>11. PcOK'
  BY <1>0, <1>1 DEF IInv, PcOK
<1> QED BY <1>6, <1>7, <1>8, <1>9, <1>10, <1>11 DEF IInv

\* The loop of sem_down, entered for the first time or after a wake-up: sleep, or
\* take the semaphore.
LEMMA sem_down_loop_IInv ==
    ASSUME IInv, NEW t \in Threads, NEW saved \in BOOLEAN,
           t = running, ~frame[t], pc[t] \in {"down", "sleep"},
           saved = caller_intr[t],
           sem_down_loop(t, arg[t], saved),
           old_status' \in [Threads -> BOOLEAN], old_status'[t] = caller_intr[t],
           \A u \in Threads : u # t => old_status'[u] = old_status[u],
           UNCHANGED << pgdir, arg, frame, caller_intr, holder, holder_repeat_num >>
    PROVE  IInv'
<1> USE ThreadsAssumption, NullAssumption, BoundsAssumption
<1> DEFINE l == arg[t]
           st == [status EXCEPT ![t] = "BLOCKED"]
<1>0. l \in Locks /\ value[l] \in {0, 1} /\ t # Idle
  BY DEF IInv, TypeOK, PcOK
<1>1. /\ status[t] = "RUNNING" /\ \A k \in Locks : ~elem_find(waiter[k], t)
      /\ ~elem_find(ready_thread_list, t)
  BY DEF IInv, OneList
<1>2. CASE value[l] = 0
  <2>1. /\ waiter' = [waiter EXCEPT ![l] = list_append(waiter[l], t)]
        /\ schedule(ready_thread_list, st)
        /\ pc' = [pc EXCEPT ![t] = "sleep"]
        /\ UNCHANGED value
    BY <1>2 DEF sem_down_loop, thread_lock, Goto
  <2>2. /\ pc' \in [Threads -> Labels] /\ pc'[t] = "sleep"
        /\ \A u \in Threads : u # t => pc'[u] = pc[u]
    BY <2>1 DEF IInv, TypeOK, Labels
  <2>3. \A u \in Threads : st[u] = IF u = t THEN "BLOCKED" ELSE status[u]
    BY DEF IInv, TypeOK
  <2>4. Agree(ready_thread_list, st)
    <3>1. st \in [Threads -> Status]
      BY DEF IInv, TypeOK, Status
    <3> HIDE DEF st
    <3> QED BY <1>1, <2>3, <3>1 DEF IInv, TypeOK, OneList, Agree
  <2> HIDE DEF st
  <2>5. Scheduled(st)
    BY <2>1, <2>4, ScheduleLemma DEF IInv
  <2>6. /\ waiter' \in [Locks -> Seq(Threads)]
        /\ \A k \in Locks : NoDup(waiter'[k])
        /\ \A k \in Locks, x \in Threads :
               elem_find(waiter'[k], x) <=> elem_find(waiter[k], x) \/ (k = l /\ x = t)
        /\ \A k \in Locks : k # l => waiter'[k] = waiter[k]
    <3>1. /\ list_append(waiter[l], t) \in Seq(Threads)
          /\ NoDup(list_append(waiter[l], t))
          /\ \A x : elem_find(list_append(waiter[l], t), x) <=>
                     elem_find(waiter[l], x) \/ x = t
      <4>1. waiter[l] \in Seq(Threads) /\ NoDup(waiter[l]) /\ ~elem_find(waiter[l], t)
        BY <1>0, <1>1 DEF IInv, TypeOK, OneList
      <4> HIDE DEF l
      <4> QED BY <4>1, AppendLemma
    <3>2. /\ waiter' \in [Locks -> Seq(Threads)]
          /\ \A k \in Locks : waiter'[k] =
                IF k = l THEN list_append(waiter[l], t) ELSE waiter[k]
      BY <1>0, <2>1, <3>1 DEF IInv, TypeOK
    <3>3. \A k \in Locks : NoDup(waiter[k])
      BY DEF IInv, OneList
    <3> QED BY <3>1, <3>2, <3>3
  <2>7. IntrPreserved' /\ AddressSpace' /\ SwitchOK'
    BY <2>2, <2>5, SwitchLemma DEF SwitchedOut
  <2>8. TypeOK'
    BY <2>1, <2>2, <2>5, <2>6 DEF IInv, TypeOK, Scheduled, Status
  <2>9. OneList'
    <3>1. running' # t
      BY <1>0, <2>3, <2>5 DEF Scheduled
    <3>2. \A u \in Threads : u # Idle /\ u # t =>
              (status'[u] = "BLOCKED" <=> status[u] = "BLOCKED")
      BY <2>3, <2>5 DEF Scheduled
    <3>3. status'[t] = "BLOCKED"
      BY <2>3, <2>5, <3>1 DEF Scheduled
    <3>4. \A u \in Threads, k \in Locks :
              elem_find(waiter'[k], u) <=> status'[u] = "BLOCKED" /\ u # Idle /\ arg[u] = k
      BY <1>0, <1>1, <2>6, <3>2, <3>3 DEF IInv, OneList
    <3>5. status'[Idle] = "BLOCKED" => status[Idle] = "BLOCKED"
      BY <1>0, <2>3, <2>5 DEF Scheduled
    <3>6. \A u \in Threads : status'[u] = "BLOCKED" =>
                              pc'[u] = IF u = Idle THEN "blocked" ELSE "sleep"
      BY <1>0, <2>2, <3>2, <3>3, <3>5 DEF IInv, OneList
    <3> QED BY <2>5, <2>6, <3>4, <3>6 DEF OneList, Scheduled
  <2>10. NoLostWakeup'
    <3>1. \A u \in Threads : u # t /\ status[u] \in {"READY", "RUNNING"} =>
                               status'[u] \in {"READY", "RUNNING"}
      BY <2>3, <2>5 DEF Scheduled, Status
    <3>2. SUFFICES ASSUME NEW k \in Locks, k # l, value[k] = 1, waiter[k] # << >>
                   PROVE  \E u \in Threads : /\ pc'[u] = "sleep" /\ arg[u] = k
                                              /\ status'[u] \in {"READY", "RUNNING"}
      BY <1>2, <2>1, <2>6 DEF NoLostWakeup, list_empty
    <3>3. PICK u \in Threads : /\ pc[u] = "sleep" /\ arg[u] = k
                               /\ status[u] \in {"READY", "RUNNING"}
      BY <3>2 DEF IInv, NoLostWakeup, list_empty
    <3> QED BY <2>2, <3>1, <3>2, <3>3
  <2>11. MutualExclusion'
    BY <2>1, <2>2, MutexStable DEF IInv, lockVars
  <2>12. PcOK'
    BY <1>0, <2>2 DEF IInv, PcOK
  <2> QED BY <2>7, <2>8, <2>9, <2>10, <2>11, <2>12 DEF IInv
<1>3. CASE value[l] # 0
  <2>1. /\ value[l] = 1 /\ value' = [value EXCEPT ![l] = value[l] - 1]
        /\ intr' = saved
        /\ pc' = [pc EXCEPT ![t] = "own"]
        /\ UNCHANGED << running, cr3, esp0, ready_thread_list, status, ticks, waiter >>
    BY <1>0, <1>3 DEF sem_down_loop, Goto, schedVars
  <2>2. /\ pc' \in [Threads -> Labels] /\ pc'[t] = "own"
        /\ \A u \in Threads : u # t => pc'[u] = pc[u]
    BY <2>1 DEF IInv, TypeOK, Labels
  <2>3. /\ value' \in [Locks -> {0, 1}]
        /\ \A k \in Locks : value'[k] = IF k = l THEN 0 ELSE value[k]
    BY <1>0, <2>1 DEF IInv, TypeOK
  <2>4. TypeOK'
    BY <2>1, <2>2, <2>3 DEF IInv, TypeOK
  <2>5. OneList'
    BY <1>1, <2>1, <2>2 DEF IInv, OneList
  <2>6. MutualExclusion'
    <3>1. holder[l] = NULL /\ \A u \in Threads : ~Owns(u, l)
      <4>1. \A u \in Threads : ~Owns(u, l)
        BY <1>0, <2>1 DEF IInv, MutualExclusion
      <4>2. holder[l] \in Threads \cup {NULL} /\ (holder[l] \in Threads => Owns(holder[l], l))
        BY <1>0 DEF IInv, TypeOK, Owns
      <4> QED BY <4>1, <4>2
    <3>2. \A u \in Threads, k \in Locks : Owns(u, k)' <=> Owns(u, k) \/ (u = t /\ k = l)
      BY <2>2 DEF Owns
    <3> QED BY <1>0, <2>2, <2>3, <3>1, <3>2 DEF IInv, MutualExclusion
  <2>7. NoLostWakeup'
    BY <1>0, <2>1, <2>2, <2>3 DEF IInv, NoLostWakeup
  <2>8. IntrPreserved' /\ AddressSpace'
    BY <2>1, <2>2 DEF IInv, IntrPreserved, AddressSpace
  <2>9. SwitchOK'
    BY <2>1, <2>2 DEF IInv, SwitchOK, SwitchedOut
  <2>10. PcOK'
    BY <1>0, <2>2 DEF IInv, PcOK
  <2> QED BY <2>4, <2>5, <2>6, <2>7, <2>8, <2>9, <2>10 DEF IInv
<1> QED BY <1>2, <1>3

\* sem_down, from its call.
LEMMA sem_down_IInv ==
    ASSUME IInv, NEW t \in Threads, sem_down(t)
    PROVE  IInv'
<1>1. intr = caller_intr[t] /\ intr \in BOOLEAN
  BY DEF sem_down, At, IInv, IntrPreserved, SwitchedOut, TypeOK
<1>2. /\ old_status' \in [Threads -> BOOLEAN] /\ old_status'[t] = intr
      /\ \A u \in Threads : u # t => old_status'[u] = old_status[u]
  BY DEF sem_down, IInv, TypeOK
<1> QED BY <1>1, <1>2, sem_down_loop_IInv DEF sem_down, At, lockVars

\* sem_down, after thread_lock has returned.
LEMMA sem_down_again_IInv ==
    ASSUME IInv, NEW t \in Threads, sem_down_again(t)
    PROVE  IInv'
<1>1. old_status[t] = caller_intr[t] /\ old_status[t] \in BOOLEAN
  BY DEF sem_down_again, At, IInv, SwitchOK, TypeOK
<1>2. old_status' \in [Threads -> BOOLEAN] /\ old_status' = old_status
  BY DEF sem_down_again, IInv, TypeOK
<1> QED BY <1>1, <1>2, sem_down_loop_IInv DEF sem_down_again, At, lockVars

-----------------------------------------------------------------------------
(* The theorems.                                                           *)

\* The state system_thread_init leaves satisfies the invariant.
LEMMA InitIInv == Init => IInv
<1> SUFFICES ASSUME Init PROVE IInv
  OBVIOUS
<1> USE ThreadsAssumption, NullAssumption, BoundsAssumption DEF Init
<1>1. TypeOK
  <2>1. status \in [Threads -> {"UNBORN", "RUNNING", "READY", "BLOCKED"}]
    OBVIOUS
  <2>2. pc \in [Threads -> Labels]
    BY DEF Labels
  <2>3. ready_thread_list \in Seq(Threads) /\ waiter \in [Locks -> Seq(Threads)]
    <3>1. << >> \in Seq(Threads) /\ << Idle >> \in Seq(Threads)
      OBVIOUS
    <3> QED BY <3>1
  <2> QED BY <2>1, <2>2, <2>3 DEF TypeOK
<1>2. OneList
  <2>1. /\ NoDup(ready_thread_list)
        /\ \A t \in Threads : elem_find(ready_thread_list, t) <=> t = Idle
    BY DEF NoDup, elem_find
  <2>2. \A l \in Locks : NoDup(waiter[l]) /\ \A t \in Threads : ~elem_find(waiter[l], t)
    BY DEF NoDup, elem_find
  <2>3. \A t \in Threads : /\ status[t] = "RUNNING" <=> t = Main
                           /\ status[t] = "READY" <=> t = Idle
                           /\ status[t] # "BLOCKED"
    <3>1. status[Main] = "RUNNING" /\ status[Idle] = "READY"
      OBVIOUS
    <3>2. \A t \in Threads : t # Main /\ t # Idle => status[t] = "UNBORN"
      OBVIOUS
    <3> QED BY <3>1, <3>2
  <2> QED BY <2>1, <2>2, <2>3 DEF OneList
<1>3. MutualExclusion
  BY DEF MutualExclusion, Owns
<1>4. NoLostWakeup
  BY DEF NoLostWakeup, list_empty
<1>5. IntrPreserved /\ AddressSpace
  BY DEF IntrPreserved, AddressSpace
<1>6. SwitchOK
  BY DEF SwitchOK, SwitchedOut
<1>7. PcOK
  BY DEF PcOK
<1> QED BY <1>1, <1>2, <1>3, <1>4, <1>5, <1>6, <1>7 DEF IInv

\* A step that changes nothing preserves it.
LEMMA StutterIInv == IInv /\ UNCHANGED vars => IInv'
<1> SUFFICES ASSUME IInv, UNCHANGED vars PROVE IInv'
  OBVIOUS
<1> USE DEF vars, cpuVars, schedVars, pcVars, semVars, lockVars
<1>1. TypeOK' BY DEF IInv, TypeOK
<1>2. OneList' BY DEF IInv, OneList
<1>3. MutualExclusion' BY DEF IInv, MutualExclusion, Owns
<1>4. NoLostWakeup' BY DEF IInv, NoLostWakeup
<1>5. IntrPreserved' /\ AddressSpace' BY DEF IInv, IntrPreserved, AddressSpace
<1>6. SwitchOK' BY DEF IInv, SwitchOK
<1>7. PcOK' BY DEF IInv, PcOK
<1> QED BY <1>1, <1>2, <1>3, <1>4, <1>5, <1>6, <1>7 DEF IInv

\* Every step of every thread, the timer and idle preserves it.
LEMMA NextIInv == IInv /\ [Next]_vars => IInv'
<1> SUFFICES ASSUME IInv, [Next]_vars PROVE IInv'
  OBVIOUS
<1>1. CASE intr_timer_handler
  BY <1>1, intr_timer_handler_IInv
<1>2. ASSUME NEW t \in Threads, Resume(t) PROVE IInv'
  BY <1>2, exit_intr_IInv, kernel_thread_IInv, sem_down_again_IInv,
     thread_yield_return_IInv DEF Resume
<1>3. ASSUME NEW t \in Threads, Step(t) PROVE IInv'
  BY <1>3, sem_down_IInv, sem_up_IInv, lock_acquired_IInv DEF Step
<1>4. ASSUME NEW t \in Threads, Call(t) PROVE IInv'
  BY <1>4, lock_acquire_IInv, lock_release_IInv, thread_yield_IInv,
     thread_init_IInv, intr_disable_IInv, intr_enable_IInv DEF Call, thread_start,
     process_execute
<1>5. CASE idle_block \/ idle_unlocked \/ idle_hlt
  BY <1>5, idle_block_IInv, idle_unlocked_IInv, idle_hlt_IInv
<1>6. CASE UNCHANGED vars
  BY <1>6, StutterIInv
<1> QED BY <1>1, <1>2, <1>3, <1>4, <1>5, <1>6 DEF Next

\* IInv holds in every reachable state, whatever the threads, locks, time slices
\* and nesting bound.
THEOREM Invariance == Spec => []IInv
BY InitIInv, NextIInv, PTL DEF Spec

\* The state of scheduler and locks keeps its types; in particular value, a
\* uint8_t that sem_up increments and sem_down decrements, stays 0 or 1.
THEOREM TypeCorrect == Spec => []TypeOK
<1>1. IInv => TypeOK BY DEF IInv
<1> QED BY Invariance, <1>1, PTL

\* A pcb is linked into one list at most, and its status says which.
THEOREM OneListSafe == Spec => []OneList
<1>1. IInv => OneList BY DEF IInv
<1> QED BY Invariance, <1>1, PTL

\* lock_acquire and lock_release exclude each other.
THEOREM MutualExclusionSafe == Spec => []MutualExclusion
<1>1. IInv => MutualExclusion BY DEF IInv
<1> QED BY Invariance, <1>1, PTL

\* sem_up loses no wake-up.
THEOREM NoLostWakeupSafe == Spec => []NoLostWakeup
<1>1. IInv => NoLostWakeup BY DEF IInv
<1> QED BY Invariance, <1>1, PTL

\* No thread switch leaks one thread's interrupt state into another.
THEOREM IntrPreservedSafe == Spec => []IntrPreserved
<1>1. IInv => IntrPreserved BY DEF IInv
<1> QED BY Invariance, <1>1, PTL

\* cr3 and esp0 are those of the running process.
THEOREM AddressSpaceSafe == Spec => []AddressSpace
<1>1. IInv => AddressSpace BY DEF IInv
<1> QED BY Invariance, <1>1, PTL

-----------------------------------------------------------------------------
\* sync.c on top of the scheduler implements the abstract lock.
THEOREM MutexImplemented == Spec => ImplementsMutex
<1> USE ThreadsAssumption, NullAssumption, BoundsAssumption
<1>1. Init => Mutex!Init
  BY DEF Init, Mutex!Init
<1>2. IInv /\ [Next]_vars => [Mutex!Next]_<< holder, holder_repeat_num >>
  <2> SUFFICES ASSUME IInv, Next PROVE Mutex!Next \/ UNCHANGED lockVars
    BY DEF vars, lockVars
  <2>1. ASSUME NEW t \in Threads, NEW l \in Locks, lock_acquire(t, l)
        PROVE  Mutex!Next \/ UNCHANGED lockVars
    <3>1. CASE holder[l] # t
      BY <2>1, <3>1 DEF lock_acquire, lockVars
    <3>2. CASE holder[l] = t
      <4>1. /\ holder_repeat_num' = [holder_repeat_num EXCEPT ![l] = holder_repeat_num[l] + 1]
            /\ holder' = [holder EXCEPT ![l] = t]
        BY <2>1, <3>2 DEF lock_acquire, IInv, TypeOK
      <4>2. Mutex!Acquire(t, l)
        BY <3>2, <4>1 DEF Mutex!Acquire
      <4> QED BY <4>2 DEF Mutex!Next
    <3> QED BY <3>1, <3>2
  <2>2. ASSUME NEW t \in Threads, lock_acquired(t)
        PROVE  Mutex!Next
    <3> DEFINE l == arg[t]
    <3>1. l \in Locks /\ holder[l] = NULL /\ holder_repeat_num[l] = 0
      BY <2>2 DEF lock_acquired, At, IInv, TypeOK, PcOK, MutualExclusion
    <3>2. /\ holder' = [holder EXCEPT ![l] = t]
          /\ holder_repeat_num' = [holder_repeat_num EXCEPT ![l] = holder_repeat_num[l] + 1]
      BY <2>2, <3>1 DEF lock_acquired
    <3>3. Mutex!Acquire(t, l)
      BY <3>1, <3>2 DEF Mutex!Acquire
    <3> QED BY <3>1, <3>3 DEF Mutex!Next
  <2>3. ASSUME NEW t \in Threads, NEW l \in Locks, lock_release(t, l)
        PROVE  Mutex!Next
    <3>1. /\ holder[l] = t /\ holder_repeat_num[l] \in 0 .. MaxRepeat
          /\ holder_repeat_num[l] # 0
      BY <2>3 DEF lock_release, IInv, TypeOK, MutualExclusion
    <3>2. CASE holder_repeat_num[l] > 1
      <4>1. /\ holder_repeat_num' = [holder_repeat_num EXCEPT ![l] = holder_repeat_num[l] - 1]
            /\ holder' = [holder EXCEPT ![l] = t] /\ holder_repeat_num[l] # 1
        BY <2>3, <3>1, <3>2 DEF lock_release, IInv, TypeOK
      <4>2. Mutex!Release(t, l)
        BY <3>1, <4>1 DEF Mutex!Release
      <4> QED BY <4>2 DEF Mutex!Next
    <3>3. CASE holder_repeat_num[l] = 1
      <4>1. /\ holder_repeat_num' = [holder_repeat_num EXCEPT ![l] = holder_repeat_num[l] - 1]
            /\ holder' = [holder EXCEPT ![l] = NULL]
        BY <2>3, <3>1, <3>3 DEF lock_release
      <4>2. Mutex!Release(t, l)
        BY <3>1, <3>3, <4>1 DEF Mutex!Release
      <4> QED BY <4>2 DEF Mutex!Next
    <3> QED BY <3>1, <3>2, <3>3
  <2>4. CASE intr_timer_handler
    BY <2>4 DEF intr_timer_handler, lockVars
  <2>5. ASSUME NEW t \in Threads, Resume(t) PROVE UNCHANGED lockVars
    BY <2>5 DEF Resume, exit_intr, kernel_thread, sem_down_again,
                thread_yield_return, lockVars
  <2>6. ASSUME NEW t \in Threads, Step(t) PROVE Mutex!Next \/ UNCHANGED lockVars
    BY <2>2, <2>6 DEF Step, sem_down, sem_up, lockVars
  <2>7. ASSUME NEW t \in Threads, Call(t) PROVE Mutex!Next \/ UNCHANGED lockVars
    BY <2>1, <2>3, <2>7 DEF Call, thread_yield, thread_start,
                            process_execute, thread_init, intr_disable,
                            intr_enable, lockVars
  <2>8. CASE idle_block \/ idle_unlocked \/ idle_hlt
    BY <2>8 DEF idle_block, idle_unlocked, idle_hlt, lockVars
  <2> QED BY <2>4, <2>5, <2>6, <2>7, <2>8 DEF Next
<1> QED BY Invariance, <1>1, <1>2, PTL DEF Spec, ImplementsMutex, Mutex!Spec
=============================================================================
