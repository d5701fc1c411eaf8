--------------------------------- MODULE Ide ---------------------------------
(***************************************************************************)
(* device/ide.c: one IDE channel with its two disks, the threads that read *)
(* and write through it, and the interrupt handler.                        *)
(*                                                                         *)
(* The channel's lock is the abstract one that Sched implements.  The disk *)
(* is external: it takes a command when it is idle, is busy for a while,   *)
(* offers or accepts one sector after the other without a pause, and       *)
(* raises an interrupt for every sector (before each one it offers, after  *)
(* each one it accepts).                                                   *)
(***************************************************************************)
EXTENDS Integers

CONSTANTS
    Threads, Main,  \* Main runs ide_init
    Disks,          \* disks identified by ide_init, numbered from 0
    Traffics,       \* the kinds of use: ops, the calls made; counts, their sec_cnt;
                    \* max_op, sectors per command (256); slow, whether the disk may
                    \* be busy for longer than busy_wait polls
    NULL

ASSUME IdeAssumption ==
    /\ Main \in Threads
    /\ Disks \in Nat
    /\ \A f \in Traffics :
        /\ f.ops \subseteq {"read", "write"}
        /\ f.counts \subseteq Nat \ {0}
        /\ f.max_op \in Nat \ {0}
        /\ f.slow \in BOOLEAN
    /\ NULL \notin Threads

VARIABLES
    traffic,                \* which of Traffics, fixed
    identified,             \* disks that ide_init is done with
    holder,                 \* channel->lock
    expection_interrupt,
    disk_done_sem,
    waiter,                 \* the thread asleep in sem_down, or NULL
    reg,                    \* external: the device's registers
    disk,                   \* external: what the disk is doing
    irq,                    \* external: an interrupt is pending
    pc, loc                 \* the threads and their locals

driver == << identified, holder, expection_interrupt, disk_done_sem, waiter >>
device == << reg, disk, irq >>
vars == << traffic, driver, device, pc, loc >>

NoCall == [op |-> "none", hd |-> 0, cnt |-> 0, done |-> 0, sec_op |-> 0, left |-> 0]
IdleDisk == [phase |-> "idle", op |-> "none", hd |-> 0, lba |-> 0, left |-> 0]

Init ==
    /\ traffic \in Traffics
    /\ identified = 0
    /\ holder = NULL
    /\ expection_interrupt = 0
    /\ disk_done_sem = 0
    /\ waiter = NULL
    /\ reg = [hd |-> 0, lba |-> 0, cnt |-> 0]
    /\ disk = IdleDisk
    /\ irq = FALSE
    /\ pc = [t \in Threads |-> "idle"]
    /\ loc = [t \in Threads |-> NoCall]

Goto(t, label) == pc' = [pc EXCEPT ![t] = label]

\* A sector count in an 8-bit register: 0 stands for the largest one.
register_count(n) == n % traffic.max_op
sectors(n) == IF n = 0 THEN traffic.max_op ELSE n

-----------------------------------------------------------------------------
(* The driver.                                                             *)

\* identify_disk of the next disk, by ide_init: no lock, and no select_sector.
identify_disk(t) ==
    /\ t = Main /\ pc[t] = "idle" /\ identified < Disks
    /\ loc' = [loc EXCEPT ![t] = [NoCall EXCEPT !.op = "identify", !.hd = identified,
                                                !.cnt = 1, !.sec_op = 1]]
    /\ reg' = [reg EXCEPT !.hd = identified]
    /\ Goto(t, "cmd")
    /\ UNCHANGED << driver, disk, irq >>

\* Mutant: no lock_acquire.
ide_call_unlocked(t, op, hd, sec_cnt) ==
    /\ pc[t] = "idle" /\ identified = Disks
    /\ loc' = [loc EXCEPT ![t] = [NoCall EXCEPT !.op = op, !.hd = hd, !.cnt = sec_cnt]]
    /\ reg' = [reg EXCEPT !.hd = hd]
    /\ Goto(t, "select")
    /\ UNCHANGED << driver, disk, irq >>

\* ide_read or ide_write: lock_acquire, select_disk.
ide_call(t, op, hd, sec_cnt) ==
    /\ pc[t] = "idle" /\ identified = Disks
    /\ holder = NULL
    /\ holder' = t
    /\ loc' = [loc EXCEPT ![t] = [NoCall EXCEPT !.op = op, !.hd = hd, !.cnt = sec_cnt]]
    /\ reg' = [reg EXCEPT !.hd = hd]
    /\ Goto(t, "select")
    /\ UNCHANGED << identified, expection_interrupt, disk_done_sem, waiter, disk, irq >>

\* The next command's size, and select_sector.
select_sector(t) ==
    LET c == loc[t]
        sec_op == IF c.cnt - c.done >= traffic.max_op THEN traffic.max_op
                  ELSE c.cnt - c.done
    IN  /\ pc[t] = "select"
        /\ loc' = [loc EXCEPT ![t].sec_op = sec_op]
        /\ reg' = [hd |-> c.hd, lba |-> c.done, cnt |-> register_count(sec_op)]
        /\ Goto(t, "cmd")
        /\ UNCHANGED << driver, disk, irq >>

\* cmd_out: the interrupt is expected before the command is given.
cmd_out(t) ==
    /\ pc[t] = "cmd"
    /\ expection_interrupt' = 1
    /\ Goto(t, "out")
    /\ UNCHANGED << identified, holder, disk_done_sem, waiter, device, loc >>

\* out_byte(reg_cmd(channel), cmd).  A busy disk does not take a command.
out_cmd(t) ==
    LET n == IF loc[t].op = "identify" THEN 1 ELSE sectors(reg.cnt)
    IN  /\ pc[t] = "out"
        /\ disk' = IF disk.phase = "idle"
                   THEN [phase |-> "busy", op |-> loc[t].op, hd |-> reg.hd,
                         lba |-> reg.lba, left |-> n]
                   ELSE disk
        /\ loc' = [loc EXCEPT ![t].left = sectors(register_count(loc[t].sec_op))]
        /\ Goto(t, IF loc[t].op = "write" THEN "poll" ELSE "down")
        /\ UNCHANGED << driver, reg, irq >>

\* Mutant: sec_done is not advanced.
op_done_stuck(t) ==
    \/ /\ loc[t].done + loc[t].sec_op < loc[t].cnt
       /\ Goto(t, "select")
       /\ UNCHANGED << identified, holder, loc >>
    \/ /\ loc[t].done + loc[t].sec_op >= loc[t].cnt
       /\ loc' = [loc EXCEPT ![t] = NoCall]
       /\ Goto(t, "idle")
       /\ holder' = NULL
       /\ identified' = IF loc[t].op = "identify" THEN identified + 1 ELSE identified

\* What comes after a command's last wait: the next command, or lock_release.
op_done(t) ==
    LET c == loc[t]
        done == c.done + c.sec_op
    IN  \/ /\ done < c.cnt
           /\ loc' = [loc EXCEPT ![t].done = done]
           /\ Goto(t, "select")
           /\ UNCHANGED << identified, holder >>
        \/ /\ done >= c.cnt
           /\ loc' = [loc EXCEPT ![t] = NoCall]
           /\ Goto(t, "idle")
           /\ holder' = NULL
           /\ identified' = IF c.op = "identify" THEN identified + 1 ELSE identified

\* Mutant: a write does not wait.
sem_down_reads(t) ==
    /\ pc[t] = "down"
    /\ \/ /\ disk_done_sem = 0 /\ loc[t].op # "write"
          /\ waiter' = t
          /\ Goto(t, "asleep")
          /\ UNCHANGED << identified, holder, disk_done_sem, loc >>
       \/ /\ disk_done_sem = 1 \/ loc[t].op = "write"
          /\ disk_done_sem' = 0
          /\ \/ loc[t].op # "write" /\ Goto(t, "poll") /\ UNCHANGED << identified, holder, loc >>
             \/ loc[t].op = "write" /\ op_done(t)
          /\ UNCHANGED waiter
    /\ UNCHANGED << expection_interrupt, device >>

\* sem_down(&disk_done_sem): a read goes on to its data, a write is through.
sem_down(t) ==
    /\ pc[t] = "down"
    /\ \/ /\ disk_done_sem = 0
          /\ waiter' = t
          /\ Goto(t, "asleep")
          /\ UNCHANGED << identified, holder, disk_done_sem, loc >>
       \/ /\ disk_done_sem = 1
          /\ disk_done_sem' = 0
          /\ \/ loc[t].op # "write" /\ Goto(t, "poll") /\ UNCHANGED << identified, holder, loc >>
             \/ loc[t].op = "write" /\ op_done(t)
          /\ UNCHANGED waiter
    /\ UNCHANGED << expection_interrupt, device >>

\* Mutant: the status is not tested.
busy_wait_blind(t) ==
    /\ pc[t] = "poll"
    /\ Goto(t, "data")
    /\ UNCHANGED << driver, device, loc >>

\* busy_wait: until the disk is not busy; `error' when it has no data then, or when
\* the polls run out (mtime_sleep between them does not wait).
busy_wait(t) ==
    /\ pc[t] = "poll"
    /\ \/ /\ disk.phase # "busy"
          /\ Goto(t, IF disk.phase = "data" THEN "data" ELSE "error")
       \/ /\ disk.phase = "busy" /\ traffic.slow
          /\ Goto(t, "error")
    /\ UNCHANGED << driver, device, loc >>

\* read_from_sector and write_to_sector, one sector of them.  The disk has the next
\* sector ready at once, with its interrupt; after a write's last one it is busy.
transfer(t) ==
    LET left == loc[t].left - 1
    IN  /\ pc[t] = "data"
        /\ disk' = IF disk.left > 1 THEN [disk EXCEPT !.left = @ - 1]
                   ELSE IF disk.op = "write" THEN [disk EXCEPT !.left = 0, !.phase = "busy"]
                   ELSE IdleDisk
        /\ irq' = (irq \/ disk.left > 1)
        /\ \/ /\ left > 0
              /\ loc' = [loc EXCEPT ![t].left = left]
              /\ UNCHANGED << pc, identified, holder >>
           \/ /\ left = 0 /\ loc[t].op = "write"
              /\ loc' = [loc EXCEPT ![t].left = 0]
              /\ Goto(t, "down")
              /\ UNCHANGED << identified, holder >>
           \/ left = 0 /\ loc[t].op # "write" /\ op_done(t)
        /\ UNCHANGED << expection_interrupt, disk_done_sem, waiter, reg >>

\* Mutant: expection_interrupt stays set.
intr_hd_handler_again ==
    /\ irq
    /\ irq' = FALSE
    /\ \/ expection_interrupt = 0 /\ UNCHANGED << disk_done_sem, waiter, pc >>
       \/ /\ expection_interrupt = 1
          /\ disk_done_sem' = disk_done_sem + 1
          /\ waiter' = NULL
          /\ pc' = IF waiter = NULL THEN pc ELSE [pc EXCEPT ![waiter] = "down"]
    /\ UNCHANGED << identified, holder, expection_interrupt, reg, disk, loc >>

\* intr_hd_handler: an interrupt nobody expects is ignored; sem_up wakes the waiter.
intr_hd_handler ==
    /\ irq
    /\ irq' = FALSE
    /\ \/ expection_interrupt = 0 /\ UNCHANGED << expection_interrupt, disk_done_sem, waiter, pc >>
       \/ /\ expection_interrupt = 1
          /\ expection_interrupt' = 0
          /\ disk_done_sem' = disk_done_sem + 1
          /\ waiter' = NULL
          /\ pc' = IF waiter = NULL THEN pc ELSE [pc EXCEPT ![waiter] = "down"]
    /\ UNCHANGED << identified, holder, reg, disk, loc >>

-----------------------------------------------------------------------------
(* The disk has finished being busy: it wants data, has data, or is through *)
(* with a write.                                                            *)
disk_ready ==
    /\ disk.phase = "busy"
    /\ disk' = IF disk.left > 0 THEN [disk EXCEPT !.phase = "data"] ELSE IdleDisk
    /\ irq' = (irq \/ disk.op # "write" \/ disk.left = 0)
    /\ UNCHANGED << driver, reg, pc, loc >>

\* exception_report after a failed busy_wait: interrupts off, an endless loop.
exception_report == \E t \in Threads : pc[t] = "error"

ThreadStep(t) ==
    /\ ~exception_report
    /\ \/ identify_disk(t)
       \/ select_sector(t) \/ cmd_out(t) \/ out_cmd(t)
       \/ sem_down(t) \/ busy_wait(t) \/ transfer(t)
    /\ UNCHANGED traffic

Call(t) ==
    /\ ~exception_report
    /\ \E op \in traffic.ops, hd \in 0 .. Disks - 1, n \in traffic.counts :
        ide_call(t, op, hd, n)
    /\ UNCHANGED traffic

Interrupt == ~exception_report /\ intr_hd_handler /\ UNCHANGED traffic

DiskStep == disk_ready /\ UNCHANGED traffic

Next ==
    \/ \E t \in Threads : ThreadStep(t) \/ Call(t)
    \/ Interrupt
    \/ DiskStep
    \/ exception_report /\ UNCHANGED vars

Spec == Init /\ [][Next]_vars

\* Threads in a call, the interrupt and the disk get their turn; nobody has to call.
FairSpec ==
    /\ Spec
    /\ \A t \in Threads : WF_vars(ThreadStep(t))
    /\ WF_vars(Interrupt)
    /\ WF_vars(DiskStep)

-----------------------------------------------------------------------------
(* Properties.                                                             *)

\* The ASSERTs of sem_up and sem_down: one interrupt counts per command, although
\* the disk raises one per sector and at any later time.
OneCredit == disk_done_sem \in {0, 1}

\* A thread that moves data moves the data it asked for: the disk is at this very
\* command, for this disk and sector, with as many sectors left as the thread still
\* counts, whoever used the channel before and however late an interrupt came.
OwnData ==
    \A t \in Threads :
        pc[t] = "data" =>
            /\ disk.phase = "data"
            /\ disk.op = loc[t].op /\ disk.hd = loc[t].hd
            /\ loc[t].op # "identify" => disk.lba = loc[t].done
            /\ disk.left = loc[t].left

\* busy_wait never fails on a disk that answers in time: whatever interrupts came
\* late, early or once too often, EXCEPTION_REPORT is only reached when the disk is
\* still busy after the last poll.  This is checked for writes of one sector; one of
\* several returns while the disk is at work, which is what DiskDone is about.
NoDiskError ==
    \A t \in Threads : pc[t] = "error" => traffic.slow /\ disk.phase # "idle"

\* Every call returns, also when its interrupt comes before it waits for it, or the
\* machine has reported a disk that was too slow.
CallReturns ==
    \A t \in Threads : pc[t] # "idle" ~> pc[t] = "idle" \/ exception_report

\* ide.c:106, `the thread blocks until the disk is done and says so by interrupt':
\* when a call has returned, its last command is done.
DiskDone ==
    (\A t \in Threads : pc[t] = "idle") => disk.phase = "idle"
=============================================================================
