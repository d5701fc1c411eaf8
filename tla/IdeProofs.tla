------------------------------ MODULE IdeProofs ------------------------------
(***************************************************************************)
(* What holds of the disk driver for any number of threads and disks, any  *)
(* sector counts and any size of a command.                                *)
(***************************************************************************)
EXTENDS Ide, TLAPS

Labels == {"idle", "select", "cmd", "out", "down", "asleep", "poll", "data", "error"}
Waiting == {"down", "asleep"}
Moving == {"poll", "data", "error"}
Ops == {"none", "identify", "read", "write"}
Locals == [op : Ops, hd : Nat, cnt : Nat, done : Nat, sec_op : Nat, left : Nat]
DiskStates == [phase : {"idle", "busy", "data"}, op : Ops, hd : Nat, lba : Nat, left : Nat]

TypeInv ==
    /\ traffic \in Traffics
    /\ identified \in Nat
    /\ holder \in Threads \cup {NULL}
    /\ expection_interrupt \in {0, 1}
    /\ disk_done_sem \in Nat
    /\ waiter \in Threads \cup {NULL}
    /\ reg \in [hd : Nat, lba : Nat, cnt : Nat]
    /\ disk \in DiskStates
    /\ irq \in BOOLEAN
    /\ pc \in [Threads -> Labels]
    /\ loc \in [Threads -> Locals]

\* One thread uses the channel: main while it identifies the disks, then the owner of
\* the lock.
Alone ==
    /\ \A t, u \in Threads : pc[t] # "idle" /\ pc[u] # "idle" => t = u
    /\ \A t \in Threads : pc[t] # "idle" =>
        /\ loc[t].op # "none" /\ loc[t].done < loc[t].cnt
        /\ loc[t].op # "identify" => holder = t /\ identified = Disks
        /\ loc[t].op = "identify" =>
            /\ t = Main /\ identified < Disks
            /\ pc[t] # "select" /\ loc[t].cnt = 1 /\ loc[t].sec_op = 1
    /\ identified <= Disks
    /\ \A t \in Threads : waiter = t <=> pc[t] = "asleep"

\* The thread has given its command, or is about to, and has not taken its credit.
Owed(t) ==
    \/ pc[t] \in {"out", "down", "asleep"}
    \/ pc[t] \in Moving /\ loc[t].op = "write"

\* A command is worth one credit: the flag stands for it, then the semaphore.
Credit ==
    /\ (\E t \in Threads : Owed(t)) => expection_interrupt + disk_done_sem = 1
    /\ (\A t \in Threads : ~Owed(t)) => expection_interrupt = 0 /\ disk_done_sem = 0
    /\ \A t \in Threads : pc[t] = "asleep" => disk_done_sem = 0

\* A disk with sectors to move moves them for the thread that waits for them; any
\* other is idle, or still busy with the end of a write.
Mine(t) ==
    /\ pc[t] \in Waiting \cup Moving
    /\ disk.op = loc[t].op /\ disk.hd = loc[t].hd
    /\ loc[t].op # "identify" => disk.lba = loc[t].done
    /\ disk.left = loc[t].left

Device ==
    /\ \A t \in Threads : pc[t] \in {"cmd", "out"} =>
        /\ reg.hd = loc[t].hd
        /\ loc[t].op # "identify" =>
            reg.lba = loc[t].done /\ reg.cnt = register_count(loc[t].sec_op)
    /\ disk.left > 0 => \E t \in Threads : Mine(t)
    /\ disk.phase = "idle" => disk.left = 0
    /\ disk.phase = "data" => disk.left > 0
    /\ \A t \in Threads : pc[t] = "data" => disk.phase = "data"
    /\ \A t \in Threads : pc[t] \in Waiting /\ loc[t].op = "write" => loc[t].left = 0

\* The inductive invariant.
IdeInv == TypeInv /\ Alone /\ Credit /\ Device

\* A call that writes does so with commands of one sector.
OneSectorWrites ==
    "write" \in traffic.ops => traffic.max_op = 1 \/ traffic.counts \subseteq {1}

\* The disk is through with a command before the next one is given, and not before
\* the thread has moved its data.
InStep ==
    /\ (\A t \in Threads : pc[t] \in {"idle", "select", "cmd", "out"}) => disk.phase = "idle"
    /\ \A t \in Threads :
        pc[t] \in Moving \/ (pc[t] \in Waiting /\ loc[t].op # "write") => disk.left > 0
    /\ \A t \in Threads : pc[t] = "error" => traffic.slow

\* With writes about, every command has one sector, ...
OneSector ==
    \A t \in Threads : pc[t] # "idle" =>
        /\ loc[t].op # "identify" =>
            loc[t].op \in traffic.ops /\ loc[t].cnt \in traffic.counts
        /\ "write" \in traffic.ops =>
            /\ pc[t] # "select" => loc[t].sec_op = 1
            /\ pc[t] \in Moving \/ (pc[t] \in Waiting /\ loc[t].op # "write") => loc[t].left = 1

\* ... and the disk's interrupt is about the command that waits for it.
Signal ==
    "write" \in traffic.ops =>
        /\ irq => \E t \in Threads :
            /\ pc[t] \in Waiting /\ expection_interrupt = 1
            /\ disk.phase = IF loc[t].op = "write" THEN "idle" ELSE "data"
        /\ \A t \in Threads : pc[t] = "out" => expection_interrupt = 1
        /\ \A t \in Threads : pc[t] \in Waiting =>
            IF loc[t].op = "write"
            THEN expection_interrupt = 0 => disk.phase = "idle"
            ELSE expection_interrupt = 0 => disk.phase = "data"
        /\ \A t \in Threads : pc[t] \in Moving =>
            IF loc[t].op = "write" THEN expection_interrupt = 1
            ELSE disk.phase = "data"

\* With such writes, driver and disk take turns.
Turn == OneSectorWrites /\ InStep /\ OneSector /\ Signal

-----------------------------------------------------------------------------

\* What the sector count register holds.
LEMMA SectorCount ==
    ASSUME TypeInv, NEW n \in Nat
    PROVE  /\ register_count(n) \in Nat
           /\ sectors(register_count(n)) \in Nat \ {0}
           /\ sectors(register_count(1)) = 1
<1>1. traffic.max_op \in Nat \ {0}
    BY IdeAssumption DEF TypeInv, Locals, DiskStates
<1>2. n % traffic.max_op \in Nat
    BY <1>1
<1>3. 1 % traffic.max_op = IF traffic.max_op = 1 THEN 0 ELSE 1
    BY <1>1
<1>4. QED
    BY <1>1, <1>2, <1>3 DEF register_count, sectors

\* identify_disk keeps the invariant.
LEMMA IdentifyDiskInv ==
    ASSUME IdeInv, UNCHANGED traffic, NEW t \in Threads, identify_disk(t)
    PROVE  IdeInv'
<1> USE IdeAssumption DEF identify_disk, Goto, NoCall, IdleDisk, driver, device
<1>1. TypeInv'
    BY DEF IdeInv, TypeInv, Locals, DiskStates, Labels, Waiting, Moving, Ops, Alone
<1>2. Alone'
    BY DEF IdeInv, TypeInv, Locals, DiskStates, Labels, Waiting, Moving, Ops, Alone
<1>3. Credit'
    BY DEF IdeInv, TypeInv, Locals, DiskStates, Labels, Waiting, Moving, Ops, Alone,
           Credit, Owed
<1>4. Device'
    BY DEF IdeInv, TypeInv, Locals, DiskStates, Labels, Waiting, Moving, Ops, Alone,
           Device, Mine,
           register_count, sectors
<1>5. QED
    BY <1>1, <1>2, <1>3, <1>4 DEF IdeInv

\* The first steps of ide_read and ide_write keep the invariant.
LEMMA IdeCallInv ==
    ASSUME IdeInv, UNCHANGED traffic, NEW t \in Threads,
           NEW op \in traffic.ops, NEW hd \in 0 .. Disks - 1, NEW n \in traffic.counts,
           ide_call(t, op, hd, n)
    PROVE  IdeInv'
<1> USE IdeAssumption DEF ide_call, Goto, NoCall, IdleDisk, driver, device
<1>0. op \in Ops \ {"none"} /\ hd \in Nat /\ n \in Nat \ {0}
    BY DEF IdeInv, TypeInv, Locals, DiskStates, Ops
<1>1. TypeInv'
    BY <1>0 DEF IdeInv, TypeInv, Locals, DiskStates, Labels
<1>2. Alone'
    BY DEF IdeInv, TypeInv, Locals, DiskStates, Labels, Waiting, Moving, Ops, Alone
<1>3. Credit'
    BY DEF IdeInv, TypeInv, Locals, DiskStates, Labels, Waiting, Moving, Ops, Alone,
           Credit, Owed
<1>4. Device'
    BY DEF IdeInv, TypeInv, Locals, DiskStates, Labels, Waiting, Moving, Ops, Alone,
           Device, Mine,
           register_count, sectors
<1>5. QED
    BY <1>1, <1>2, <1>3, <1>4 DEF IdeInv

\* select_sector keeps the invariant.
LEMMA SelectSectorInv ==
    ASSUME IdeInv, UNCHANGED traffic, NEW t \in Threads, select_sector(t)
    PROVE  IdeInv'
<1> USE IdeAssumption DEF select_sector, register_count, Goto, NoCall, IdleDisk, driver, device
<1>1. TypeInv'
    BY DEF IdeInv, TypeInv, Locals, DiskStates, Labels, Waiting, Moving, Ops, Alone
<1>2. Alone'
    BY DEF IdeInv, TypeInv, Locals, DiskStates, Labels, Waiting, Moving, Ops, Alone
<1>3. Credit'
    BY DEF IdeInv, TypeInv, Locals, DiskStates, Labels, Waiting, Moving, Ops, Alone,
           Credit, Owed
<1>4. Device'
  <2>1. pc' = [pc EXCEPT ![t] = "cmd"] /\ pc[t] = "select" /\ pc \in [Threads -> Labels]
    BY DEF IdeInv, TypeInv, Locals, DiskStates
  <2>2. \A u \in Threads : u # t => pc[u] = "idle"
    BY DEF IdeInv, Alone
  <2>3. ~ \E u \in Threads : Mine(u)
    BY <2>1, <2>2 DEF Mine, Waiting, Moving
  <2>4. disk.left = 0 /\ disk.phase # "data"
    BY <2>3 DEF IdeInv, TypeInv, Locals, DiskStates, Device
  <2>5. loc'[t].hd = loc[t].hd /\ loc'[t].op = loc[t].op /\ loc'[t].done = loc[t].done
        /\ reg' = [hd |-> loc[t].hd, lba |-> loc[t].done,
                   cnt |-> register_count(loc'[t].sec_op)]
    BY DEF IdeInv, TypeInv, Locals, DiskStates
  <2>6. loc[t].op # "identify"
    BY DEF IdeInv, Alone
  <2>7. QED
    BY <2>1, <2>2, <2>4, <2>5, <2>6 DEF Device, register_count, Waiting
<1>5. QED
    BY <1>1, <1>2, <1>3, <1>4 DEF IdeInv

\* cmd_out keeps the invariant.
LEMMA CmdOutInv ==
    ASSUME IdeInv, UNCHANGED traffic, NEW t \in Threads, cmd_out(t)
    PROVE  IdeInv'
<1> USE IdeAssumption DEF cmd_out, Goto, NoCall, IdleDisk, driver, device
<1>1. TypeInv'
    BY DEF IdeInv, TypeInv, Locals, DiskStates, Labels, Waiting, Moving, Ops, Alone
<1>2. Alone'
    BY DEF IdeInv, TypeInv, Locals, DiskStates, Labels, Waiting, Moving, Ops, Alone
<1>3. Credit'
    BY DEF IdeInv, TypeInv, Locals, DiskStates, Labels, Waiting, Moving, Ops, Alone,
           Credit, Owed
<1>4. Device'
    BY DEF IdeInv, TypeInv, Locals, DiskStates, Labels, Waiting, Moving, Ops, Alone,
           Device, Mine,
           register_count, sectors
<1>5. QED
    BY <1>1, <1>2, <1>3, <1>4 DEF IdeInv

\* The command byte keeps the invariant.
LEMMA OutCmdInv ==
    ASSUME IdeInv, UNCHANGED traffic, NEW t \in Threads, out_cmd(t)
    PROVE  IdeInv'
<1> USE IdeAssumption DEF out_cmd, Goto, NoCall, IdleDisk, driver, device
<1> DEFINE m == sectors(register_count(loc[t].sec_op))
           n == IF loc[t].op = "identify" THEN 1 ELSE sectors(reg.cnt)
<1>0. pc[t] = "out" /\ loc[t].op \in Ops /\ reg.hd \in Nat /\ reg.lba \in Nat
    BY DEF IdeInv, TypeInv, Locals, DiskStates
<1>n. m \in Nat \ {0} /\ n = m
  <2>1. loc[t].sec_op \in Nat
    BY DEF IdeInv, TypeInv, Locals, DiskStates
  <2>2. CASE loc[t].op = "identify"
    BY <2>1, <2>2, SectorCount DEF IdeInv, Alone
  <2>3. CASE loc[t].op # "identify"
    BY <2>1, <2>3, SectorCount DEF IdeInv, Device
  <2>4. QED
    BY <2>2, <2>3
<1>1. TypeInv'
  <2>1. loc' = [loc EXCEPT ![t].left = m]
    OBVIOUS
  <2>2. loc' \in [Threads -> Locals]
    BY <2>1, <1>n DEF IdeInv, TypeInv, Locals, DiskStates
  <2>3. disk' \in DiskStates
    BY <1>n, <1>0 DEF IdeInv, TypeInv, Locals, DiskStates
  <2>4. QED
    BY <2>2, <2>3 DEF IdeInv, TypeInv, Locals, DiskStates, Labels
<1>2. Alone'
    BY DEF IdeInv, TypeInv, Locals, DiskStates, Labels, Waiting, Moving, Ops, Alone
<1>3. Credit'
    BY DEF IdeInv, TypeInv, Locals, DiskStates, Labels, Waiting, Moving, Ops, Alone,
           Credit, Owed
<1>4. Device'
  <2>1. \A u \in Threads : u # t => pc[u] = "idle"
    BY <1>0 DEF IdeInv, Alone
  <2>2. disk.left = 0
    BY <1>0, <2>1 DEF IdeInv, TypeInv, Locals, DiskStates, Device, Mine, Waiting, Moving
  <2>3. disk' = IF disk.phase = "idle"
                THEN [phase |-> "busy", op |-> loc[t].op, hd |-> reg.hd,
                      lba |-> reg.lba, left |-> n]
                ELSE disk
    OBVIOUS
  <2>4. pc'[t] \in {"down", "poll"} /\ \A u \in Threads : u # t => pc'[u] = "idle"
    BY <1>0, <2>1 DEF IdeInv, TypeInv, Locals, DiskStates, Waiting, Moving
  <2>5. loc'[t] = [loc[t] EXCEPT !.left = m]
    BY DEF IdeInv, TypeInv, Locals, DiskStates
  <2>6. CASE disk.phase = "idle"
    <3>1. Mine(t)'
      BY <1>0, <1>n, <2>3, <2>4, <2>5, <2>6
      DEF IdeInv, TypeInv, Device, Mine, Waiting, Moving
    <3>2. QED
      BY <3>1, <2>3, <2>4, <2>6, <1>n DEF Device, Waiting, Moving
  <2>7. CASE disk.phase # "idle"
    BY <2>2, <2>3, <2>4, <2>7 DEF IdeInv, Device, Waiting, Moving
  <2>8. QED
    BY <2>6, <2>7
<1>5. QED
    BY <1>1, <1>2, <1>3, <1>4 DEF IdeInv

\* sem_down keeps the invariant.
LEMMA SemDownInv ==
    ASSUME IdeInv, UNCHANGED traffic, NEW t \in Threads, sem_down(t)
    PROVE  IdeInv'
<1> USE IdeAssumption DEF sem_down, op_done, Goto, NoCall, IdleDisk, driver, device
<1>1. TypeInv'
    BY DEF IdeInv, TypeInv, Locals, DiskStates, Labels, Waiting, Moving, Ops, Alone
<1>2. Alone'
    BY DEF IdeInv, TypeInv, Locals, DiskStates, Labels, Waiting, Moving, Ops, Alone
<1>3. Credit'
    BY DEF IdeInv, TypeInv, Locals, DiskStates, Labels, Waiting, Moving, Ops, Alone,
           Credit, Owed
<1>4. Device'
  <2>1. pc[t] = "down" /\ UNCHANGED << reg, disk >> /\ \A u \in Threads : u # t => pc[u] = "idle"
    BY DEF IdeInv, Alone
  <2>2. \A u \in Threads : u # t => pc'[u] = "idle"
    BY <2>1 DEF IdeInv, TypeInv, Locals, DiskStates
  <2>3. CASE loc' = loc /\ pc'[t] \in {"asleep", "poll"}
    <3>1. Mine(t) => Mine(t)'
      BY <2>1, <2>3 DEF Mine, Waiting, Moving
    <3>2. QED
      BY <3>1, <2>1, <2>2, <2>3 DEF IdeInv, Device, Mine, Waiting, Moving
  <2>4. CASE loc[t].op = "write" /\ pc'[t] \in {"select", "idle"}
    <3>1. disk.left = 0
      BY <2>1, <2>4 DEF IdeInv, TypeInv, Locals, DiskStates, Device, Mine, Waiting, Moving
    <3>2. QED
      BY <3>1, <2>1, <2>2, <2>4 DEF IdeInv, Device, Waiting
  <2>5. QED
    BY <2>1, <2>3, <2>4 DEF IdeInv, TypeInv, Locals, DiskStates
<1>5. QED
    BY <1>1, <1>2, <1>3, <1>4 DEF IdeInv

\* busy_wait keeps the invariant.
LEMMA BusyWaitInv ==
    ASSUME IdeInv, UNCHANGED traffic, NEW t \in Threads, busy_wait(t)
    PROVE  IdeInv'
<1> USE IdeAssumption DEF busy_wait, Goto, NoCall, IdleDisk, driver, device
<1>1. TypeInv'
    BY DEF IdeInv, TypeInv, Locals, DiskStates, Labels, Waiting, Moving, Ops, Alone
<1>2. Alone'
    BY DEF IdeInv, TypeInv, Locals, DiskStates, Labels, Waiting, Moving, Ops, Alone
<1>3. Credit'
    BY DEF IdeInv, TypeInv, Locals, DiskStates, Labels, Waiting, Moving, Ops, Alone,
           Credit, Owed
<1>4. Device'
    BY DEF IdeInv, TypeInv, Locals, DiskStates, Labels, Waiting, Moving, Ops, Alone,
           Device, Mine,
           register_count, sectors
<1>5. QED
    BY <1>1, <1>2, <1>3, <1>4 DEF IdeInv

\* A sector's transfer keeps the invariant.
LEMMA TransferInv ==
    ASSUME IdeInv, UNCHANGED traffic, NEW t \in Threads, transfer(t)
    PROVE  IdeInv'
<1> USE IdeAssumption DEF op_done, Goto, NoCall, IdleDisk, driver, device
<1>0. /\ pc[t] = "data" /\ \A u \in Threads : u # t => pc[u] = "idle"
      /\ loc[t].left \in Nat /\ disk.phase = "data" /\ disk.left > 0
      /\ UNCHANGED << reg, expection_interrupt, disk_done_sem, waiter >>
    BY DEF transfer, IdeInv, TypeInv, Locals, DiskStates, Alone, Device
<1>m. Mine(t)
    BY <1>0 DEF IdeInv, Device, Mine, Waiting, Moving
<1>d. disk' = IF disk.left > 1 THEN [disk EXCEPT !.left = @ - 1]
              ELSE IF disk.op = "write" THEN [disk EXCEPT !.left = 0, !.phase = "busy"]
              ELSE IdleDisk
    BY DEF transfer
<1>c. \/ /\ loc[t].left > 1 /\ loc' = [loc EXCEPT ![t].left = loc[t].left - 1]
         /\ UNCHANGED << pc, identified, holder >>
      \/ /\ loc[t].left = 1 /\ loc[t].op = "write" /\ loc' = [loc EXCEPT ![t].left = 0]
         /\ pc' = [pc EXCEPT ![t] = "down"] /\ UNCHANGED << identified, holder >>
      \/ loc[t].left = 1 /\ loc[t].op # "write" /\ op_done(t)
    BY <1>0 DEF transfer
<1>i. irq' \in BOOLEAN
    BY DEF transfer
<1>1. TypeInv'
  <2>1. disk' \in DiskStates
    <3>1. disk \in DiskStates
      BY DEF IdeInv, TypeInv, Locals, DiskStates
    <3>2. IdleDisk \in DiskStates
      BY DEF Ops, DiskStates
    <3>3. CASE disk.left > 1
      BY <1>d, <3>1, <3>3 DEF DiskStates
    <3>4. CASE ~(disk.left > 1)
      BY <1>d, <3>1, <3>2, <3>4 DEF DiskStates
    <3>5. QED
      BY <3>3, <3>4
  <2>2. loc' \in [Threads -> Locals]
    BY <1>c, <1>0 DEF IdeInv, TypeInv, Locals, DiskStates, Ops
  <2>3. pc' \in [Threads -> Labels] /\ identified' \in Nat /\ holder' \in Threads \cup {NULL}
    BY <1>c DEF IdeInv, TypeInv, Locals, DiskStates, Labels
  <2>4. QED
    BY <1>0, <1>i, <2>1, <2>2, <2>3 DEF IdeInv, TypeInv, Locals, DiskStates
<1>2. Alone'
    BY <1>c, <1>0 DEF IdeInv, TypeInv, Locals, DiskStates, Alone
<1>3. Credit'
    BY <1>c, <1>0 DEF IdeInv, TypeInv, Locals, DiskStates, Credit, Owed, Waiting, Moving
<1>4. Device'
  <2>1. CASE loc[t].left > 1
    <3>1. disk' = [disk EXCEPT !.left = disk.left - 1] /\ pc' = pc
          /\ loc' = [loc EXCEPT ![t].left = loc[t].left - 1]
      BY <1>c, <1>d, <1>m, <2>1 DEF Mine
    <3>2. Mine(t)'
      BY <3>1, <1>m DEF Mine, IdeInv, TypeInv, Locals, DiskStates
    <3>3. QED
      BY <3>1, <3>2, <2>1, <1>0, <1>m DEF Device, Mine, IdeInv, TypeInv, Locals,
             DiskStates, Waiting
  <2>2. CASE loc[t].left = 1 /\ loc[t].op = "write"
    BY <1>0, <1>c, <1>d, <1>m, <2>2 DEF Device, Mine, IdeInv, TypeInv, Locals,
           DiskStates, Waiting
  <2>3. CASE loc[t].left = 1 /\ loc[t].op # "write"
    <3>1. disk' = IdleDisk /\ op_done(t)
      BY <1>0, <1>c, <1>d, <1>m, <2>3 DEF Mine
    <3>2. \A u \in Threads : pc'[u] \in {"idle", "select"}
      BY <3>1, <1>0 DEF IdeInv, TypeInv, Locals, DiskStates
    <3>3. QED
      BY <3>1, <3>2 DEF Device, Waiting
  <2>4. QED
    BY <1>0, <1>c, <2>1, <2>2, <2>3
<1>5. QED
    BY <1>1, <1>2, <1>3, <1>4 DEF IdeInv

\* intr_hd_handler keeps the invariant.
LEMMA IntrHdHandlerInv ==
    ASSUME IdeInv, UNCHANGED traffic, intr_hd_handler
    PROVE  IdeInv'
<1> USE IdeAssumption DEF intr_hd_handler, Goto, NoCall, IdleDisk, driver, device
<1>0. irq' \in BOOLEAN
    OBVIOUS
<1>1. TypeInv'
    BY <1>0 DEF IdeInv, TypeInv, Locals, DiskStates, Labels, Waiting, Moving, Ops, Alone
<1>2. Alone'
    BY DEF IdeInv, TypeInv, Locals, DiskStates, Labels, Waiting, Moving, Ops, Alone
<1>3. Credit'
    BY DEF IdeInv, TypeInv, Locals, DiskStates, Labels, Waiting, Moving, Ops, Alone,
           Credit, Owed
<1>4. Device'
    BY DEF IdeInv, TypeInv, Locals, DiskStates, Labels, Waiting, Moving, Ops, Alone,
           Device, Mine,
           register_count, sectors
<1>5. QED
    BY <1>1, <1>2, <1>3, <1>4 DEF IdeInv

\* The disk keeps the invariant.
LEMMA DiskReadyInv ==
    ASSUME IdeInv, UNCHANGED traffic, disk_ready
    PROVE  IdeInv'
<1> USE IdeAssumption DEF disk_ready, Goto, NoCall, IdleDisk, driver, device
<1>1. TypeInv'
    BY DEF IdeInv, TypeInv, Locals, DiskStates, Labels, Waiting, Moving, Ops, Alone
<1>2. Alone'
    BY DEF IdeInv, TypeInv, Locals, DiskStates, Labels, Waiting, Moving, Ops, Alone
<1>3. Credit'
    BY DEF IdeInv, TypeInv, Locals, DiskStates, Labels, Waiting, Moving, Ops, Alone,
           Credit, Owed
<1>4. Device'
    BY DEF IdeInv, TypeInv, Locals, DiskStates, Labels, Waiting, Moving, Ops, Alone,
           Device, Mine,
           register_count, sectors
<1>5. QED
    BY <1>1, <1>2, <1>3, <1>4 DEF IdeInv

\* One thread at a time uses the channel, a command is worth one credit, and a disk
\* with sectors to move moves them for the thread that gave the command.
THEOREM Invariance == Spec => []IdeInv
<1>1. Init => IdeInv
  <2> SUFFICES ASSUME Init PROVE IdeInv
    OBVIOUS
  <2>1. TypeInv
    BY IdeAssumption DEF Init, TypeInv, Locals, DiskStates, NoCall, IdleDisk, Labels, Ops
  <2>2. Alone /\ Credit /\ Device
    BY IdeAssumption DEF Init, IdleDisk, Alone, Credit, Owed, Device, Waiting, Moving
  <2>3. QED
    BY <2>1, <2>2 DEF IdeInv
<1>2. IdeInv /\ [Next]_vars => IdeInv'
  <2> SUFFICES ASSUME IdeInv, [Next]_vars PROVE IdeInv'
    OBVIOUS
  <2>1. CASE UNCHANGED vars
    BY <2>1 DEF vars, driver, device, IdeInv, TypeInv, Locals, DiskStates, Alone,
           Credit, Owed, Device,
           Mine, register_count
  <2>2. ASSUME NEW t \in Threads, ThreadStep(t) PROVE IdeInv'
    BY <2>2, IdentifyDiskInv, SelectSectorInv, CmdOutInv, OutCmdInv, SemDownInv,
           BusyWaitInv, TransferInv
    DEF ThreadStep
  <2>3. ASSUME NEW t \in Threads, Call(t) PROVE IdeInv'
    BY <2>3, IdeCallInv DEF Call
  <2>4. CASE Interrupt
    BY <2>4, IntrHdHandlerInv DEF Interrupt
  <2>5. CASE DiskStep
    BY <2>5, DiskReadyInv DEF DiskStep
  <2>6. QED
    BY <2>1, <2>2, <2>3, <2>4, <2>5 DEF Next
<1>3. QED
    BY <1>1, <1>2, PTL DEF Spec

\* intr_hd_handler and sem_down between them keep disk_done_sem at 0 or 1, with any
\* number of threads and of sectors per command.
THEOREM OneCreditSafe == Spec => []OneCredit
<1>1. IdeInv => OneCredit
    BY DEF IdeInv, TypeInv, Locals, DiskStates, Credit, OneCredit
<1>2. QED
    BY <1>1, Invariance, PTL

\* Whatever was read or written before, read_from_sector and write_to_sector move the
\* data of their own thread's command.
THEOREM OwnDataSafe == Spec => []OwnData
<1>1. ASSUME IdeInv, NEW t \in Threads, pc[t] = "data"
      PROVE  disk.phase = "data" /\ Mine(t)
    BY <1>1 DEF IdeInv, TypeInv, Locals, DiskStates, Alone, Device, Mine, Waiting, Moving
<1>2. IdeInv => OwnData
    BY <1>1 DEF OwnData, Mine
<1>3. QED
    BY <1>2, Invariance, PTL
-----------------------------------------------------------------------------

\* identify_disk keeps the turns.
LEMMA IdentifyDiskTurn ==
    ASSUME IdeInv, Turn, UNCHANGED traffic, NEW t \in Threads, identify_disk(t)
    PROVE  Turn'
<1> USE IdeAssumption DEF identify_disk, Goto, NoCall, IdleDisk, driver, device
<1>1. InStep'
    BY DEF Turn, InStep, Signal, OneSector, OneSectorWrites, IdeInv, TypeInv, Locals,
           DiskStates, Alone,
           Credit, Owed, Device, Mine, Labels, Waiting, Moving, Ops
<1>2. OneSector'
    BY DEF Turn, OneSector, OneSectorWrites, IdeInv, TypeInv, Locals, DiskStates, Alone,
           Labels, Ops,
           Waiting, Moving
<1>3. Signal'
    BY DEF Turn, InStep, Signal, OneSector, OneSectorWrites, IdeInv, TypeInv, Locals,
           DiskStates, Alone,
           Credit, Owed, Device, Mine, Labels, Waiting, Moving, Ops
<1>4. QED
    BY <1>1, <1>2, <1>3 DEF Turn, OneSectorWrites

\* The first steps of ide_read and ide_write keep the turns.
LEMMA IdeCallTurn ==
    ASSUME IdeInv, Turn, UNCHANGED traffic, NEW t \in Threads,
           NEW op \in traffic.ops, NEW hd \in 0 .. Disks - 1, NEW n \in traffic.counts,
           ide_call(t, op, hd, n)
    PROVE  Turn'
<1> USE IdeAssumption DEF ide_call, Goto, NoCall, IdleDisk, driver, device
<1>1. InStep'
    BY DEF Turn, InStep, Signal, OneSector, OneSectorWrites, IdeInv, TypeInv, Locals,
           DiskStates, Alone,
           Credit, Owed, Device, Mine, Labels, Waiting, Moving, Ops
<1>2. OneSector'
    BY DEF Turn, OneSector, OneSectorWrites, IdeInv, TypeInv, Locals, DiskStates, Alone,
           Labels, Ops,
           Waiting, Moving
<1>3. Signal'
    BY DEF Turn, InStep, Signal, OneSector, OneSectorWrites, IdeInv, TypeInv, Locals,
           DiskStates, Alone,
           Credit, Owed, Device, Mine, Labels, Waiting, Moving, Ops
<1>4. QED
    BY <1>1, <1>2, <1>3 DEF Turn, OneSectorWrites

\* select_sector keeps the turns.
LEMMA SelectSectorTurn ==
    ASSUME IdeInv, Turn, UNCHANGED traffic, NEW t \in Threads, select_sector(t)
    PROVE  Turn'
<1> USE IdeAssumption DEF select_sector, Goto, NoCall, IdleDisk, driver, device
<1>1. InStep'
    BY DEF Turn, InStep, Signal, OneSector, OneSectorWrites, IdeInv, TypeInv, Locals,
           DiskStates, Alone,
           Credit, Owed, Device, Mine, Labels, Waiting, Moving, Ops
<1>2. OneSector'
  <2>1. loc[t].op # "identify" /\ loc[t].done < loc[t].cnt
    BY DEF IdeInv, Alone
  <2>2. loc[t].cnt \in traffic.counts /\ loc[t].cnt \in Nat /\ loc[t].done \in Nat
    BY <2>1 DEF IdeInv, TypeInv, Locals, DiskStates, Turn, OneSector
  <2>3. traffic.max_op \in Nat \ {0}
    BY DEF IdeInv, TypeInv, Locals, DiskStates
  <2>4. "write" \in traffic.ops => traffic.max_op = 1 \/ loc[t].cnt = 1
    BY <2>2 DEF Turn, OneSectorWrites
  <2>s. loc'[t].sec_op = IF loc[t].cnt - loc[t].done >= traffic.max_op THEN traffic.max_op
                         ELSE loc[t].cnt - loc[t].done
    BY DEF IdeInv, TypeInv, Locals, DiskStates
  <2>5. "write" \in traffic.ops => loc'[t].sec_op = 1
    BY ONLY <2>1, <2>2, <2>3, <2>4, <2>s
  <2>6. QED
    BY <2>5 DEF Turn, OneSector, IdeInv, TypeInv, Locals, DiskStates, Alone, Waiting, Moving
<1>3. Signal'
    BY DEF Turn, InStep, Signal, OneSector, OneSectorWrites, IdeInv, TypeInv, Locals,
           DiskStates, Alone,
           Credit, Owed, Device, Mine, Labels, Waiting, Moving, Ops
<1>4. QED
    BY <1>1, <1>2, <1>3 DEF Turn, OneSectorWrites

\* cmd_out keeps the turns.
LEMMA CmdOutTurn ==
    ASSUME IdeInv, Turn, UNCHANGED traffic, NEW t \in Threads, cmd_out(t)
    PROVE  Turn'
<1> USE IdeAssumption DEF cmd_out, Goto, NoCall, IdleDisk, driver, device
<1>1. InStep'
    BY DEF Turn, InStep, Signal, OneSector, OneSectorWrites, IdeInv, TypeInv, Locals,
           DiskStates, Alone,
           Credit, Owed, Device, Mine, Labels, Waiting, Moving, Ops
<1>2. OneSector'
    BY DEF Turn, OneSector, OneSectorWrites, IdeInv, TypeInv, Locals, DiskStates, Alone,
           Labels, Ops,
           Waiting, Moving
<1>3. Signal'
    BY DEF Turn, InStep, Signal, OneSector, OneSectorWrites, IdeInv, TypeInv, Locals,
           DiskStates, Alone,
           Credit, Owed, Device, Mine, Labels, Waiting, Moving, Ops
<1>4. QED
    BY <1>1, <1>2, <1>3 DEF Turn, OneSectorWrites

\* The command byte keeps the turns.
LEMMA OutCmdTurn ==
    ASSUME IdeInv, Turn, UNCHANGED traffic, NEW t \in Threads, out_cmd(t)
    PROVE  Turn'
<1> USE IdeAssumption DEF out_cmd, Goto, NoCall, IdleDisk, driver, device
<1>0. /\ pc[t] = "out" /\ \A u \in Threads : u # t => pc[u] = "idle"
      /\ pc'[t] = IF loc[t].op = "write" THEN "poll" ELSE "down"
      /\ \A u \in Threads : u # t => pc'[u] = "idle"
    BY DEF IdeInv, TypeInv, Locals, DiskStates, Alone
<1>1. InStep'
  <2>1. disk.phase = "idle"
    BY <1>0 DEF Turn, InStep
  <2>2. (IF loc[t].op = "identify" THEN 1 ELSE sectors(reg.cnt)) \in Nat \ {0}
    BY <1>0, SectorCount DEF IdeInv, TypeInv, Locals, DiskStates, Device
  <2>3. disk'.left > 0
    BY <2>1, <2>2
  <2>4. QED
    BY <1>0, <2>3 DEF InStep, Turn, Waiting, Moving
<1>2. OneSector'
  <2>1. "write" \in traffic.ops => loc[t].sec_op = 1
    BY <1>0 DEF Turn, OneSector
  <2>2. "write" \in traffic.ops => loc'[t].left = 1
    BY <2>1, SectorCount DEF IdeInv, TypeInv, Locals, DiskStates
  <2>3. QED
    BY <1>0, <2>2 DEF Turn, OneSector, IdeInv, TypeInv, Locals, DiskStates
<1>3. Signal'
    BY DEF Turn, InStep, Signal, OneSector, OneSectorWrites, IdeInv, TypeInv, Locals,
           DiskStates, Alone,
           Credit, Owed, Device, Mine, Labels, Waiting, Moving, Ops
<1>4. QED
    BY <1>1, <1>2, <1>3 DEF Turn, OneSectorWrites

\* sem_down keeps the turns.
LEMMA SemDownTurn ==
    ASSUME IdeInv, Turn, UNCHANGED traffic, NEW t \in Threads, sem_down(t)
    PROVE  Turn'
<1> USE IdeAssumption DEF sem_down, op_done, Goto, NoCall, IdleDisk, driver, device
<1>1. InStep'
  <2>1. /\ pc[t] = "down" /\ UNCHANGED disk /\ \A u \in Threads : u # t => pc[u] = "idle"
        /\ \A u \in Threads : u # t => pc'[u] = "idle"
    BY DEF IdeInv, TypeInv, Locals, DiskStates, Alone
  <2>2. CASE loc' = loc /\ pc'[t] \in {"asleep", "poll"} /\ (loc[t].op = "write" => pc'[t] # "poll")
    BY <2>1, <2>2 DEF Turn, InStep, Waiting, Moving
  <2>3. CASE loc[t].op = "write" /\ disk_done_sem = 1 /\ pc'[t] \in {"select", "idle"}
    <3>1. expection_interrupt = 0
      BY <2>1, <2>3 DEF IdeInv, TypeInv, Locals, DiskStates, Credit, Owed
    <3>2. "write" \in traffic.ops
      BY <2>1, <2>3 DEF Turn, OneSector
    <3>3. disk.phase = "idle"
      BY <2>1, <2>3, <3>1, <3>2 DEF Turn, Signal, Waiting
    <3>4. QED
      BY <2>1, <2>3, <3>3 DEF InStep, Waiting, Moving
  <2>4. QED
    BY <2>1, <2>2, <2>3 DEF IdeInv, TypeInv, Locals, DiskStates
<1>2. OneSector'
    BY DEF Turn, OneSector, OneSectorWrites, IdeInv, TypeInv, Locals, DiskStates, Alone,
           Labels, Ops,
           Waiting, Moving
<1>3. Signal'
    BY DEF Turn, InStep, Signal, OneSector, OneSectorWrites, IdeInv, TypeInv, Locals,
           DiskStates, Alone,
           Credit, Owed, Device, Mine, Labels, Waiting, Moving, Ops
<1>4. QED
    BY <1>1, <1>2, <1>3 DEF Turn, OneSectorWrites

\* busy_wait keeps the turns.
LEMMA BusyWaitTurn ==
    ASSUME IdeInv, Turn, UNCHANGED traffic, NEW t \in Threads, busy_wait(t)
    PROVE  Turn'
<1> USE IdeAssumption DEF busy_wait, Goto, NoCall, IdleDisk, driver, device
<1>1. InStep'
    BY DEF Turn, InStep, Signal, OneSector, OneSectorWrites, IdeInv, TypeInv, Locals,
           DiskStates, Alone,
           Credit, Owed, Device, Mine, Labels, Waiting, Moving, Ops
<1>2. OneSector'
    BY DEF Turn, OneSector, OneSectorWrites, IdeInv, TypeInv, Locals, DiskStates, Alone,
           Labels, Ops,
           Waiting, Moving
<1>3. Signal'
    BY DEF Turn, InStep, Signal, OneSector, OneSectorWrites, IdeInv, TypeInv, Locals,
           DiskStates, Alone,
           Credit, Owed, Device, Mine, Labels, Waiting, Moving, Ops
<1>4. QED
    BY <1>1, <1>2, <1>3 DEF Turn, OneSectorWrites

\* A sector's transfer keeps the turns.
LEMMA TransferTurn ==
    ASSUME IdeInv, Turn, UNCHANGED traffic, NEW t \in Threads, transfer(t)
    PROVE  Turn'
<1> USE IdeAssumption DEF transfer, op_done, Goto, NoCall, IdleDisk, driver, device
<1>1. InStep'
    BY DEF Turn, InStep, Signal, OneSector, OneSectorWrites, IdeInv, TypeInv, Locals,
           DiskStates, Alone,
           Credit, Owed, Device, Mine, Labels, Waiting, Moving, Ops
<1>2. OneSector'
    BY DEF Turn, OneSector, OneSectorWrites, IdeInv, TypeInv, Locals, DiskStates, Alone,
           Labels, Ops,
           Waiting, Moving
<1>3. Signal'
    BY DEF Turn, InStep, Signal, OneSector, OneSectorWrites, IdeInv, TypeInv, Locals,
           DiskStates, Alone,
           Credit, Owed, Device, Mine, Labels, Waiting, Moving, Ops
<1>4. QED
    BY <1>1, <1>2, <1>3 DEF Turn, OneSectorWrites

\* intr_hd_handler keeps the turns.
LEMMA IntrHdHandlerTurn ==
    ASSUME IdeInv, Turn, UNCHANGED traffic, intr_hd_handler
    PROVE  Turn'
<1> USE IdeAssumption DEF intr_hd_handler, Goto, NoCall, IdleDisk, driver, device
<1>1. InStep'
    BY DEF Turn, InStep, Signal, OneSector, OneSectorWrites, IdeInv, TypeInv, Locals,
           DiskStates, Alone,
           Credit, Owed, Device, Mine, Labels, Waiting, Moving, Ops
<1>2. OneSector'
    BY DEF Turn, OneSector, OneSectorWrites, IdeInv, TypeInv, Locals, DiskStates, Alone,
           Labels, Ops,
           Waiting, Moving
<1>3. Signal'
    BY DEF Turn, InStep, Signal, OneSector, OneSectorWrites, IdeInv, TypeInv, Locals,
           DiskStates, Alone,
           Credit, Owed, Device, Mine, Labels, Waiting, Moving, Ops
<1>4. QED
    BY <1>1, <1>2, <1>3 DEF Turn, OneSectorWrites

\* The disk keeps the turns.
LEMMA DiskReadyTurn ==
    ASSUME IdeInv, Turn, UNCHANGED traffic, disk_ready
    PROVE  Turn'
<1> USE IdeAssumption DEF disk_ready, Goto, NoCall, IdleDisk, driver, device
<1>1. InStep'
    BY DEF Turn, InStep, Signal, OneSector, OneSectorWrites, IdeInv, TypeInv, Locals,
           DiskStates, Alone,
           Credit, Owed, Device, Mine, Labels, Waiting, Moving, Ops
<1>2. OneSector'
    BY DEF Turn, OneSector, OneSectorWrites, IdeInv, TypeInv, Locals, DiskStates, Alone,
           Labels, Ops,
           Waiting, Moving
<1>3. Signal'
    BY DEF Turn, InStep, Signal, OneSector, OneSectorWrites, IdeInv, TypeInv, Locals,
           DiskStates, Alone,
           Credit, Owed, Device, Mine, Labels, Waiting, Moving, Ops
<1>4. QED
    BY <1>1, <1>2, <1>3 DEF Turn, OneSectorWrites

\* Driver and disk take turns in every kind of traffic whose writes have one sector a
\* command.
LEMMA TurnInvariance ==
    ASSUME \A f \in Traffics : "write" \in f.ops => f.max_op = 1 \/ f.counts \subseteq {1}
    PROVE  Spec => [](IdeInv /\ Turn)
<1>1. Init => Turn
    BY DEF Init, IdleDisk, Turn, OneSectorWrites, InStep, OneSector, Signal, Waiting, Moving
<1>2. IdeInv /\ Turn /\ [Next]_vars => Turn'
  <2> SUFFICES ASSUME IdeInv, Turn, [Next]_vars PROVE Turn'
    OBVIOUS
  <2>1. CASE UNCHANGED vars
    BY <2>1 DEF vars, driver, device, Turn, OneSectorWrites, InStep, OneSector, Signal
  <2>2. ASSUME NEW t \in Threads, ThreadStep(t) PROVE Turn'
    BY <2>2, IdentifyDiskTurn, SelectSectorTurn, CmdOutTurn, OutCmdTurn, SemDownTurn,
       BusyWaitTurn, TransferTurn
    DEF ThreadStep
  <2>3. ASSUME NEW t \in Threads, Call(t) PROVE Turn'
    BY <2>3, IdeCallTurn DEF Call
  <2>4. CASE Interrupt
    BY <2>4, IntrHdHandlerTurn DEF Interrupt
  <2>5. CASE DiskStep
    BY <2>5, DiskReadyTurn DEF DiskStep
  <2>6. QED
    BY <2>1, <2>2, <2>3, <2>4, <2>5 DEF Next
<1>3. QED
    BY <1>1, <1>2, Invariance, PTL DEF Spec

\* A disk that answers in time is never reported: with commands that write one sector
\* each, busy_wait finds the disk at this thread's command, and EXCEPTION_REPORT is
\* only reached while the disk is busy.
THEOREM NoDiskErrorSafe ==
    ASSUME \A f \in Traffics : "write" \in f.ops => f.max_op = 1 \/ f.counts \subseteq {1}
    PROVE  Spec => []NoDiskError
<1>1. IdeInv /\ Turn => NoDiskError
    BY DEF IdeInv, TypeInv, Locals, DiskStates, Device, Turn, InStep, Moving, NoDiskError
<1>2. QED
    BY <1>1, TurnInvariance, PTL

\* With such commands the comment at ide.c:106 is right: when no call is under way,
\* the disk is done.  (With more sectors to a write it is not.)
THEOREM DiskDoneSafe ==
    ASSUME \A f \in Traffics : "write" \in f.ops => f.max_op = 1 \/ f.counts \subseteq {1}
    PROVE  Spec => []DiskDone
<1>1. Turn => DiskDone
    BY DEF Turn, InStep, DiskDone
<1>2. QED
    BY <1>1, TurnInvariance, PTL
=============================================================================
