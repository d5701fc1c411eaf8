---------------------------- MODULE IoQueueProofs ----------------------------
(***************************************************************************)
(* The ring buffer of ioqueue.c is a bounded first-in first-out queue, for *)
(* every buf_size, with threads at both ends (FifoImplemented) and with    *)
(* the keyboard's handler as the writer (KeyboardFifo); and what is typed  *)
(* is queued in order, whatever keys there are (TypedInOrderSafe).         *)
(***************************************************************************)
EXTENDS Keyboard, SequenceTheorems, TLAPS

\* The remainder of a number that is at most one turn away from 0 .. n - 1.
LEMMA ModLemma ==
  ASSUME NEW n \in Nat \ {0}, NEW x \in Int
  PROVE  /\ 0 <= x /\ x < n => x % n = x
         /\ n <= x /\ x < 2 * n => x % n = x - n
         /\ -n <= x /\ x < 0 => x % n = x + n
  <1>1. 0 <= x /\ x < n => x % n = x
    OBVIOUS
  <1>2. n <= x /\ x < 2 * n => x % n = x - n
    OBVIOUS
  <1>3. -n <= x /\ x < 0 => x % n = x + n
    OBVIOUS
  <1> QED BY <1>1, <1>2, <1>3

\* Positions, and the remainders the code computes with them.
LEMMA PositionLemma ==
  /\ BufSize \in Nat \ {0}
  /\ \A p \in Positions : p \in Int /\ 0 <= p /\ p < BufSize
  /\ \A p \in Positions : next_pos(p) \in Positions
  /\ \A p \in Positions :
        next_pos(p) = IF p + 1 = BufSize THEN 0 ELSE p + 1
  /\ \A p, r \in Positions :
        (p - r) % BufSize = IF p >= r THEN p - r ELSE p - r + BufSize
  /\ \A p \in Positions : \A i \in 0 .. BufSize - 1 :
        /\ (p + i) % BufSize = IF p + i < BufSize THEN p + i ELSE p + i - BufSize
        /\ (p + i) % BufSize \in Positions
  <1>1. BufSize \in Nat \ {0}
    BY IoQueueAssumption
  <1>2. \A p \in Positions : p \in Int /\ 0 <= p /\ p < BufSize
    BY <1>1 DEF Positions
  <1>3. ASSUME NEW p \in Positions
        PROVE  next_pos(p) = IF p + 1 = BufSize THEN 0 ELSE p + 1
    BY <1>1, <1>2, p + 1 \in Int, ModLemma DEF next_pos
  <1>4. ASSUME NEW p \in Positions
        PROVE  next_pos(p) \in Positions
    BY <1>1, <1>2, <1>3 DEF Positions
  <1>5. ASSUME NEW p \in Positions, NEW r \in Positions
        PROVE  (p - r) % BufSize = IF p >= r THEN p - r ELSE p - r + BufSize
    BY <1>1, <1>2, p - r \in Int, ModLemma
  <1>6. ASSUME NEW p \in Positions, NEW i \in 0 .. BufSize - 1
        PROVE  (p + i) % BufSize = IF p + i < BufSize THEN p + i ELSE p + i - BufSize
    <2>1. ASSUME NEW x \in Int, 0 <= x, x < 2 * BufSize
          PROVE  x % BufSize = IF x < BufSize THEN x ELSE x - BufSize
      <3>1. CASE x < BufSize
        BY <1>1, <2>1, <3>1, ModLemma
      <3>2. CASE BufSize <= x
        BY <1>1, <2>1, <3>2, ModLemma
      <3> QED BY <1>1, <3>1, <3>2
    <2>2. p + i \in Int /\ 0 <= p + i /\ p + i < 2 * BufSize
      BY <1>1, <1>2
    <2> QED BY <1>1, <1>2, <2>1, <2>2
  <1>7. ASSUME NEW p \in Positions, NEW i \in 0 .. BufSize - 1
        PROVE  (p + i) % BufSize \in Positions
    BY <1>1, <1>2, <1>6 DEF Positions
  <1> QED BY <1>1, <1>2, <1>3, <1>4, <1>5, <1>6, <1>7

\* The characters of a ring b from position t up to h.
Slice(b, h, t) == [i \in 1 .. (h - t) % BufSize |-> b[(t + i - 1) % BufSize]]

\* They are a sequence, shorter than the ring.
LEMMA SliceLemma ==
  ASSUME NEW b \in [Positions -> Chars \cup {NULL}], NEW h \in Positions, NEW t \in Positions
  PROVE  /\ (h - t) % BufSize \in 0 .. BufSize - 1
         /\ Slice(b, h, t) \in Seq(Chars \cup {NULL})
         /\ Len(Slice(b, h, t)) = (h - t) % BufSize
         /\ \A i \in 1 .. (h - t) % BufSize :
                Slice(b, h, t)[i] = b[(t + i - 1) % BufSize]
  <1> DEFINE n == (h - t) % BufSize
  <1>1. n \in 0 .. BufSize - 1
    <2>1. n = IF h >= t THEN h - t ELSE h - t + BufSize
      BY PositionLemma
    <2>2. /\ BufSize \in Nat /\ h \in Int /\ 0 <= h /\ h < BufSize
          /\ t \in Int /\ 0 <= t /\ t < BufSize
      BY PositionLemma
    <2> HIDE DEF n
    <2> QED BY <2>1, <2>2
  <1> HIDE DEF n
  <1>2. BufSize \in Nat /\ t \in Int
    BY PositionLemma
  <1>3. ASSUME NEW i \in 1 .. n
        PROVE  b[(t + i - 1) % BufSize] \in Chars \cup {NULL}
    <2>1. i - 1 \in 0 .. BufSize - 1 /\ t + i - 1 = t + (i - 1)
      BY <1>1, <1>2
    <2>2. (t + (i - 1)) % BufSize \in Positions
      BY <2>1, PositionLemma
    <2> QED BY <2>1, <2>2
  <1>4. Slice(b, h, t) = [i \in 1 .. n |-> b[(t + i - 1) % BufSize]]
    BY DEF Slice, n
  <1>5. /\ Slice(b, h, t) \in Seq(Chars \cup {NULL})
        /\ Len(Slice(b, h, t)) = n
        /\ \A i \in 1 .. n : Slice(b, h, t)[i] = b[(t + i - 1) % BufSize]
    BY <1>1, <1>2, <1>3, <1>4
  <1> QED BY <1>1, <1>5 DEF n

\* The same for the contents of the queue.
LEMMA ContentsLemma ==
  ASSUME RingOK
  PROVE  /\ Count = IF head >= tail THEN head - tail ELSE head - tail + BufSize
         /\ Count \in 0 .. BufSize - 1
         /\ Contents \in Seq(Chars \cup {NULL})
         /\ Len(Contents) = Count
         /\ \A i \in 1 .. Count : Contents[i] = buf[(tail + i - 1) % BufSize]
  <1>1. Contents = Slice(buf, head, tail) /\ Count = (head - tail) % BufSize
    BY DEF Contents, Count, Slice
  <1>2. Count = IF head >= tail THEN head - tail ELSE head - tail + BufSize
    BY PositionLemma DEF RingOK, Count
  <1> QED BY <1>1, <1>2, SliceLemma DEF RingOK

\* put stores its character behind the last one.
LEMMA PutLemma ==
  ASSUME RingOK, NEW byte \in Chars, ~ioqueue_is_full, put(byte)
  PROVE  RingOK' /\ F!Put(byte)
  <1>1. RingOK'
    BY PositionLemma DEF RingOK, put
  <1>2. Count < BufSize - 1 /\ Count' = Count + 1
    <2>1. /\ Count = IF head >= tail THEN head - tail ELSE head - tail + BufSize
          /\ Count' = IF head' >= tail THEN head' - tail ELSE head' - tail + BufSize
      BY <1>1, ContentsLemma, PositionLemma DEF put, Count, RingOK
    <2>2. head' = IF head + 1 = BufSize THEN 0 ELSE head + 1
      BY PositionLemma DEF RingOK, put
    <2>3. head' # tail
      BY DEF put, ioqueue_is_full
    <2>4. /\ BufSize \in Nat /\ head \in Int /\ 0 <= head /\ head < BufSize
          /\ tail \in Int /\ 0 <= tail /\ tail < BufSize
      BY PositionLemma DEF RingOK
    <2> QED BY <2>1, <2>2, <2>3, <2>4
  <1>3. Count \in Nat /\ head = (tail + Count) % BufSize
    <2>1. Count \in 0 .. BufSize - 1
      BY ContentsLemma
    <2>2. (tail + Count) % BufSize =
            IF tail + Count < BufSize THEN tail + Count ELSE tail + Count - BufSize
      BY <2>1, PositionLemma DEF RingOK
    <2>3. /\ BufSize \in Nat /\ head \in Int /\ 0 <= head /\ head < BufSize
          /\ tail \in Int /\ 0 <= tail /\ tail < BufSize
      BY PositionLemma DEF RingOK
    <2> QED BY <2>1, <2>2, <2>3, ContentsLemma
  <1>4. ASSUME NEW i \in 1 .. Count
        PROVE  (tail + i - 1) % BufSize \in Positions \ {head}
    <2>1. i - 1 \in 0 .. BufSize - 1 /\ tail + i - 1 = tail + (i - 1)
      BY <1>2, <1>3, PositionLemma DEF RingOK
    <2>2. /\ (tail + (i - 1)) % BufSize \in Positions
          /\ (tail + (i - 1)) % BufSize =
                IF tail + (i - 1) < BufSize THEN tail + (i - 1)
                                            ELSE tail + (i - 1) - BufSize
      BY <2>1, PositionLemma DEF RingOK
    <2>3. /\ BufSize \in Nat /\ head \in Int /\ 0 <= head /\ head < BufSize
          /\ tail \in Int /\ 0 <= tail /\ tail < BufSize
      BY PositionLemma DEF RingOK
    <2>4. (tail + (i - 1)) % BufSize # head
      <3> DEFINE m == (tail + (i - 1)) % BufSize
      <3>1. m = IF tail + (i - 1) < BufSize THEN tail + (i - 1)
                                            ELSE tail + (i - 1) - BufSize
        BY <2>2
      <3> HIDE DEF m
      <3>2. /\ Count \in Nat /\ i \in Int /\ 1 <= i /\ i <= Count
            /\ Count = IF head >= tail THEN head - tail ELSE head - tail + BufSize
        BY <1>3, ContentsLemma
      <3>3. m # head
        BY <2>3, <3>1, <3>2
      <3> QED BY <3>3 DEF m
    <2> QED BY <2>1, <2>2, <2>4
  <1>5. \A i \in 1 .. Count : Contents'[i] = Contents[i]
    BY <1>2, <1>3, <1>4 DEF Contents, put, RingOK
  <1>6. Contents'[Count + 1] = byte
    <2>1. Contents'[Count + 1] = buf'[(tail' + (Count + 1) - 1) % BufSize]
      BY <1>2, <1>3 DEF Contents
    <2>2. tail' = tail /\ tail + (Count + 1) - 1 = tail + Count
      BY <1>3, PositionLemma DEF put, RingOK
    <2>3. buf'[head] = byte
      BY DEF put, RingOK
    <2> QED BY <1>3, <2>1, <2>2, <2>3
  <1>7. Contents' = Append(Contents, byte)
    <2>1. Contents \in Seq(Chars \cup {NULL}) /\ Len(Contents) = Count
      BY ContentsLemma
    <2>2. Contents' = Slice(buf', head', tail') /\ Count' = (head' - tail') % BufSize
      BY DEF Contents, Count, Slice
    <2>3. Contents' \in Seq(Chars \cup {NULL}) /\ Len(Contents') = Count'
      BY <1>1, <2>2, SliceLemma DEF RingOK
    <2>4. /\ Append(Contents, byte) \in Seq(Chars \cup {NULL})
          /\ Len(Append(Contents, byte)) = Count + 1
          /\ \A i \in 1 .. Count : Append(Contents, byte)[i] = Contents[i]
          /\ Append(Contents, byte)[Count + 1] = byte
      BY <2>1, AppendProperties
    <2>5. \A i \in 1 .. Count + 1 : i \in 1 .. Count \/ i = Count + 1
      BY <1>3
    <2>6. \A i \in 1 .. Count + 1 : Contents'[i] = Append(Contents, byte)[i]
      BY <1>5, <1>6, <2>4, <2>5
    <2> QED BY <1>2, <2>3, <2>4, <2>6, SeqEqual
  <1> QED BY <1>1, <1>2, <1>7, ContentsLemma DEF F!Put, put

\* Taking a character takes the oldest one.
LEMMA GetLemma ==
  ASSUME RingOK, NEW t \in Readers, ~ioqueue_is_empty,
         taken' = buf[tail], tail' = next_pos(tail), UNCHANGED << buf, head >>
  PROVE  RingOK' /\ F!Get
  <1>1. RingOK'
    BY PositionLemma DEF RingOK
  <1>2. Count >= 1 /\ Count' = Count - 1
    <2>1. /\ Count = IF head >= tail THEN head - tail ELSE head - tail + BufSize
          /\ Count' = IF head >= tail' THEN head - tail' ELSE head - tail' + BufSize
      BY <1>1, ContentsLemma, PositionLemma DEF Count, RingOK
    <2>2. tail' = IF tail + 1 = BufSize THEN 0 ELSE tail + 1
      BY PositionLemma DEF RingOK
    <2>3. head # tail
      BY DEF ioqueue_is_empty
    <2>4. /\ BufSize \in Nat /\ head \in Int /\ 0 <= head /\ head < BufSize
          /\ tail \in Int /\ 0 <= tail /\ tail < BufSize
      BY PositionLemma DEF RingOK
    <2> QED BY <2>1, <2>2, <2>3, <2>4
  <1>3. /\ Count \in 0 .. BufSize - 1
        /\ Contents \in Seq(Chars \cup {NULL}) /\ Len(Contents) = Count
        /\ \A i \in 1 .. Count : Contents[i] = buf[(tail + i - 1) % BufSize]
    BY ContentsLemma
  <1>4. Head(Contents) = buf[tail]
    <2>1. tail + 1 - 1 = tail /\ tail % BufSize = tail
      BY PositionLemma, ModLemma DEF RingOK
    <2> QED BY <1>2, <1>3, <2>1
  <1>5. ASSUME NEW i \in 1 .. Count - 1
        PROVE  (next_pos(tail) + i - 1) % BufSize = (tail + (i + 1) - 1) % BufSize
    <2>1. /\ i - 1 \in 0 .. BufSize - 1 /\ i \in 0 .. BufSize - 1
          /\ next_pos(tail) + i - 1 = next_pos(tail) + (i - 1)
          /\ tail + (i + 1) - 1 = tail + i
      BY <1>3, PositionLemma DEF RingOK
    <2>2. tail \in Positions /\ next_pos(tail) \in Positions
      BY PositionLemma DEF RingOK
    <2>3. next_pos(tail) = IF tail + 1 = BufSize THEN 0 ELSE tail + 1
      BY <2>2, PositionLemma
    <2>4. (next_pos(tail) + (i - 1)) % BufSize =
            IF next_pos(tail) + (i - 1) < BufSize
            THEN next_pos(tail) + (i - 1) ELSE next_pos(tail) + (i - 1) - BufSize
      BY <2>1, <2>2, PositionLemma
    <2>5. (tail + i) % BufSize = IF tail + i < BufSize THEN tail + i ELSE tail + i - BufSize
      BY <2>1, <2>2, PositionLemma
    <2>6. BufSize \in Nat /\ tail \in Int /\ 0 <= tail /\ tail < BufSize
      BY <2>2, PositionLemma
    <2> QED BY <2>1, <2>3, <2>4, <2>5, <2>6
  <1>6. ASSUME NEW i \in 1 .. Count - 1
        PROVE  Contents'[i] = Contents[i + 1]
    <2>1. i \in 1 .. Count' /\ i + 1 \in 1 .. Count
      BY <1>2, <1>3
    <2>2. Contents'[i] = buf[(next_pos(tail) + i - 1) % BufSize]
      BY <2>1 DEF Contents
    <2> QED BY <1>3, <1>5, <2>1, <2>2
  <1>7. Contents # << >>
    BY <1>2, <1>3
  <1>8. Contents' = Tail(Contents)
    <2>1. Contents' = Slice(buf', head', tail') /\ Count' = (head' - tail') % BufSize
      BY DEF Contents, Count, Slice
    <2>2. Contents' \in Seq(Chars \cup {NULL}) /\ Len(Contents') = Count'
      BY <1>1, <2>1, SliceLemma DEF RingOK
    <2>3. /\ Tail(Contents) \in Seq(Chars \cup {NULL})
          /\ Len(Tail(Contents)) = Count - 1
          /\ \A i \in 1 .. Count - 1 : Tail(Contents)[i] = Contents[i + 1]
      BY <1>3, <1>7, HeadTailProperties
    <2>4. \A i \in 1 .. Count - 1 : Contents'[i] = Tail(Contents)[i]
      BY <1>6, <2>3
    <2> QED BY <1>2, <2>2, <2>3, <2>4, SeqEqual
  <1> QED BY <1>1, <1>4, <1>7, <1>8 DEF F!Get

\* Every step of a reader or a writer keeps RingOK and is a step of the queue.
LEMMA StepLemma == RingOK /\ [Next]_vars => RingOK' /\ [F!Next]_F!vars
  <1>1. SUFFICES ASSUME RingOK, [Next]_vars PROVE RingOK' /\ [F!Next]_F!vars
    OBVIOUS
  <1>2. ASSUME UNCHANGED << buf, head, tail, taken >>
        PROVE  RingOK' /\ [F!Next]_F!vars
    BY <1>1, <1>2 DEF RingOK, Contents, Count, F!vars
  <1>3. ASSUME NEW t \in Readers, ioq_getchar(t)
        PROVE  RingOK' /\ [F!Next]_F!vars
    <2>1. CASE ioqueue_is_empty
      BY <1>2, <1>3, <2>1 DEF ioq_getchar, ring
    <2>2. CASE ~ioqueue_is_empty
      BY <1>1, <1>3, <2>2, GetLemma DEF ioq_getchar, F!Next
    <2> QED BY <2>1, <2>2
  <1>4. ASSUME NEW t \in Writers, NEW byte \in Chars, ioq_putchar(t, byte)
        PROVE  RingOK' /\ [F!Next]_F!vars
    <2>1. CASE ioqueue_is_full
      BY <1>2, <1>4, <2>1 DEF ioq_putchar, ring
    <2>2. CASE ~ioqueue_is_full
      BY <1>1, <1>4, <2>2, PutLemma DEF ioq_putchar, F!Next
    <2> QED BY <2>1, <2>2
  <1>5. CASE UNCHANGED vars
    BY <1>2, <1>5 DEF vars, ring
  <1> QED BY <1>1, <1>3, <1>4, <1>5 DEF Next

\* An empty ring is an empty queue.
LEMMA FifoInit == Init => RingOK /\ F!Init
  <1>1. SUFFICES ASSUME Init PROVE RingOK /\ F!Init
    OBVIOUS
  <1>2. RingOK
    BY <1>1, PositionLemma DEF Init, RingOK, Positions
  <1>3. Count = 0
    BY <1>1, <1>2, PositionLemma DEF Init, RingOK, Count
  <1>4. Contents = << >>
    BY <1>3 DEF Contents
  <1> QED BY <1>1, <1>2, <1>4 DEF Init, F!Init

\* The ring buffer of ioqueue.c implements a first-in first-out queue of
\* buf_size - 1 characters, for any buf_size, readers and writers.
THEOREM FifoImplemented == Spec => ImplementsFifo
  BY FifoInit, StepLemma, PTL DEF Spec, ImplementsFifo, F!Spec

-----------------------------------------------------------------------------
(* The keyboard.                                                           *)

KTypes ==
  /\ ctrl_status \in {0, 1} /\ shift_status \in {0, 1} /\ alt_status \in {0, 1}
  /\ ext_scancode \in {0, 1}
  /\ wire \in Seq(1 .. 255)
  /\ pressed \in Seq(Keys)
  /\ typed \in Seq(KeyChars)
  /\ dropped \in BOOLEAN

\* The keyboard has sent the whole code of every key.
Complete == IF wire = << >> THEN ext_scancode = 0 ELSE wire[Len(wire)] # prefix

\* The bytes on the wire that will become characters.
Extended(i) == IF i = 1 THEN ext_scancode = 1 ELSE wire[i - 1] = prefix
Pending(i) == ~Extended(i) /\ Printable(wire[i])

\* The characters queued, and then the bytes pending, are the printable keys pressed;
\* m bytes are pending, f numbers the keys and g the bytes.
Tracks(m, f, g) ==
  LET n == Len(typed)
  IN  /\ f \in [1 .. n + m -> 1 .. Len(pressed)]
      /\ \A i, j \in 1 .. n + m : i < j => f[i] < f[j]
      /\ \A i \in 1 .. Len(pressed) : Printable(pressed[i]) <=> \E k \in 1 .. n + m : f[k] = i
      /\ g \in [1 .. m -> 1 .. Len(wire)]
      /\ \A i, j \in 1 .. m : i < j => g[i] < g[j]
      /\ \A i \in 1 .. Len(wire) : Pending(i) <=> \E k \in 1 .. m : g[k] = i
      /\ \A k \in 1 .. n : typed[k] \div 2 = pressed[f[k]]
      /\ \A k \in 1 .. m : wire[g[k]] = pressed[f[n + k]]

Tracked == ~dropped => \E m \in Nat : \E f, g : Tracks(m, f, g)

KInv == KTypes /\ Complete /\ Tracked

\* What the assumptions say of a key.
LEMMA KeyLemma ==
  ASSUME NEW key \in Keys
  PROVE  /\ key \in Nat /\ key > 0
         /\ \/ key \in 1 .. 127 /\ key # prefix - 128
            \/ key - ext \in 1 .. 127 /\ key - ext # prefix - 128
  <1>1. CASE key \in Codes
    BY <1>1 DEF Codes, prefix
  <1>2. CASE key \in {ext + code : code \in Codes}
    <2>1. PICK code \in Codes : key = ext + code
      BY <1>2
    <2> QED BY <2>1 DEF Codes, prefix, ext
  <1> QED BY <1>1, <1>2, KeyboardAssumption

\* A break code is not printable.
LEMMA ByteLemma ==
  ASSUME NEW byte \in 1 .. 255, byte >= 128
  PROVE  ~Printable(byte)
  BY DEF Printable

\* A byte keeps its meaning when more bytes are sent.
LEMMA PendingGrowth ==
  ASSUME KTypes, KTypes', UNCHANGED ext_scancode,
         Len(wire) <= Len(wire'), \A i \in 1 .. Len(wire) : wire'[i] = wire[i],
         NEW i \in 1 .. Len(wire)
  PROVE  Pending(i)' <=> Pending(i)
  <1>1. wire'[i] = wire[i] /\ Len(wire) \in Nat
    BY DEF KTypes
  <1>2. Extended(i)' <=> Extended(i)
    <2>1. CASE i = 1
      BY <2>1 DEF Extended
    <2>2. CASE i # 1
      <3>1. i - 1 \in 1 .. Len(wire)
        BY <1>1, <2>2
      <3> QED BY <2>2, <3>1 DEF Extended
    <2> QED BY <2>1, <2>2
  <1> QED BY <1>1, <1>2 DEF Pending

\* The wire after more bytes are sent, and the keys pressed: nothing new is pending,
\* and no new key is printable.
LEMMA QuietGrowth ==
  ASSUME KTypes, Tracked, KTypes', UNCHANGED << ext_scancode, typed, dropped >>,
         Len(wire) <= Len(wire'), \A i \in 1 .. Len(wire) : wire'[i] = wire[i],
         \A i \in 1 .. Len(wire') : i > Len(wire) => ~Pending(i)',
         Len(pressed) <= Len(pressed'), \A i \in 1 .. Len(pressed) : pressed'[i] = pressed[i],
         \A i \in 1 .. Len(pressed') : i > Len(pressed) => ~Printable(pressed'[i])
  PROVE  Tracked'
  <1> SUFFICES ASSUME ~dropped PROVE \E m \in Nat : \E f, g : Tracks(m, f, g)'
    BY DEF Tracked
  <1>0. PICK m \in Nat : \E f, g : Tracks(m, f, g)
    BY DEF Tracked
  <1>1. PICK f, g : Tracks(m, f, g)
    BY <1>0
  <1> DEFINE n == Len(typed)
             W == Len(wire)
             P == Len(pressed)
  <1>2. n \in Nat /\ W \in Nat /\ P \in Nat /\ Len(wire') \in Nat /\ Len(pressed') \in Nat
    BY DEF KTypes
  <1>3. \A i \in 1 .. W : Pending(i)' <=> Pending(i)
    BY <1>2, PendingGrowth
  <1>4. /\ f \in [1 .. n + m -> 1 .. P] /\ g \in [1 .. m -> 1 .. W]
        /\ \A i, j \in 1 .. n + m : i < j => f[i] < f[j]
        /\ \A i, j \in 1 .. m : i < j => g[i] < g[j]
        /\ \A i \in 1 .. P : Printable(pressed[i]) <=> \E k \in 1 .. n + m : f[k] = i
        /\ \A i \in 1 .. W : Pending(i) <=> \E k \in 1 .. m : g[k] = i
        /\ \A k \in 1 .. n : typed[k] \div 2 = pressed[f[k]]
        /\ \A k \in 1 .. m : wire[g[k]] = pressed[f[n + k]]
    BY <1>1 DEF Tracks
  <1> HIDE DEF n, W, P
  <1>5. /\ Len(typed') = n /\ typed' = typed /\ Len(wire) = W /\ Len(pressed) = P
    BY DEF n, W, P
  <1>6. /\ \A k \in 1 .. n + m : f[k] \in 1 .. P /\ f[k] \in 1 .. Len(pressed')
        /\ \A k \in 1 .. m : g[k] \in 1 .. W /\ g[k] \in 1 .. Len(wire')
        /\ \A k \in 1 .. n : k \in 1 .. n + m
        /\ \A k \in 1 .. m : n + k \in 1 .. n + m
    BY <1>2, <1>4, <1>5
  <1>7. \A i \in 1 .. Len(pressed') :
            Printable(pressed'[i]) <=> \E k \in 1 .. n + m : f[k] = i
    <2> SUFFICES ASSUME NEW i \in 1 .. Len(pressed')
                 PROVE  Printable(pressed'[i]) <=> \E k \in 1 .. n + m : f[k] = i
      OBVIOUS
    <2>1. CASE i \in 1 .. P
      BY <1>4, <1>5, <2>1
    <2>2. CASE i > P
      BY <1>2, <1>5, <1>6, <2>2
    <2> QED BY <1>2, <2>1, <2>2
  <1>8. \A i \in 1 .. Len(wire') : Pending(i)' <=> \E k \in 1 .. m : g[k] = i
    <2> SUFFICES ASSUME NEW i \in 1 .. Len(wire')
                 PROVE  Pending(i)' <=> \E k \in 1 .. m : g[k] = i
      OBVIOUS
    <2>1. CASE i \in 1 .. W
      BY <1>3, <1>4, <2>1
    <2>2. CASE i > W
      BY <1>2, <1>5, <1>6, <2>2
    <2> QED BY <1>2, <2>1, <2>2
  <1>9. f \in [1 .. n + m -> 1 .. Len(pressed')] /\ g \in [1 .. m -> 1 .. Len(wire')]
    BY <1>4, <1>6
  <1>10. \A k \in 1 .. n : typed[k] \div 2 = pressed'[f[k]]
    BY <1>4, <1>5, <1>6
  <1>11. \A k \in 1 .. m : wire'[g[k]] = pressed'[f[n + k]]
    BY <1>4, <1>5, <1>6
  <1>12. Tracks(m, f, g)'
    BY <1>4, <1>5, <1>7, <1>8, <1>9, <1>10, <1>11 DEF Tracks
  <1> QED BY <1>12

\* A printable key is pressed: one more key and one more byte, both last.
LEMMA PrintableGrowth ==
  ASSUME KTypes, Tracked, KTypes', UNCHANGED << ext_scancode, typed, dropped >>,
         NEW key, Printable(key),
         Len(wire') = Len(wire) + 1, \A i \in 1 .. Len(wire) : wire'[i] = wire[i],
         wire'[Len(wire) + 1] = key, NEW last, last = Len(wire'), Pending(last)',
         Len(pressed') = Len(pressed) + 1,
         \A i \in 1 .. Len(pressed) : pressed'[i] = pressed[i],
         pressed'[Len(pressed) + 1] = key
  PROVE  Tracked'
  <1> SUFFICES ASSUME ~dropped PROVE \E m \in Nat : \E f, g : Tracks(m, f, g)'
    BY DEF Tracked
  <1>0. PICK m \in Nat : \E f, g : Tracks(m, f, g)
    BY DEF Tracked
  <1>1. PICK f, g : Tracks(m, f, g)
    BY <1>0
  <1>n. PICK n, W, P : n = Len(typed) /\ W = Len(wire) /\ P = Len(pressed)
    OBVIOUS
  <1>f. PICK f1 : f1 = [k \in 1 .. n + (m + 1) |-> IF k <= n + m THEN f[k] ELSE P + 1]
    OBVIOUS
  <1>g. PICK g1 : g1 = [k \in 1 .. m + 1 |-> IF k <= m THEN g[k] ELSE W + 1]
    OBVIOUS
  <1>2. n \in Nat /\ W \in Nat /\ P \in Nat
    BY <1>n DEF KTypes
  <1>3. \A i \in 1 .. W : Pending(i)' <=> Pending(i)
    <2>1. Len(wire) <= Len(wire')
      BY <1>n, <1>2
    <2> QED BY <1>n, <2>1, PendingGrowth
  <1>4. /\ f \in [1 .. n + m -> 1 .. P] /\ g \in [1 .. m -> 1 .. W]
        /\ \A i, j \in 1 .. n + m : i < j => f[i] < f[j]
        /\ \A i, j \in 1 .. m : i < j => g[i] < g[j]
        /\ \A i \in 1 .. P : Printable(pressed[i]) <=> \E k \in 1 .. n + m : f[k] = i
        /\ \A i \in 1 .. W : Pending(i) <=> \E k \in 1 .. m : g[k] = i
        /\ \A k \in 1 .. n : typed[k] \div 2 = pressed[f[k]]
        /\ \A k \in 1 .. m : wire[g[k]] = pressed[f[n + k]]
    BY <1>1, <1>n DEF Tracks
  <1>5. /\ Len(typed') = n /\ typed' = typed
        /\ Len(wire') = W + 1 /\ wire'[W + 1] = key
        /\ \A i \in 1 .. W : wire'[i] = wire[i]
        /\ Len(pressed') = P + 1 /\ pressed'[P + 1] = key
        /\ \A i \in 1 .. P : pressed'[i] = pressed[i]
        /\ Pending(last)' /\ last = W + 1
    BY <1>n
  <1>6. /\ \A k \in 1 .. n + m : f1[k] = f[k] /\ f[k] \in 1 .. P
        /\ f1[n + (m + 1)] = P + 1
        /\ \A k \in 1 .. m : g1[k] = g[k] /\ g[k] \in 1 .. W
        /\ g1[m + 1] = W + 1
    BY <1>2, <1>4, <1>f, <1>g
  <1>7. /\ \A k \in 1 .. n + (m + 1) : k \in 1 .. n + m \/ k = n + (m + 1)
        /\ \A k \in 1 .. n + m : k \in 1 .. n + (m + 1) /\ k < n + (m + 1)
        /\ \A k \in 1 .. m + 1 : k \in 1 .. m \/ k = m + 1
        /\ \A k \in 1 .. m : k \in 1 .. m + 1 /\ k < m + 1 /\ n + k \in 1 .. n + m
        /\ \A k \in 1 .. n : k \in 1 .. n + m
        /\ n + (m + 1) \in 1 .. n + (m + 1) /\ m + 1 \in 1 .. m + 1
    BY <1>2
  <1>8. /\ \A i \in 1 .. P : i \in Int /\ i < P + 1 /\ i \in 1 .. P + 1
        /\ \A i \in 1 .. W : i \in Int /\ i < W + 1 /\ i \in 1 .. W + 1
        /\ \A i \in 1 .. P + 1 : i \in 1 .. P \/ i = P + 1
        /\ \A i \in 1 .. W + 1 : i \in 1 .. W \/ i = W + 1
        /\ P + 1 \in 1 .. P + 1 /\ W + 1 \in 1 .. W + 1
    BY <1>2
  <1>9. f1 \in [1 .. n + (m + 1) -> 1 .. P + 1] /\ g1 \in [1 .. m + 1 -> 1 .. W + 1]
    <2>1. \A k \in 1 .. n + (m + 1) : f1[k] \in 1 .. P + 1
      BY <1>6, <1>7, <1>8
    <2>2. \A k \in 1 .. m + 1 : g1[k] \in 1 .. W + 1
      BY <1>6, <1>7, <1>8
    <2> QED BY <1>f, <1>g, <2>1, <2>2
  <1>11. \A i, j \in 1 .. n + (m + 1) : i < j => f1[i] < f1[j]
    <2> SUFFICES ASSUME NEW i \in 1 .. n + (m + 1), NEW j \in 1 .. n + (m + 1), i < j
                 PROVE  f1[i] < f1[j]
      OBVIOUS
    <2>1. i \in 1 .. n + m
      BY <1>2
    <2>2. CASE j \in 1 .. n + m
      BY <1>4, <1>6, <2>1, <2>2
    <2>3. CASE j = n + (m + 1)
      BY <1>6, <1>8, <2>1, <2>3
    <2> QED BY <1>7, <2>2, <2>3
  <1>12. \A i, j \in 1 .. m + 1 : i < j => g1[i] < g1[j]
    <2> SUFFICES ASSUME NEW i \in 1 .. m + 1, NEW j \in 1 .. m + 1, i < j
                 PROVE  g1[i] < g1[j]
      OBVIOUS
    <2>1. i \in 1 .. m
      BY <1>2
    <2>2. CASE j \in 1 .. m
      BY <1>4, <1>6, <2>1, <2>2
    <2>3. CASE j = m + 1
      BY <1>6, <1>8, <2>1, <2>3
    <2> QED BY <1>7, <2>2, <2>3
  <1>13. \A i \in 1 .. P + 1 :
            Printable(pressed'[i]) <=> \E k \in 1 .. n + (m + 1) : f1[k] = i
    <2> SUFFICES ASSUME NEW i \in 1 .. P + 1
                 PROVE  Printable(pressed'[i]) <=> \E k \in 1 .. n + (m + 1) : f1[k] = i
      OBVIOUS
    <2>1. CASE i \in 1 .. P
      <3>1. i # P + 1 /\ pressed'[i] = pressed[i]
        BY <1>2, <1>5, <2>1
      <3>2. (\E k \in 1 .. n + (m + 1) : f1[k] = i) <=> \E k \in 1 .. n + m : f[k] = i
        BY <1>6, <1>7, <3>1
      <3> QED BY <1>4, <2>1, <3>1, <3>2
    <2>2. CASE i = P + 1
      BY <1>5, <1>6, <1>7, <2>2
    <2> QED BY <1>8, <2>1, <2>2
  <1>14. \A i \in 1 .. W + 1 : Pending(i)' <=> \E k \in 1 .. m + 1 : g1[k] = i
    <2> SUFFICES ASSUME NEW i \in 1 .. W + 1
                 PROVE  Pending(i)' <=> \E k \in 1 .. m + 1 : g1[k] = i
      OBVIOUS
    <2>1. CASE i \in 1 .. W
      <3>1. i # W + 1
        BY <1>2, <2>1
      <3>2. (\E k \in 1 .. m + 1 : g1[k] = i) <=> \E k \in 1 .. m : g[k] = i
        BY <1>6, <1>7, <3>1
      <3> QED BY <1>3, <1>4, <2>1, <3>2
    <2>2. CASE i = W + 1
      <3>1. i = last /\ m + 1 \in 1 .. m + 1 /\ g1[m + 1] = i
        BY <1>5, <1>6, <1>7, <2>2
      <3> QED BY <1>5, <3>1
    <2> QED BY <1>8, <2>1, <2>2
  <1>10. \A k \in 1 .. n + m : pressed'[f1[k]] = pressed[f[k]]
    BY <1>5, <1>6
  <1>15. \A k \in 1 .. n : typed'[k] \div 2 = pressed'[f1[k]]
    BY <1>4, <1>5, <1>7, <1>10
  <1>16. \A k \in 1 .. m + 1 : wire'[g1[k]] = pressed'[f1[n + k]]
    <2> SUFFICES ASSUME NEW k \in 1 .. m + 1 PROVE wire'[g1[k]] = pressed'[f1[n + k]]
      OBVIOUS
    <2>1. CASE k \in 1 .. m
      <3>1. wire'[g1[k]] = wire[g[k]]
        BY <1>5, <1>6, <2>1
      <3> QED BY <1>4, <1>7, <1>10, <2>1, <3>1
    <2>2. CASE k = m + 1
      BY <1>5, <1>6, <2>2
    <2> QED BY <1>7, <2>1, <2>2
  <1>17. Tracks(m + 1, f1, g1)'
    BY <1>5, <1>9, <1>11, <1>12, <1>13, <1>14, <1>15, <1>16 DEF Tracks
  <1>18. m + 1 \in Nat
    OBVIOUS
  <1> QED BY <1>17, <1>18

\* A byte read: the one behind it becomes the first, with the same meaning.
LEMMA PendingShift ==
  ASSUME KTypes, wire # << >>, wire' = Tail(wire),
         ext_scancode' = IF wire[1] = prefix THEN 1 ELSE 0
  PROVE  /\ Len(wire) \in Nat /\ Len(wire) > 0 /\ Len(wire') = Len(wire) - 1
         /\ \A i \in 1 .. Len(wire) - 1 : wire'[i] = wire[i + 1]
         /\ \A i \in 1 .. Len(wire) - 1 : Pending(i)' <=> Pending(i + 1)
  <1>1. /\ Len(wire) \in Nat /\ Len(wire) > 0 /\ Len(wire') = Len(wire) - 1
        /\ \A i \in 1 .. Len(wire) - 1 : wire'[i] = wire[i + 1]
    BY HeadTailProperties, EmptySeq DEF KTypes
  <1>2. ASSUME NEW i \in 1 .. Len(wire) - 1
        PROVE  Pending(i)' <=> Pending(i + 1)
    <2>1. wire'[i] = wire[i + 1] /\ i + 1 # 1 /\ (i + 1) - 1 = i
      BY <1>1
    <2>2. Extended(i)' <=> wire[i] = prefix
      <3>1. CASE i = 1
        BY <3>1 DEF Extended
      <3>2. CASE i # 1
        <4>1. i - 1 \in 1 .. Len(wire) - 1 /\ (i - 1) + 1 = i
          BY <1>1, <3>2
        <4>2. wire'[i - 1] = wire[i]
          BY <1>1, <4>1
        <4> QED BY <3>2, <4>2 DEF Extended
      <3> QED BY <3>1, <3>2
    <2>3. Extended(i + 1) <=> wire[i] = prefix
      BY <2>1 DEF Extended
    <2> QED BY <2>1, <2>2, <2>3 DEF Pending
  <1> QED BY <1>1, <1>2

\* The first byte is read and was not pending: the others move up.
LEMMA QuietRead ==
  ASSUME KTypes, Tracked, wire # << >>, wire' = Tail(wire), ~Pending(1),
         ext_scancode' = IF wire[1] = prefix THEN 1 ELSE 0,
         UNCHANGED << pressed, typed, dropped >>
  PROVE  Tracked'
  <1> SUFFICES ASSUME ~dropped PROVE \E m \in Nat : \E f, g : Tracks(m, f, g)'
    BY DEF Tracked
  <1>0. PICK m \in Nat : \E f, g : Tracks(m, f, g)
    BY DEF Tracked
  <1>1. PICK f, g : Tracks(m, f, g)
    BY <1>0
  <1>2. PICK n, W, P : n = Len(typed) /\ W = Len(wire) /\ P = Len(pressed)
    OBVIOUS
  <1>3. PICK g1 : g1 = [k \in 1 .. m |-> g[k] - 1]
    OBVIOUS
  <1>4. /\ W \in Nat /\ W > 0 /\ Len(wire') = W - 1
        /\ \A i \in 1 .. W - 1 : wire'[i] = wire[i + 1]
        /\ \A i \in 1 .. W - 1 : Pending(i)' <=> Pending(i + 1)
    BY <1>2, PendingShift
  <1>5. /\ f \in [1 .. n + m -> 1 .. P] /\ g \in [1 .. m -> 1 .. W]
        /\ \A i, j \in 1 .. n + m : i < j => f[i] < f[j]
        /\ \A i, j \in 1 .. m : i < j => g[i] < g[j]
        /\ \A i \in 1 .. P : Printable(pressed[i]) <=> \E k \in 1 .. n + m : f[k] = i
        /\ \A i \in 1 .. W : Pending(i) <=> \E k \in 1 .. m : g[k] = i
        /\ \A k \in 1 .. n : typed[k] \div 2 = pressed[f[k]]
        /\ \A k \in 1 .. m : wire[g[k]] = pressed[f[n + k]]
    BY <1>1, <1>2 DEF Tracks
  <1>6. \A k \in 1 .. m : g[k] \in 2 .. W /\ g1[k] = g[k] - 1 /\ g1[k] \in 1 .. W - 1
    <2> SUFFICES ASSUME NEW k \in 1 .. m
                 PROVE  g[k] \in 2 .. W /\ g1[k] = g[k] - 1 /\ g1[k] \in 1 .. W - 1
      OBVIOUS
    <2>1. 1 \in 1 .. W
      BY <1>4
    <2>2. g[k] # 1 /\ g[k] \in 1 .. W /\ g1[k] = g[k] - 1
      BY <1>3, <1>5, <2>1
    <2> QED BY <1>4, <2>2
  <1>7. g1 \in [1 .. m -> 1 .. W - 1]
    BY <1>3, <1>6
  <1>8. \A i, j \in 1 .. m : i < j => g1[i] < g1[j]
    <2> SUFFICES ASSUME NEW i \in 1 .. m, NEW j \in 1 .. m, i < j PROVE g1[i] < g1[j]
      OBVIOUS
    <2>1. g[i] < g[j] /\ g[i] \in 2 .. W /\ g[j] \in 2 .. W
      BY <1>5, <1>6
    <2> QED BY <1>4, <1>6, <2>1
  <1>9. \A i \in 1 .. W - 1 : Pending(i)' <=> \E k \in 1 .. m : g1[k] = i
    <2> SUFFICES ASSUME NEW i \in 1 .. W - 1
                 PROVE  Pending(i)' <=> \E k \in 1 .. m : g1[k] = i
      OBVIOUS
    <2>1. i + 1 \in 1 .. W
      BY <1>4
    <2>2. \A k \in 1 .. m : g1[k] = i <=> g[k] = i + 1
      BY <1>4, <1>6
    <2> QED BY <1>4, <1>5, <2>1, <2>2
  <1>10. \A k \in 1 .. m : wire'[g1[k]] = pressed[f[n + k]]
    <2> SUFFICES ASSUME NEW k \in 1 .. m PROVE wire'[g1[k]] = pressed[f[n + k]]
      OBVIOUS
    <2>1. g1[k] \in 1 .. W - 1 /\ g1[k] + 1 = g[k]
      BY <1>4, <1>6
    <2>2. wire'[g1[k]] = wire[g[k]]
      BY <1>4, <2>1
    <2> QED BY <1>5, <2>2
  <1>11. Tracks(m, f, g1)'
    BY <1>2, <1>4, <1>5, <1>7, <1>8, <1>9, <1>10 DEF Tracks
  <1> QED BY <1>11

\* The first byte is read and was pending: it was the first of them, and the character
\* queued for it comes after all the others.
LEMMA PrintRead ==
  ASSUME KTypes, Tracked, wire # << >>, wire' = Tail(wire), Pending(1),
         ext_scancode' = IF wire[1] = prefix THEN 1 ELSE 0,
         NEW ch, ch \in KeyChars, ch \div 2 = wire[1], typed' = Append(typed, ch),
         UNCHANGED << pressed, dropped >>
  PROVE  Tracked'
  <1> SUFFICES ASSUME ~dropped PROVE \E m \in Nat : \E f, g : Tracks(m, f, g)'
    BY DEF Tracked
  <1>0. PICK m \in Nat : \E f, g : Tracks(m, f, g)
    BY DEF Tracked
  <1>1. PICK f, g : Tracks(m, f, g)
    BY <1>0
  <1>2. PICK n, W, P : n = Len(typed) /\ W = Len(wire) /\ P = Len(pressed)
    OBVIOUS
  <1>3. PICK g1 : g1 = [k \in 1 .. m - 1 |-> g[k + 1] - 1]
    OBVIOUS
  <1>4. /\ W \in Nat /\ W > 0 /\ Len(wire') = W - 1 /\ n \in Nat
        /\ \A i \in 1 .. W - 1 : wire'[i] = wire[i + 1]
        /\ \A i \in 1 .. W - 1 : Pending(i)' <=> Pending(i + 1)
    BY <1>2, PendingShift DEF KTypes
  <1>5. /\ f \in [1 .. n + m -> 1 .. P] /\ g \in [1 .. m -> 1 .. W]
        /\ \A i, j \in 1 .. n + m : i < j => f[i] < f[j]
        /\ \A i, j \in 1 .. m : i < j => g[i] < g[j]
        /\ \A i \in 1 .. P : Printable(pressed[i]) <=> \E k \in 1 .. n + m : f[k] = i
        /\ \A i \in 1 .. W : Pending(i) <=> \E k \in 1 .. m : g[k] = i
        /\ \A k \in 1 .. n : typed[k] \div 2 = pressed[f[k]]
        /\ \A k \in 1 .. m : wire[g[k]] = pressed[f[n + k]]
    BY <1>1, <1>2 DEF Tracks
  <1>6. m >= 1 /\ g[1] = 1
    <2>1. PICK k \in 1 .. m : g[k] = 1
      BY <1>4, <1>5
    <2>2. k = 1
      <3>1. SUFFICES ASSUME k > 1 PROVE FALSE
        BY <2>1
      <3>2. 1 \in 1 .. m /\ g[1] < g[k] /\ g[1] \in 1 .. W
        BY <1>5, <2>1, <3>1
      <3> QED BY <1>4, <2>1, <3>2
    <2> QED BY <2>1, <2>2
  <1>7. /\ m - 1 \in Nat /\ (n + 1) + (m - 1) = n + m
        /\ \A k \in 1 .. m - 1 : k + 1 \in 1 .. m /\ (n + 1) + k = n + (k + 1)
    BY <1>4, <1>6
  <1>8. \A k \in 1 .. m - 1 :
            g[k + 1] \in 2 .. W /\ g1[k] = g[k + 1] - 1 /\ g1[k] \in 1 .. W - 1
    <2> SUFFICES ASSUME NEW k \in 1 .. m - 1
                 PROVE  g[k + 1] \in 2 .. W /\ g1[k] = g[k + 1] - 1 /\ g1[k] \in 1 .. W - 1
      OBVIOUS
    <2>1. 1 \in 1 .. m /\ k + 1 \in 1 .. m /\ 1 < k + 1
      BY <1>6, <1>7
    <2>2. g[1] < g[k + 1] /\ g[k + 1] \in 1 .. W /\ g1[k] = g[k + 1] - 1
      BY <1>3, <1>5, <2>1
    <2> QED BY <1>4, <1>6, <2>2
  <1>9. g1 \in [1 .. m - 1 -> 1 .. W - 1]
    BY <1>3, <1>8
  <1>10. \A i, j \in 1 .. m - 1 : i < j => g1[i] < g1[j]
    <2> SUFFICES ASSUME NEW i \in 1 .. m - 1, NEW j \in 1 .. m - 1, i < j
                 PROVE  g1[i] < g1[j]
      OBVIOUS
    <2>1. i + 1 \in 1 .. m /\ j + 1 \in 1 .. m /\ i + 1 < j + 1
      BY <1>7
    <2>2. g[i + 1] < g[j + 1] /\ g[i + 1] \in 2 .. W /\ g[j + 1] \in 2 .. W
      BY <1>5, <1>8, <2>1
    <2> QED BY <1>4, <1>8, <2>2
  <1>11. \A i \in 1 .. W - 1 : Pending(i)' <=> \E k \in 1 .. m - 1 : g1[k] = i
    <2> SUFFICES ASSUME NEW i \in 1 .. W - 1
                 PROVE  Pending(i)' <=> \E k \in 1 .. m - 1 : g1[k] = i
      OBVIOUS
    <2>1. i + 1 \in 1 .. W /\ i + 1 # 1
      BY <1>4
    <2>2. \A k \in 1 .. m - 1 : g1[k] = i <=> g[k + 1] = i + 1
      BY <1>4, <1>8
    <2>3. ASSUME NEW k \in 1 .. m, g[k] = i + 1
          PROVE  \E j \in 1 .. m - 1 : g[j + 1] = i + 1
      <3>1. k # 1
        BY <1>6, <2>1, <2>3
      <3>2. k - 1 \in 1 .. m - 1 /\ (k - 1) + 1 = k
        BY <3>1
      <3> QED BY <2>3, <3>2
    <2>4. (\E k \in 1 .. m : g[k] = i + 1) <=> \E k \in 1 .. m - 1 : g[k + 1] = i + 1
      BY <1>7, <2>3
    <2> QED BY <1>4, <1>5, <2>1, <2>2, <2>4
  <1>12. \A k \in 1 .. m - 1 : wire'[g1[k]] = pressed[f[(n + 1) + k]]
    <2> SUFFICES ASSUME NEW k \in 1 .. m - 1
                 PROVE  wire'[g1[k]] = pressed[f[(n + 1) + k]]
      OBVIOUS
    <2>1. g1[k] \in 1 .. W - 1 /\ g1[k] + 1 = g[k + 1]
      BY <1>4, <1>8
    <2>2. wire'[g1[k]] = wire[g[k + 1]]
      BY <1>4, <2>1
    <2>3. wire[g[k + 1]] = pressed[f[n + (k + 1)]]
      BY <1>5, <1>7
    <2> QED BY <1>7, <2>2, <2>3
  <1>13. /\ Len(typed') = n + 1 /\ typed'[n + 1] = ch
         /\ \A k \in 1 .. n : typed'[k] = typed[k]
    BY <1>2, AppendProperties DEF KTypes
  <1>14. \A k \in 1 .. n + 1 : typed'[k] \div 2 = pressed[f[k]]
    <2>1. ASSUME NEW k \in 1 .. n PROVE typed'[k] \div 2 = pressed[f[k]]
      BY <1>5, <1>13
    <2>2. typed'[n + 1] \div 2 = pressed[f[n + 1]]
      <3>1. 1 \in 1 .. m
        BY <1>6
      <3>2. wire[g[1]] = pressed[f[n + 1]]
        BY <1>5, <3>1
      <3> QED BY <1>6, <1>13, <3>2
    <2>3. \A k \in 1 .. n + 1 : k \in 1 .. n \/ k = n + 1
      BY <1>4
    <2> QED BY <2>1, <2>2, <2>3
  <1>15. PICK r, c : r = m - 1 /\ c = n + 1
    OBVIOUS
  <1>16. Tracks(r, f, g1)'
    <2>1. /\ Len(typed') = c /\ Len(pressed') = P /\ Len(wire') = W - 1
          /\ pressed' = pressed /\ c + r = n + m
      BY <1>2, <1>4, <1>7, <1>13, <1>15
    <2>2. /\ f \in [1 .. c + r -> 1 .. P]
          /\ \A i, j \in 1 .. c + r : i < j => f[i] < f[j]
          /\ \A i \in 1 .. P : Printable(pressed[i]) <=> \E k \in 1 .. c + r : f[k] = i
      BY <1>5, <2>1
    <2>3. /\ g1 \in [1 .. r -> 1 .. W - 1]
          /\ \A i, j \in 1 .. r : i < j => g1[i] < g1[j]
          /\ \A i \in 1 .. W - 1 : Pending(i)' <=> \E k \in 1 .. r : g1[k] = i
          /\ \A k \in 1 .. c : typed'[k] \div 2 = pressed[f[k]]
          /\ \A k \in 1 .. r : wire'[g1[k]] = pressed[f[c + k]]
      BY <1>9, <1>10, <1>11, <1>12, <1>14, <1>15
    <2> QED BY <2>1, <2>2, <2>3 DEF Tracks
  <1> QED BY <1>7, <1>15, <1>16

\* What the handler does with a byte that is pending, and with any other.
LEMMA HandlerLemma ==
  ASSUME KTypes, intr_keyboard_handler
  PROVE  /\ wire # << >> /\ wire' = Tail(wire) /\ wire[1] \in 1 .. 255
         /\ ext_scancode' = IF wire[1] = prefix THEN 1 ELSE 0
         /\ UNCHANGED << down, pressed >>
         /\ ctrl_status' \in {0, 1} /\ shift_status' \in {0, 1} /\ alt_status' \in {0, 1}
         /\ \/ ~Pending(1) /\ UNCHANGED << vars, typed, dropped >>
            \/ Pending(1) /\ dropped' = TRUE /\ UNCHANGED << vars, typed >>
            \/ /\ Pending(1) /\ ~ioqueue_is_full /\ UNCHANGED dropped
               /\ \E ch \in KeyChars :
                    ch \div 2 = wire[1] /\ put(ch) /\ typed' = Append(typed, ch)
  <1> DEFINE byte == wire[1]
             scancode == IF ext_scancode = 1 THEN ext + byte ELSE byte
  <1>1. /\ wire # << >> /\ wire' = Tail(wire) /\ Head(wire) = byte
        /\ UNCHANGED << down, pressed >>
    BY DEF intr_keyboard_handler, KTypes
  <1>2. byte \in 1 .. 255
    BY <1>1, HeadTailProperties DEF KTypes
  <1>3. /\ ext_scancode' = IF byte = prefix THEN 1 ELSE 0
        /\ \/ byte = prefix /\ UNCHANGED << vars, status, typed, dropped >>
           \/ byte # prefix /\ byte >= 128 /\ break_code(scancode - 128)
           \/ byte < 128 /\ scancode < 59 /\ make_code_known(scancode)
           \/ byte < 128 /\ scancode >= 59 /\ UNCHANGED << vars, status, typed, dropped >>
    BY <1>1 DEF intr_keyboard_handler
  <1>4. Pending(1) <=> ext_scancode = 0 /\ byte < 59 /\ keymap(byte, 0) # char_invisible
    BY DEF Pending, Extended, Printable, KTypes
  <1> HIDE DEF byte
  <1>5. CASE byte = prefix /\ UNCHANGED << vars, status, typed, dropped >>
    <2>1. ~Pending(1)
      BY <1>4, <1>5 DEF prefix
    <2> QED BY <1>1, <1>2, <1>3, <1>5, <2>1 DEF byte, status, KTypes
  <1>6. CASE byte # prefix /\ byte >= 128 /\ break_code(scancode - 128)
    <2>1. ~Pending(1)
      BY <1>2, <1>4, <1>6
    <2>2. ctrl_status' \in {0, 1} /\ shift_status' \in {0, 1} /\ alt_status' \in {0, 1}
      BY <1>6 DEF break_code, KTypes
    <2> QED BY <1>1, <1>2, <1>3, <1>6, <2>1, <2>2 DEF byte, break_code
  <1>7. CASE byte < 128 /\ scancode >= 59 /\ UNCHANGED << vars, status, typed, dropped >>
    <2>1. ~Pending(1)
      BY <1>2, <1>4, <1>7
    <2> QED BY <1>1, <1>2, <1>3, <1>7, <2>1 DEF byte, status, KTypes
  <1>8. CASE byte < 128 /\ scancode < 59 /\ make_code_known(scancode)
    <2>1. ext_scancode = 0 /\ scancode = byte /\ byte < 59
      BY <1>2, <1>8 DEF KTypes, ext
    <2>2. PICK shift : shift = shift_column(byte)
      OBVIOUS
    <2>3. shift \in {0, 1}
      BY <2>2 DEF shift_column, KTypes
    <2>4. PICK ch : ch = keymap(byte, shift)
      OBVIOUS
    <2>5. /\ UNCHANGED status
          /\ \/ ch = char_invisible /\ UNCHANGED << vars, typed, dropped >>
             \/ /\ ch # char_invisible /\ ioqueue_is_full
                /\ dropped' = TRUE
                /\ UNCHANGED << vars, typed >>
             \/ /\ ch # char_invisible /\ ~ioqueue_is_full
                /\ put(ch)
                /\ typed' = Append(typed, ch)
                /\ UNCHANGED dropped
      <3> HIDE DEF scancode
      <3> QED BY <1>8, <2>1, <2>2, <2>4 DEF make_code_known
    <2>6. /\ ch # char_invisible <=> keymap(byte, 0) # char_invisible
          /\ ch # char_invisible => ch \in KeyChars /\ ch \div 2 = byte
      BY <1>2, <2>1, <2>3, <2>4 DEF keymap, char_invisible, KeyChars, caps_lock_make
    <2>7. Pending(1) <=> ch # char_invisible
      BY <1>4, <2>1, <2>6
    <2>8. ctrl_status' \in {0, 1} /\ shift_status' \in {0, 1} /\ alt_status' \in {0, 1}
      BY <2>5 DEF status, KTypes
    <2> QED BY <1>1, <1>2, <1>3, <2>5, <2>6, <2>7, <2>8 DEF byte
  <1> HIDE DEF scancode
  <1> QED BY <1>3, <1>5, <1>6, <1>7, <1>8

\* Sending bytes: the wire with the bytes of a key behind it, all of them.
LEMMA SendLemma ==
  ASSUME KTypes, NEW key \in Keys, NEW bit7 \in {0, 128}, UNCHANGED ext_scancode,
         wire' = wire \o scan_bytes(key, bit7)
  PROVE  /\ wire' \in Seq(1 .. 255) /\ Complete'
         /\ Len(wire) \in Nat /\ Len(wire) < Len(wire')
         /\ \A i \in 1 .. Len(wire) : wire'[i] = wire[i]
         /\ key <= ext => Len(wire') = Len(wire) + 1 /\ wire'[Len(wire) + 1] = key + bit7
         /\ key > ext \/ bit7 = 128 \/ ~Printable(key) =>
                \A i \in 1 .. Len(wire') : i > Len(wire) => ~Pending(i)'
  <1>1. PICK W, bytes : W = Len(wire) /\ bytes = scan_bytes(key, bit7)
    OBVIOUS
  <1>2. W \in Nat /\ wire \in Seq(1 .. 255)
    BY <1>1 DEF KTypes
  <1>3. key \in Nat /\ key > 0
    BY <1>1, KeyLemma
  <1>4. CASE /\ key <= ext /\ key < 128 /\ bytes = << key + bit7 >>
             /\ key + bit7 \in 1 .. 255 /\ key + bit7 # prefix
    <2>1. /\ wire' \in Seq(1 .. 255) /\ Len(wire') = W + 1
          /\ \A i \in 1 .. W : wire'[i] = wire[i]
          /\ wire'[W + 1] = key + bit7
      BY <1>1, <1>2, <1>4
    <2>2. Complete'
      BY <1>2, <1>4, <2>1 DEF Complete
    <2>3. ASSUME bit7 = 128 \/ ~Printable(key), NEW i \in 1 .. Len(wire'), i > W
          PROVE  ~Pending(i)'
      <3>1. i = W + 1
        BY <1>2, <2>1, <2>3
      <3>2. ~Printable(wire'[i])
        <4>1. CASE bit7 = 128
          <5>1. key + bit7 >= 128
            BY <1>3, <4>1
          <5> QED BY <1>4, <2>1, <3>1, <5>1, ByteLemma
        <4>2. CASE bit7 = 0 /\ ~Printable(key)
          <5>1. key + bit7 = key
            BY <1>3, <4>2
          <5> QED BY <2>1, <3>1, <4>2, <5>1
        <4> QED BY <2>3, <4>1, <4>2
      <3> QED BY <3>2 DEF Pending
    <2> QED BY <1>1, <1>2, <1>4, <2>1, <2>2, <2>3, <1>3 DEF ext
  <1>5. CASE /\ key > ext /\ bytes = << prefix, key - ext + bit7 >>
             /\ key - ext + bit7 \in 1 .. 255 /\ key - ext + bit7 # prefix
    <2>1. /\ wire' \in Seq(1 .. 255) /\ Len(wire') = W + 2
          /\ \A i \in 1 .. W : wire'[i] = wire[i]
          /\ wire'[W + 1] = prefix /\ wire'[W + 2] = key - ext + bit7
      BY <1>1, <1>2, <1>5 DEF prefix
    <2>2. Complete'
      BY <1>2, <1>5, <2>1 DEF Complete
    <2>3. ASSUME NEW i \in 1 .. Len(wire'), i > W PROVE ~Pending(i)'
      <3>1. i = W + 1 \/ i = W + 2
        BY <1>2, <2>1, <2>3
      <3>2. CASE i = W + 1
        <4>1. ~Printable(wire'[i])
          BY <2>1, <3>2 DEF Printable, prefix
        <4> QED BY <4>1 DEF Pending
      <3>3. CASE i = W + 2
        <4>1. i # 1 /\ wire'[i - 1] = prefix
          <5>1. i - 1 = W + 1 /\ i # 1
            BY <1>2, <3>3
          <5> QED BY <2>1, <5>1
        <4> QED BY <4>1 DEF Pending, Extended
      <3> QED BY <3>1, <3>2, <3>3
    <2> QED BY <1>1, <1>2, <1>5, <2>1, <2>2, <2>3, <1>3 DEF ext
  <1>6. \/ /\ key <= ext /\ key < 128 /\ bytes = << key + bit7 >>
           /\ key + bit7 \in 1 .. 255 /\ key + bit7 # prefix
        \/ /\ key > ext /\ bytes = << prefix, key - ext + bit7 >>
           /\ key - ext + bit7 \in 1 .. 255 /\ key - ext + bit7 # prefix
    <2>1. \/ key \in 1 .. 127 /\ key # prefix - 128
          \/ key - ext \in 1 .. 127 /\ key - ext # prefix - 128
      BY KeyLemma
    <2> QED BY <1>1, <1>3, <2>1 DEF scan_bytes, prefix, ext
  <1> QED BY <1>4, <1>5, <1>6, Zenon

\* A key pressed or released, with the bytes it sends.
LEMMA PressStep ==
  ASSUME KInv, NEW key \in Keys, press(key)
  PROVE  KInv'
  <1>1. /\ wire' = wire \o scan_bytes(key, 0) /\ pressed' = Append(pressed, key)
        /\ UNCHANGED << status, ext_scancode, typed, dropped >>
    BY DEF press
  <1>2. KTypes
    BY DEF KInv
  <1>3. /\ wire' \in Seq(1 .. 255) /\ Complete'
        /\ Len(wire) \in Nat /\ Len(wire) < Len(wire')
        /\ \A i \in 1 .. Len(wire) : wire'[i] = wire[i]
        /\ key <= ext => Len(wire') = Len(wire) + 1 /\ wire'[Len(wire) + 1] = key + 0
        /\ key > ext \/ ~Printable(key) =>
                \A i \in 1 .. Len(wire') : i > Len(wire) => ~Pending(i)'
    BY <1>1, <1>2, SendLemma
  <1>4. /\ pressed' \in Seq(Keys) /\ Len(pressed) \in Nat
        /\ Len(pressed') = Len(pressed) + 1 /\ pressed'[Len(pressed) + 1] = key
        /\ \A i \in 1 .. Len(pressed) : pressed'[i] = pressed[i]
    BY <1>1, <1>2, AppendProperties DEF KTypes
  <1>5. KTypes'
    BY <1>1, <1>2, <1>3, <1>4 DEF KTypes, status
  <1>6. key \in Nat /\ (Printable(key) => key <= ext)
    BY KeyLemma DEF Printable, ext
  <1>7. CASE ~Printable(key)
    <2>1. \A i \in 1 .. Len(pressed') : i > Len(pressed) => ~Printable(pressed'[i])
      BY <1>4, <1>7
    <2>2. Tracked'
      BY <1>1, <1>2, <1>3, <1>4, <1>5, <1>7, <2>1, QuietGrowth DEF KInv
    <2> QED BY <1>3, <1>5, <2>2 DEF KInv
  <1>8. CASE Printable(key)
    <2>1. PICK last : last = Len(wire')
      OBVIOUS
    <2>2. last = Len(wire) + 1 /\ wire'[last] = key
      BY <1>3, <1>6, <1>8, <2>1
    <2>3. ~Extended(last)'
      <3>1. CASE wire = << >>
        <4>1. last = 1 /\ ext_scancode' # 1
          BY <1>1, <2>2, <3>1 DEF KInv, Complete
        <4> QED BY <4>1 DEF Extended
      <3>2. CASE wire # << >>
        <4>1. Len(wire) \in 1 .. Len(wire)
          BY <1>2, <3>2, EmptySeq DEF KTypes
        <4>2. last # 1 /\ wire'[last - 1] = wire[Len(wire)]
          BY <1>3, <2>2, <4>1
        <4>3. wire[Len(wire)] # prefix
          BY <3>2 DEF KInv, Complete
        <4> QED BY <4>2, <4>3 DEF Extended
      <3> QED BY <3>1, <3>2
    <2>4. Pending(last)'
      BY <1>8, <2>2, <2>3 DEF Pending
    <2>5. Tracked'
      BY <1>1, <1>2, <1>3, <1>4, <1>5, <1>8, <2>1, <2>2, <2>4, PrintableGrowth DEF KInv
    <2> QED BY <1>3, <1>5, <2>5 DEF KInv
  <1> QED BY <1>7, <1>8

LEMMA ReleaseStep ==
  ASSUME KInv, NEW key \in Keys, release(key)
  PROVE  KInv'
  <1>1. /\ wire' = wire \o scan_bytes(key, 128)
        /\ UNCHANGED << status, ext_scancode, pressed, typed, dropped >>
    BY DEF release
  <1>2. KTypes
    BY DEF KInv
  <1>3. /\ wire' \in Seq(1 .. 255) /\ Complete'
        /\ Len(wire) \in Nat /\ Len(wire) < Len(wire')
        /\ \A i \in 1 .. Len(wire) : wire'[i] = wire[i]
        /\ \A i \in 1 .. Len(wire') : i > Len(wire) => ~Pending(i)'
    BY <1>1, <1>2, SendLemma
  <1>4. KTypes'
    BY <1>1, <1>2, <1>3 DEF KTypes, status
  <1>5. Len(pressed) \in Nat /\ Len(pressed') \in Nat /\ Len(wire') \in Nat
    BY <1>2, <1>4 DEF KTypes
  <1>6. Tracked'
    BY <1>1, <1>2, <1>3, <1>4, <1>5, QuietGrowth DEF KInv
  <1> QED BY <1>3, <1>4, <1>6 DEF KInv

\* A byte handled.
LEMMA HandlerStep ==
  ASSUME KInv, intr_keyboard_handler
  PROVE  KInv'
  <1>1. KTypes /\ Complete /\ Tracked
    BY DEF KInv
  <1>2. /\ wire # << >> /\ wire' = Tail(wire) /\ wire[1] \in 1 .. 255
        /\ ext_scancode' = IF wire[1] = prefix THEN 1 ELSE 0
        /\ UNCHANGED << down, pressed >>
        /\ ctrl_status' \in {0, 1} /\ shift_status' \in {0, 1} /\ alt_status' \in {0, 1}
        /\ \/ ~Pending(1) /\ UNCHANGED << vars, typed, dropped >>
           \/ Pending(1) /\ dropped' = TRUE /\ UNCHANGED << vars, typed >>
           \/ /\ Pending(1) /\ ~ioqueue_is_full /\ UNCHANGED dropped
              /\ \E ch \in KeyChars :
                    ch \div 2 = wire[1] /\ put(ch) /\ typed' = Append(typed, ch)
    BY <1>1, HandlerLemma
  <1>3. /\ wire' \in Seq(1 .. 255) /\ Len(wire) \in Nat /\ Len(wire) > 0
        /\ Len(wire') = Len(wire) - 1
        /\ \A i \in 1 .. Len(wire) - 1 : wire'[i] = wire[i + 1]
    BY <1>1, <1>2, PendingShift, HeadTailProperties DEF KTypes
  <1>4. typed' \in Seq(KeyChars) /\ dropped' \in BOOLEAN
    <2>1. typed \in Seq(KeyChars) /\ dropped \in BOOLEAN
      BY <1>1 DEF KTypes
    <2>2. typed' = typed \/ \E ch \in KeyChars : typed' = Append(typed, ch)
      BY <1>2
    <2>3. dropped' = TRUE \/ dropped' = dropped
      BY <1>2
    <2>4. typed' \in Seq(KeyChars)
      BY <2>1, <2>2, AppendProperties
    <2> QED BY <2>1, <2>3, <2>4
  <1>5. KTypes'
    BY <1>1, <1>2, <1>3, <1>4 DEF KTypes
  <1>6. Complete'
    <2>0. wire[Len(wire)] # prefix
      BY <1>1, <1>2 DEF Complete
    <2>1. CASE Len(wire) = 1
      <3>1. wire' = << >>
        BY <1>3, <2>1, EmptySeq
      <3> QED BY <1>2, <2>0, <2>1, <3>1 DEF Complete
    <2>2. CASE Len(wire) # 1
      <3>1. Len(wire') \in 1 .. Len(wire) - 1 /\ Len(wire') + 1 = Len(wire)
        BY <1>3, <2>2
      <3>2. wire'[Len(wire')] = wire[Len(wire)] /\ wire' # << >>
        BY <1>3, <3>1, EmptySeq
      <3> QED BY <2>0, <3>2 DEF Complete
    <2> QED BY <2>1, <2>2
  <1>7. Tracked'
    <2>1. CASE ~Pending(1) /\ UNCHANGED << vars, typed, dropped >>
      BY <1>1, <1>2, <2>1, QuietRead
    <2>2. CASE dropped' = TRUE
      BY <2>2 DEF Tracked
    <2>3. ASSUME Pending(1), UNCHANGED dropped,
                 NEW ch \in KeyChars, ch \div 2 = wire[1], typed' = Append(typed, ch)
          PROVE  Tracked'
      BY <1>1, <1>2, <2>3, PrintRead
    <2> QED BY <1>2, <2>1, <2>2, <2>3
  <1> QED BY <1>5, <1>6, <1>7 DEF KInv

\* In every state, whatever keys there are and whatever the size of the queue, the keys
\* pressed are accounted for: queued, dropped, or still on the wire.
THEOREM KeyboardInvariance == KSpec => []KInv
  <1>1. KInit => KInv
    <2>1. SUFFICES ASSUME KInit PROVE KInv
      OBVIOUS
    <2>2. KTypes /\ Complete
      <3>1. << >> \in Seq(1 .. 255) /\ << >> \in Seq(Keys) /\ << >> \in Seq(KeyChars)
        OBVIOUS
      <3>2. dropped \in BOOLEAN
        BY <2>1 DEF KInit
      <3> QED BY <2>1, <3>1, <3>2 DEF KInit, KTypes, Complete
    <2>3. PICK m, f, g : m = 0 /\ f = << >> /\ g = << >>
      OBVIOUS
    <2>4. Tracks(m, f, g)
      BY <2>1, <2>3 DEF KInit, Tracks
    <2> QED BY <2>2, <2>3, <2>4 DEF KInv, Tracked
  <1>2. KInv /\ [KNext]_kvars => KInv'
    <2> SUFFICES ASSUME KInv, [KNext]_kvars PROVE KInv'
      OBVIOUS
    <2>1. ASSUME UNCHANGED << status, ext_scancode, keys, typed, dropped >>
          PROVE  KInv'
      <3>1. /\ UNCHANGED << ctrl_status, shift_status, alt_status, ext_scancode >>
            /\ UNCHANGED << wire, pressed, typed, dropped >>
        BY <2>1 DEF status, keys
      <3>2. KTypes' /\ Complete'
        BY <3>1 DEF KInv, KTypes, Complete
      <3>3. ASSUME NEW m, NEW f, NEW g, Tracks(m, f, g) PROVE Tracks(m, f, g)'
        BY <3>1, <3>3 DEF Tracks, Pending, Extended
      <3>4. Tracked'
        BY <3>1, <3>3 DEF KInv, Tracked
      <3> QED BY <3>2, <3>4 DEF KInv
    <2>2. CASE reader
      BY <2>1, <2>2 DEF reader
    <2>3. CASE UNCHANGED kvars
      BY <2>1, <2>3 DEF kvars
    <2> QED BY <2>2, <2>3, PressStep, ReleaseStep, HandlerStep DEF KNext
  <1> QED BY <1>1, <1>2, PTL DEF KSpec

\* For any keys, any number of presses and any queue: once everything the keyboard sent
\* has been handled and nothing was dropped, the characters queued are those of the
\* printable keys pressed, in their order.
THEOREM TypedInOrderSafe == KSpec => []TypedInOrder
  <1>1. KInv => TypedInOrder
    <2> SUFFICES ASSUME KInv, Settled PROVE TypedInOrder
      BY DEF TypedInOrder
    <2>1. wire = << >> /\ ~dropped
      BY DEF Settled
    <2>0. PICK m \in Nat : \E f, g : Tracks(m, f, g)
      BY <2>1 DEF KInv, Tracked
    <2>2. PICK f, g : Tracks(m, f, g)
      BY <2>0
    <2>3. m = 0
      <3>1. SUFFICES ASSUME m # 0 PROVE FALSE
        OBVIOUS
      <3>2. 1 \in 1 .. m /\ Len(wire) = 0
        BY <2>1, <3>1
      <3>3. g \in [1 .. m -> 1 .. 0]
        BY <2>2, <3>2 DEF Tracks
      <3> QED BY <3>2, <3>3
    <2>4. PICK n : n = Len(typed)
      OBVIOUS
    <2>5. n \in Nat /\ n + m = n /\ DOMAIN typed = 1 .. n /\ DOMAIN pressed = 1 .. Len(pressed)
      BY <2>3, <2>4 DEF KInv, KTypes
    <2>6. /\ f \in [1 .. n -> 1 .. Len(pressed)]
          /\ \A i, j \in 1 .. n : i < j => f[i] < f[j]
          /\ \A i \in 1 .. Len(pressed) : Printable(pressed[i]) <=> \E k \in 1 .. n : f[k] = i
          /\ \A k \in 1 .. n : typed[k] \div 2 = pressed[f[k]]
      BY <2>2, <2>4, <2>5 DEF Tracks
    <2>7. f \in [DOMAIN typed -> {i \in DOMAIN pressed : Printable(pressed[i])}]
      BY <2>5, <2>6
    <2> QED BY <2>5, <2>6, <2>7 DEF TypedInOrder
  <1> QED BY <1>1, KeyboardInvariance, PTL

\* With the interrupt handler as its only writer, one that never waits, the ring buffer
\* is still a first-in first-out queue of buf_size - 1 characters.
THEOREM KeyboardFifo == KSpec => ImplementsFifo
  <1>1. KInit => RingOK /\ F!Init
    BY FifoInit DEF KInit
  <1>2. KInv /\ RingOK /\ [KNext]_kvars => RingOK' /\ [F!Next]_F!vars
    <2> SUFFICES ASSUME KInv, RingOK, [KNext]_kvars PROVE RingOK' /\ [F!Next]_F!vars
      OBVIOUS
    <2>1. ASSUME UNCHANGED vars PROVE RingOK' /\ [F!Next]_F!vars
      BY <2>1, StepLemma
    <2>2. ASSUME NEW key \in Keys, press(key) \/ release(key)
          PROVE  RingOK' /\ [F!Next]_F!vars
      BY <2>1, <2>2 DEF press, release
    <2>3. CASE reader
      BY <2>3, StepLemma DEF reader, Next
    <2>4. CASE intr_keyboard_handler
      <3>1. \/ UNCHANGED vars
            \/ ~ioqueue_is_full /\ \E ch \in KeyChars : put(ch)
        BY <2>4, HandlerLemma DEF KInv
      <3>2. ASSUME ~ioqueue_is_full, NEW ch \in KeyChars, put(ch)
            PROVE  RingOK' /\ [F!Next]_F!vars
        <4>1. ch \in Chars
          BY KeyboardAssumption
        <4> QED BY <3>2, <4>1, PutLemma DEF F!Next
      <3> QED BY <2>1, <3>1, <3>2
    <2>5. CASE UNCHANGED kvars
      BY <2>1, <2>5 DEF kvars
    <2> QED BY <2>2, <2>3, <2>4, <2>5 DEF KNext
  <1> QED BY <1>1, <1>2, KeyboardInvariance, PTL DEF KSpec, ImplementsFifo, F!Spec
=============================================================================
