--------------------------- MODULE FirmwareProofs ---------------------------
(***************************************************************************)
(* The three parts of the firmware.  UartPort for FIFOs of every depth:     *)
(* both are the queues of BoundedFifo, and a program's output is complete  *)
(* before the next program starts.  DemoFlow: the flags tell the truth.    *)
(* I2cMaster under LcdI2c: a write that succeeds was acknowledged, and the *)
(* display has executed what the calls that succeeded wrote to it.         *)
(***************************************************************************)
EXTENDS Firmware, SequenceTheorems, TLAPS

-----------------------------------------------------------------------------
(* One FIFO *)

\* The pointers are count apart.
FifoOK(f) ==
  /\ f \in [mem : [0..Depth-1 -> Bytes], rd_ptr : 0..Depth-1, wr_ptr : 0..Depth-1,
            count : 0..Depth]
  /\ f.wr_ptr = (f.rd_ptr + f.count) % Depth

\* A pointer wraps around at most once.
Wrap(x) == IF x < Depth THEN x ELSE x - Depth

LEMMA WrapsOnce ==
  ASSUME NEW x \in Nat, x < 2 * Depth
  PROVE  x % Depth = Wrap(x)
BY SMT, UartAssumption DEF Wrap

LEMMA AfterType == ASSUME NEW b \in Bytes PROVE After(b) \in Bytes
BY SMT, UartAssumption DEF After, Bytes

LEMMA Fields ==
  ASSUME NEW f, FifoOK(f)
  PROVE  /\ f.mem \in [0..Depth-1 -> Bytes]
         /\ f.count \in Nat /\ f.count <= Depth
         /\ f.rd_ptr \in Nat /\ f.rd_ptr < Depth
         /\ f.wr_ptr \in Nat /\ f.wr_ptr < Depth
         /\ f.wr_ptr = Wrap(f.rd_ptr + f.count)
         /\ Depth \in Nat /\ Depth > 0
<1>1. /\ f.mem \in [0..Depth-1 -> Bytes]
      /\ f.count \in Nat /\ f.count <= Depth
      /\ f.rd_ptr \in Nat /\ f.rd_ptr < Depth
      /\ f.wr_ptr \in Nat /\ f.wr_ptr < Depth
      /\ f.wr_ptr = (f.rd_ptr + f.count) % Depth
      /\ Depth \in Nat /\ Depth > 0
  BY SMT, UartAssumption DEF FifoOK
<1>2. f.rd_ptr + f.count \in Nat /\ f.rd_ptr + f.count < 2 * Depth
  BY SMT, <1>1
<1>3. (f.rd_ptr + f.count) % Depth = Wrap(f.rd_ptr + f.count)
  BY <1>2, WrapsOnce
<1> QED BY <1>1, <1>3

LEMMA ContentsType ==
  ASSUME NEW f, FifoOK(f)
  PROVE  /\ Contents(f) \in Seq(Bytes) /\ Len(Contents(f)) = f.count
         /\ \A i \in 1..f.count : Contents(f)[i] = f.mem[Wrap(f.rd_ptr + i - 1)]
<1>1. ASSUME NEW i \in 1..f.count
      PROVE  /\ (f.rd_ptr + i - 1) % Depth = Wrap(f.rd_ptr + i - 1)
             /\ Wrap(f.rd_ptr + i - 1) \in 0..Depth-1
  <2>1. f.rd_ptr + i - 1 \in Nat /\ f.rd_ptr + i - 1 < 2 * Depth
    BY SMT, Fields
  <2>2. (f.rd_ptr + i - 1) % Depth = Wrap(f.rd_ptr + i - 1)
    BY <2>1, WrapsOnce
  <2>3. Wrap(f.rd_ptr + i - 1) \in 0..Depth-1
    BY SMT, <2>1, Fields DEF Wrap
  <2> QED BY <2>2, <2>3
<1>2. Contents(f) = [i \in 1..f.count |-> f.mem[Wrap(f.rd_ptr + i - 1)]]
  BY <1>1 DEF Contents
<1>3. f.count \in Nat /\ f.mem \in [0..Depth-1 -> Bytes]
  BY Fields
<1>4. Contents(f) \in [1..f.count -> Bytes]
  BY <1>1, <1>2, <1>3
<1>5. Contents(f) \in Seq(Bytes)
  BY <1>3, <1>4, SeqDef
<1>6. Len(Contents(f)) = f.count
  BY SMT, <1>3, <1>4, <1>5, LenProperties
<1> QED BY <1>2, <1>5, <1>6

LEMMA MovedOK ==
  ASSUME NEW f, FifoOK(f), NEW in \in BOOLEAN, NEW outs \in BOOLEAN, NEW b \in Bytes,
         outs => f.count # 0, in => f.count # Depth \/ outs
  PROVE  LET g == Moved(f, in, b, outs)
         IN  /\ FifoOK(g)
             /\ g.rd_ptr = IF outs THEN Wrap(f.rd_ptr + 1) ELSE f.rd_ptr
             /\ g.count = IF in /\ ~outs THEN f.count + 1
                          ELSE IF outs /\ ~in THEN f.count - 1 ELSE f.count
             /\ g.mem = IF in THEN [f.mem EXCEPT ![f.wr_ptr] = b] ELSE f.mem
<1> DEFINE g == Moved(f, in, b, outs)
<1>1. /\ g.mem = IF in THEN [f.mem EXCEPT ![f.wr_ptr] = b] ELSE f.mem
      /\ g.wr_ptr = IF in THEN (f.wr_ptr + 1) % Depth ELSE f.wr_ptr
      /\ g.rd_ptr = IF outs THEN (f.rd_ptr + 1) % Depth ELSE f.rd_ptr
      /\ g.count = IF in /\ ~outs THEN f.count + 1
                   ELSE IF outs /\ ~in THEN f.count - 1 ELSE f.count
      /\ g = [mem |-> g.mem, rd_ptr |-> g.rd_ptr, wr_ptr |-> g.wr_ptr, count |-> g.count]
  BY SMT DEF Moved
<1> HIDE DEF g
<1> DEFINE r == f.rd_ptr  w == f.wr_ptr  n == f.count
           r2 == g.rd_ptr  w2 == g.wr_ptr  n2 == g.count
<1>2. /\ f.mem \in [0..Depth-1 -> Bytes] /\ Depth \in Nat /\ Depth > 0
      /\ n \in Nat /\ n <= Depth /\ r \in Nat /\ r < Depth /\ w \in Nat /\ w < Depth
      /\ w = Wrap(r + n)
  BY Fields
<1>3. g.mem \in [0..Depth-1 -> Bytes]
  BY SMT, <1>1, <1>2
<1>4. (w + 1) % Depth = Wrap(w + 1) /\ (r + 1) % Depth = Wrap(r + 1)
  <2>1. w + 1 \in Nat /\ w + 1 < 2 * Depth /\ r + 1 \in Nat /\ r + 1 < 2 * Depth
    BY SMT, <1>2
  <2> QED BY <2>1, WrapsOnce
<1>5. /\ w2 = IF in THEN Wrap(w + 1) ELSE w
      /\ r2 = IF outs THEN Wrap(r + 1) ELSE r
      /\ n2 = IF in /\ ~outs THEN n + 1 ELSE IF outs /\ ~in THEN n - 1 ELSE n
      /\ outs => n # 0
      /\ in => n # Depth \/ outs
  BY <1>1, <1>4
<1> HIDE DEF r, w, n, r2, w2, n2
<1>6. /\ r2 \in Nat /\ r2 < Depth /\ w2 \in Nat /\ w2 < Depth
      /\ n2 \in Nat /\ n2 <= Depth
  BY SMT, <1>2, <1>5 DEF Wrap
<1>7. w2 = Wrap(r2 + n2)
  BY SMT, <1>2, <1>5, <1>6 DEF Wrap
<1>8. (r2 + n2) % Depth = Wrap(r2 + n2)
  <2>1. r2 + n2 \in Nat /\ r2 + n2 < 2 * Depth
    BY SMT, <1>2, <1>6
  <2> QED BY <2>1, WrapsOnce
<1>9. FifoOK(g)
  <2>1. r2 \in 0..Depth-1 /\ w2 \in 0..Depth-1 /\ n2 \in 0..Depth
    BY SMT, <1>2, <1>6
  <2> QED BY <1>1, <1>3, <1>7, <1>8, <2>1 DEF FifoOK, r2, w2, n2
<1> QED BY <1>1, <1>4, <1>9 DEF g, r, w

LEMMA SameSeq ==
  ASSUME NEW t \in Seq(Bytes), NEW u \in Seq(Bytes), Len(t) = Len(u),
         \A i \in 1..Len(t) : t[i] = u[i]
  PROVE  t = u
BY SeqEqual

\* What a clock does to a FIFO is what it does to the queue in it.
LEMMA MovedQueue ==
  ASSUME NEW f, FifoOK(f), NEW in \in BOOLEAN, NEW outs \in BOOLEAN, NEW b \in Bytes,
         outs => f.count # 0, in => f.count # Depth \/ outs
  PROVE  LET q == Contents(f)
             t == Contents(Moved(f, in, b, outs))
         IN  /\ ~in /\ ~outs => t = q
             /\ in /\ ~outs => Len(q) < Depth /\ t = Append(q, b)
             /\ ~in /\ outs => t = Tail(q)
             /\ in /\ outs => t = Append(Tail(q), b)
             /\ outs => q # <<>> /\ Head(q) = f.mem[f.rd_ptr]
<1> DEFINE g == Moved(f, in, b, outs)
           q == Contents(f)
           t == Contents(g)
           r == f.rd_ptr
           w == f.wr_ptr
           n == f.count
           m == f.mem
           r2 == g.rd_ptr
           n2 == g.count
           m2 == g.mem
<1>1. /\ m \in [0..Depth-1 -> Bytes] /\ Depth \in Nat /\ Depth > 0
      /\ n \in Nat /\ n <= Depth /\ r \in Nat /\ r < Depth /\ w \in Nat /\ w < Depth
      /\ w = Wrap(r + n)
  BY Fields
<1>2. /\ FifoOK(g)
      /\ r2 = IF outs THEN Wrap(r + 1) ELSE r
      /\ n2 = IF in /\ ~outs THEN n + 1 ELSE IF outs /\ ~in THEN n - 1 ELSE n
      /\ m2 = IF in THEN [m EXCEPT ![w] = b] ELSE m
  BY MovedOK
<1>3. /\ q \in Seq(Bytes) /\ Len(q) = n
      /\ \A i \in 1..n : q[i] = m[Wrap(r + i - 1)]
  BY ContentsType
<1>4. /\ t \in Seq(Bytes) /\ Len(t) = n2
      /\ \A i \in 1..n2 : t[i] = m2[Wrap(r2 + i - 1)]
  BY <1>2, ContentsType
<1> HIDE DEF g, q, t, r, w, n, m, r2, n2, m2
<1>5. ASSUME ~in, ~outs PROVE t = q
  <2>1. Len(t) = Len(q) /\ \A i \in 1..Len(t) : t[i] = q[i]
    BY SMT, <1>2, <1>3, <1>4, <1>5
  <2> QED BY <1>3, <1>4, <2>1, SameSeq
<1>6. ASSUME in, ~outs PROVE Len(q) < Depth /\ t = Append(q, b)
  <2> DEFINE u == Append(q, b)
  <2>1. /\ u \in Seq(Bytes) /\ Len(u) = n + 1 /\ u[n + 1] = b
        /\ \A i \in 1..n : u[i] = q[i]
    BY SMT, <1>1, <1>3, AppendProperties
  <2>2. Len(t) = Len(u)
    BY SMT, <1>2, <1>4, <1>6, <2>1
  <2>3. ASSUME NEW i \in 1..Len(t) PROVE t[i] = u[i]
    <3>1. i \in 1..n+1 /\ t[i] = m2[Wrap(r + i - 1)] /\ m2 = [m EXCEPT ![w] = b]
      BY SMT, <1>2, <1>4, <1>6
    <3>2. CASE i = n + 1
      BY SMT, <1>1, <2>1, <3>1, <3>2 DEF Wrap
    <3>3. CASE i # n + 1
      <4>1. Wrap(r + i - 1) # w
        BY SMTT(30), <1>1, <1>6, <3>1, <3>3 DEF Wrap, n
      <4>2. i \in 1..n /\ Wrap(r + i - 1) \in 0..Depth-1
        BY SMT, <1>1, <3>1, <3>3 DEF Wrap
      <4> QED BY SMT, <1>1, <1>3, <2>1, <3>1, <4>1, <4>2
    <3> QED BY <3>2, <3>3
  <2>4. t = u
    <3> HIDE DEF u
    <3> QED BY <1>4, <2>1, <2>2, <2>3, SameSeq
  <2>5. Len(q) < Depth
    BY SMT, <1>1, <1>3, <1>6 DEF n
  <2> QED BY <2>4, <2>5
<1>7. outs => q # <<>> /\ Head(q) = m[r]
  BY SMT, <1>1, <1>3, EmptySeq, HeadTailProperties DEF Wrap, n
<1> DEFINE v == Tail(q)
<1>8. outs => /\ v \in Seq(Bytes) /\ Len(v) = n - 1
              /\ \A i \in 1..n-1 : v[i] = m[Wrap(r + i)]
  <2> SUFFICES ASSUME outs PROVE /\ v \in Seq(Bytes) /\ Len(v) = n - 1
                                /\ \A i \in 1..n-1 : v[i] = m[Wrap(r + i)]
    OBVIOUS
  <2>1. v \in Seq(Bytes) /\ Len(v) = n - 1 /\ \A i \in 1..n-1 : v[i] = q[i + 1]
    BY SMT, <1>1, <1>3, <1>7, HeadTailProperties
  <2>2. ASSUME NEW i \in 1..n-1 PROVE q[i + 1] = m[Wrap(r + i)]
    BY SMT, <1>1, <1>3
  <2> QED BY <2>1, <2>2
<1>9. ASSUME NEW i \in Nat, 1 <= i, i <= n, outs PROVE Wrap(r2 + i - 1) = Wrap(r + i)
  BY SMT, <1>1, <1>2, <1>9 DEF Wrap
<1>10. ASSUME ~in, outs PROVE t = v
  <2>1. Len(t) = Len(v) /\ n2 = n - 1 /\ m2 = m
    BY SMT, <1>1, <1>2, <1>4, <1>8, <1>10
  <2>2. ASSUME NEW i \in 1..Len(t) PROVE t[i] = v[i]
    <3>1. i \in Nat /\ 1 <= i /\ i <= n /\ i \in 1..n-1 /\ i \in 1..n2
      <4>1. i \in 1..n-1 /\ i \in 1..n2
        BY <1>4, <2>1
      <4> QED BY SMT, <1>1, <4>1
    <3>2. Wrap(r2 + i - 1) = Wrap(r + i)
      BY <1>9, <1>10, <3>1
    <3>3. t[i] = m[Wrap(r2 + i - 1)]
      BY <1>4, <2>1, <3>1
    <3>4. v[i] = m[Wrap(r + i)]
      BY <1>8, <1>10, <3>1
    <3> QED BY <3>2, <3>3, <3>4
  <2>3. t = v
    <3> HIDE DEF v
    <3> QED BY <1>4, <1>8, <1>10, <2>1, <2>2, SameSeq
  <2> QED BY <2>3
<1>11. ASSUME in, outs PROVE t = Append(v, b)
  <2> DEFINE u == Append(v, b)
  <2>1. /\ u \in Seq(Bytes) /\ Len(u) = n /\ u[n] = b
        /\ \A i \in 1..n-1 : u[i] = v[i]
    BY SMT, <1>1, <1>8, <1>11, AppendProperties
  <2>2. Len(t) = Len(u)
    BY SMT, <1>2, <1>4, <1>11, <2>1
  <2>3. ASSUME NEW i \in 1..Len(t) PROVE t[i] = u[i]
    <3>1. /\ i \in Nat /\ 1 <= i /\ i <= n /\ m2 = [m EXCEPT ![w] = b]
          /\ t[i] = m2[Wrap(r + i)]
      BY SMT, <1>1, <1>2, <1>4, <1>9, <1>11
    <3>2. CASE i = n
      BY SMT, <1>1, <2>1, <3>1, <3>2
    <3>3. CASE i # n
      <4>1. Wrap(r + i) # w /\ Wrap(r + i) \in 0..Depth-1 /\ i \in 1..n-1
        BY SMT, <1>1, <3>1, <3>3 DEF Wrap
      <4> QED BY SMT, <1>1, <1>8, <1>11, <2>1, <3>1, <4>1
    <3> QED BY <3>2, <3>3
  <2>4. t = u
    <3> HIDE DEF u
    <3> QED BY <1>4, <2>1, <2>2, <2>3, SameSeq
  <2> QED BY <2>4
<1> QED BY <1>5, <1>6, <1>7, <1>10, <1>11 DEF g, q, t, r, m

LEMMA ClearedOK ==
  ASSUME NEW f, FifoOK(f)
  PROVE  /\ FifoOK(Cleared(f)) /\ Contents(Cleared(f)) = <<>>
         /\ Cleared(f).count = 0
<1> DEFINE g == Cleared(f)
           Fifos == [mem : [0..Depth-1 -> Bytes], rd_ptr : 0..Depth-1,
                     wr_ptr : 0..Depth-1, count : 0..Depth]
<1>1. /\ g.mem = f.mem /\ g.rd_ptr = 0 /\ g.wr_ptr = 0 /\ g.count = 0
      /\ g \in Fifos
  <2>1. 0 \in 0..Depth-1 /\ 0 \in 0..Depth
    BY SMT, UartAssumption
  <2>2. f \in Fifos
    BY DEF FifoOK
  <2> QED BY <2>1, <2>2 DEF Cleared
<1>2. FifoOK(g)
  <2>1. (0 + 0) % Depth = 0
    BY SMT, UartAssumption
  <2> QED BY <1>1, <2>1 DEF FifoOK
<1>3. Contents(g) \in Seq(Bytes) /\ Len(Contents(g)) = 0
  BY <1>1, <1>2, ContentsType
<1>4. Contents(g) = <<>>
  <2> HIDE DEF g
  <2> QED BY <1>3, EmptySeq
<1> QED BY <1>1, <1>2, <1>4

\* A step of BoundedFifo, or none.
QueueStep(q, q2, v, v2) ==
  \/ q2 = q /\ v2 = v
  \/ \E item \in Bytes : Len(q) < Depth /\ q2 = Append(q, item) /\ v2 = v
  \/ \E item \in Bytes : q # <<>> /\ v2 = Head(q) /\ q2 = Append(Tail(q), item)
  \/ q # <<>> /\ v2 = Head(q) /\ q2 = Tail(q)
  \/ q2 = <<>> /\ (v2 = v \/ (q # <<>> /\ v2 = Head(q)))

LEMMA FifoStep ==
  ASSUME NEW f, FifoOK(f), NEW in \in BOOLEAN, NEW outs \in BOOLEAN, NEW b \in Bytes,
         outs => f.count # 0, in => f.count # Depth \/ outs,
         NEW f2, f2 = Moved(f, in, b, outs) \/ f2 = Cleared(Moved(f, in, b, outs)),
         NEW v \in Bytes, NEW v2, v2 = IF outs THEN f.mem[f.rd_ptr] ELSE v
  PROVE  FifoOK(f2) /\ v2 \in Bytes /\ QueueStep(Contents(f), Contents(f2), v, v2)
<1> DEFINE g == Moved(f, in, b, outs)
           q == Contents(f)
           t == Contents(g)
<1>1. /\ ~in /\ ~outs => t = q
      /\ in /\ ~outs => Len(q) < Depth /\ t = Append(q, b)
      /\ ~in /\ outs => t = Tail(q)
      /\ in /\ outs => t = Append(Tail(q), b)
      /\ outs => q # <<>> /\ Head(q) = f.mem[f.rd_ptr]
  BY MovedQueue
<1>2. FifoOK(g)
  BY MovedOK
<1>3. FifoOK(Cleared(g)) /\ Contents(Cleared(g)) = <<>>
  BY <1>2, ClearedOK
<1>4. f.mem[f.rd_ptr] \in Bytes
  <2>1. f.mem \in [0..Depth-1 -> Bytes] /\ f.rd_ptr \in 0..Depth-1
    BY SMT, Fields
  <2> QED BY <2>1
<1> HIDE DEF g, q, t
<1>5. CASE f2 = g
  <2>1. Contents(f2) = t
    BY <1>5 DEF t
  <2>2. QueueStep(q, t, v, v2)
    BY <1>1 DEF QueueStep
  <2> QED BY <1>2, <1>4, <1>5, <2>1, <2>2 DEF q
<1>6. CASE f2 = Cleared(g)
  <2>1. QueueStep(q, <<>>, v, v2)
    BY <1>1 DEF QueueStep
  <2> QED BY <1>3, <1>4, <1>6, <2>1 DEF q
<1> QED BY <1>5, <1>6 DEF g

-----------------------------------------------------------------------------
(* The port *)

UInv ==
  /\ FifoOK(tx) /\ FifoOK(rx)
  /\ {tx_shift, rx_shift, got, said, heard} \subseteq Bytes
  /\ tx_state \in {"IDLE", "BUSY"}

Accesses == {"none", "clear", "read STATUS", "write TX", "read RX"}

\* Every step is a clock.
LEMMA StepIsClock ==
  ASSUME UartNext
  PROVE  \E acc \in Accesses, ends, arrives \in BOOLEAN : Clock(acc, ends, arrives)
BY DEF UartNext, uart_init_div, Computes, uart_putc, uart_getc, uart_wait_tx_idle,
       Goes, Accesses

LEMMA ClockStep ==
  ASSUME UInv, NEW acc, NEW ends \in BOOLEAN, NEW arrives \in BOOLEAN,
         Clock(acc, ends, arrives)
  PROVE  /\ UInv'
         /\ QueueStep(Contents(tx), Contents(tx'), tx_shift, tx_shift')
         /\ QueueStep(Contents(rx), Contents(rx'), got, got')
<1> DEFINE pop == tx_state = "IDLE" /\ tx.count # 0
           write == acc = "write TX" /\ (~tx_fifo_full \/ pop)
           read == acc = "read RX" /\ rx.count # 0
           push == arrives /\ (rx.count # Depth \/ read)
<1>1. /\ FifoOK(tx) /\ FifoOK(rx)
      /\ tx_shift \in Bytes /\ rx_shift \in Bytes /\ got \in Bytes
      /\ said \in Bytes /\ heard \in Bytes
  BY DEF UInv
<1>2. /\ tx' = Moved(tx, write, said, pop) \/ tx' = Cleared(Moved(tx, write, said, pop))
      /\ tx_shift' = IF pop THEN tx.mem[tx.rd_ptr] ELSE tx_shift
      /\ rx' = Moved(rx, push, rx_shift, read)
         \/ rx' = Cleared(Moved(rx, push, rx_shift, read))
      /\ got' = IF read THEN rx.mem[rx.rd_ptr] ELSE got
      /\ heard' = IF pop THEN After(heard) ELSE heard
      /\ said' = IF acc = "write TX" THEN After(said) ELSE said
      /\ rx_shift' = IF arrives THEN After(rx_shift) ELSE rx_shift
      /\ tx_state' = "BUSY" \/ tx_state' = "IDLE" \/ tx_state' = tx_state
  BY DEF Clock, Transmits, Receives
<1>3. /\ pop \in BOOLEAN /\ write \in BOOLEAN /\ read \in BOOLEAN /\ push \in BOOLEAN
      /\ pop => tx.count # 0
      /\ write => tx.count # Depth \/ pop
      /\ read => rx.count # 0
      /\ push => rx.count # Depth \/ read
  BY DEF tx_fifo_full
<1> HIDE DEF pop, write, read, push
<1>4. FifoOK(tx') /\ tx_shift' \in Bytes
      /\ QueueStep(Contents(tx), Contents(tx'), tx_shift, tx_shift')
  BY ZenonT(60), <1>1, <1>2, <1>3, FifoStep
<1>5. FifoOK(rx') /\ got' \in Bytes
      /\ QueueStep(Contents(rx), Contents(rx'), got, got')
  BY ZenonT(60), <1>1, <1>2, <1>3, FifoStep
<1>6. heard' \in Bytes /\ said' \in Bytes /\ rx_shift' \in Bytes
  BY <1>1, <1>2, AfterType
<1>7. tx_state' \in {"IDLE", "BUSY"}
  BY <1>2 DEF UInv
<1>8. FifoOK(tx)' /\ FifoOK(rx)'
  BY <1>4, <1>5 DEF FifoOK
<1> QED BY <1>4, <1>5, <1>6, <1>7, <1>8 DEF UInv

LEMMA InitUInv == UartInit => UInv
<1> SUFFICES ASSUME UartInit PROVE UInv
  OBVIOUS
<1>1. 0 \in Bytes /\ 0 \in 0..Depth-1 /\ 0 \in 0..Depth /\ (0 + 0) % Depth = 0
  BY SMT, UartAssumption DEF Bytes
<1>2. FifoOK(Empty)
  BY <1>1 DEF FifoOK, Empty
<1> QED BY <1>1, <1>2 DEF UartInit, UInv

LEMMA InitQueues == UartInit => TxQueue!QueueInit /\ RxQueue!QueueInit
<1> SUFFICES ASSUME UartInit PROVE TxQueue!QueueInit /\ RxQueue!QueueInit
  OBVIOUS
<1>1. FifoOK(tx) /\ FifoOK(rx) /\ tx.count = 0 /\ rx.count = 0
      /\ tx_shift \in Bytes /\ got \in Bytes
  BY InitUInv DEF UInv, UartInit, Empty
<1>2. /\ Contents(tx) \in Seq(Bytes) /\ Len(Contents(tx)) = 0
      /\ Contents(rx) \in Seq(Bytes) /\ Len(Contents(rx)) = 0
  BY <1>1, ContentsType
<1>3. Contents(tx) = <<>> /\ Contents(rx) = <<>>
  BY <1>2, EmptySeq
<1> QED BY <1>1, <1>3 DEF TxQueue!QueueInit, RxQueue!QueueInit

LEMMA StepUInv == UInv /\ [UartNext]_uartVars => UInv'
<1> SUFFICES ASSUME UInv, [UartNext]_uartVars PROVE UInv'
  OBVIOUS
<1>1. CASE UartNext
  <2>1. PICK acc \in Accesses, ends, arrives \in BOOLEAN : Clock(acc, ends, arrives)
    BY <1>1, StepIsClock
  <2> QED BY <2>1, ClockStep
<1>2. CASE UNCHANGED uartVars
  BY <1>2 DEF UInv, FifoOK, uartVars
<1> QED BY <1>1, <1>2

LEMMA StepQueues ==
  UInv /\ [UartNext]_uartVars =>
      /\ [TxQueue!QueueNext]_<<Contents(tx), tx_shift>>
      /\ [RxQueue!QueueNext]_<<Contents(rx), got>>
<1> SUFFICES ASSUME UInv, [UartNext]_uartVars
             PROVE  /\ [TxQueue!QueueNext]_<<Contents(tx), tx_shift>>
                    /\ [RxQueue!QueueNext]_<<Contents(rx), got>>
  OBVIOUS
<1>0. Contents(tx)' = Contents(tx') /\ Contents(rx)' = Contents(rx')
  BY DEF Contents
<1>1. CASE UartNext
  <2>1. PICK acc \in Accesses, ends, arrives \in BOOLEAN : Clock(acc, ends, arrives)
    BY <1>1, StepIsClock
  <2>2. /\ QueueStep(Contents(tx), Contents(tx)', tx_shift, tx_shift')
        /\ QueueStep(Contents(rx), Contents(rx)', got, got')
    BY <1>0, <2>1, ClockStep
  <2>3. [TxQueue!QueueNext]_<<Contents(tx), tx_shift>>
    BY <2>2 DEF QueueStep, TxQueue!QueueNext, TxQueue!Push, TxQueue!Pop,
                TxQueue!PushAndPop, TxQueue!Clear
  <2>4. [RxQueue!QueueNext]_<<Contents(rx), got>>
    BY <2>2 DEF QueueStep, RxQueue!QueueNext, RxQueue!Push, RxQueue!Pop,
                RxQueue!PushAndPop, RxQueue!Clear
  <2> QED BY <2>3, <2>4
<1>2. CASE UNCHANGED uartVars
  BY <1>0, <1>2 DEF uartVars
<1> QED BY <1>1, <1>2

\* uart_wb.v:89, 400: the transmit and the receive FIFO are queues, at every
\* depth and whatever the program and the line do in the same clock.
THEOREM FifosAreQueuesAlways == UartSpec => FifosAreQueues
<1>1. UartInit => UInv /\ TxQueue!QueueInit /\ RxQueue!QueueInit
  BY InitUInv, InitQueues
<1>2. UInv /\ [UartNext]_uartVars =>
        /\ UInv'
        /\ [TxQueue!QueueNext]_<<Contents(tx), tx_shift>>
        /\ [RxQueue!QueueNext]_<<Contents(rx), got>>
  BY StepUInv, StepQueues
<1> QED BY <1>1, <1>2, PTL DEF UartSpec, FifosAreQueues, TxQueue!QueueSpec, RxQueue!QueueSpec

-----------------------------------------------------------------------------
(* What a program says *)

\* The byte n after b.
Ahead(b, n) == IF b + n <= Depth THEN b + n ELSE b + n - Depth - 1

LEMMA AfterIs ==
  ASSUME NEW b \in Bytes
  PROVE  After(b) = Ahead(b, 1) /\ b \in Nat /\ b <= Depth
BY SMT, UartAssumption DEF After, Ahead, Bytes

Step(b, moves) == IF moves THEN Ahead(b, 1) ELSE b
Counted(n, in, outs) ==
  IF in /\ ~outs THEN n + 1 ELSE IF outs /\ ~in THEN n - 1 ELSE n

LEMMA AheadStays ==
  ASSUME NEW h \in Nat, h <= Depth, NEW n \in Nat, n <= Depth,
         NEW in \in BOOLEAN, NEW outs \in BOOLEAN, outs => n # 0, in => n # Depth
  PROVE  Step(Ahead(h, n), in) = Ahead(Step(h, outs), Counted(n, in, outs))
<1>1. CASE in /\ outs
  BY SMT, <1>1, UartAssumption DEF Ahead, Counted, Step
<1>2. CASE in /\ ~outs
  BY SMT, <1>2, UartAssumption DEF Ahead, Counted, Step
<1>3. CASE ~in /\ outs
  BY SMT, <1>3, UartAssumption DEF Ahead, Counted, Step
<1>4. CASE ~in /\ ~outs
  BY SMT, <1>4, UartAssumption DEF Ahead, Counted, Step
<1> QED BY <1>1, <1>2, <1>3, <1>4

LEMMA CountedFalls ==
  ASSUME NEW n \in Nat, NEW in \in BOOLEAN, NEW outs \in BOOLEAN, outs => n # 0, ~in
  PROVE  Counted(n, in, outs) \in Nat /\ Counted(n, in, outs) <= n
<1>1. CASE outs
  BY SMT, <1>1 DEF Counted
<1>2. CASE ~outs
  BY SMT, <1>2 DEF Counted
<1> QED BY <1>1, <1>2

LEMMA MovedFifo ==
  ASSUME NEW f, FifoOK(f), NEW in \in BOOLEAN, NEW outs \in BOOLEAN, NEW b \in Bytes,
         outs => f.count # 0, in => f.count # Depth \/ outs
  PROVE  FifoOK(Moved(f, in, b, outs))
BY MovedOK

\* What has been written and is not on the line yet is in the FIFO.
SInv ==
  /\ said = Ahead(heard, tx.count)
  /\ pc = "store" => tx.count # Depth
  /\ pc = "init" => tx.count = 0 /\ tx_state = "IDLE"

\* How a clock moves the transmitter's side.
LEMMA TxClock ==
  ASSUME UInv, SInv, NEW acc, NEW ends \in BOOLEAN, NEW arrives \in BOOLEAN,
         Clock(acc, ends, arrives), acc = "write TX" => pc = "store",
         acc = "clear" => pc = "init"
  PROVE  /\ said' = Ahead(heard', tx'.count)
         /\ acc # "write TX" => tx'.count \in Nat /\ tx'.count <= tx.count
         /\ tx.count = 0 /\ tx_state = "IDLE" /\ acc # "write TX" => tx_state' = "IDLE"
<1> DEFINE pop == tx_state = "IDLE" /\ tx.count # 0
           write == acc = "write TX" /\ (~tx_fifo_full \/ pop)
           g == Moved(tx, write, said, pop)
           n == tx.count
           n2 == tx'.count
<1>1. /\ tx' = IF acc = "clear" THEN Cleared(g) ELSE g
      /\ heard' = IF pop THEN After(heard) ELSE heard
      /\ said' = IF acc = "write TX" THEN After(said) ELSE said
      /\ tx_state' = CASE pop -> "BUSY" [] ends -> "IDLE" [] OTHER -> tx_state
  BY DEF Clock, Transmits, Receives
<1>2. /\ FifoOK(tx) /\ said \in Bytes /\ heard \in Bytes
      /\ n \in Nat /\ n <= Depth /\ Depth \in Nat /\ Depth > 0
      /\ said \in Nat /\ said <= Depth /\ heard \in Nat /\ heard <= Depth
      /\ said = Ahead(heard, n)
  BY Fields, AfterIs DEF UInv, SInv
<1>3. g.count = Counted(n, write, pop) /\ FifoOK(g)
  <2>1. /\ write \in BOOLEAN /\ pop \in BOOLEAN
        /\ pop => tx.count # 0
        /\ write => tx.count # Depth \/ pop
    BY DEF tx_fifo_full
  <2> HIDE DEF write, pop
  <2>2. FifoOK(tx) /\ said \in Bytes
    BY <1>2
  <2>3. FifoOK(Moved(tx, write, said, pop))
    BY <2>1, <2>2, MovedFifo
  <2>4. g.count = Counted(n, write, pop)
    <3> HIDE DEF n
    <3> QED BY DEF Moved, Counted, n
  <2> QED BY <2>3, <2>4
<1>4. write <=> acc = "write TX"
  BY DEF SInv, tx_fifo_full
<1>5. Cleared(g).count = 0
  <2> HIDE DEF g
  <2> QED BY <1>3, ClearedOK
<1>6. acc = "clear" => ~pop /\ ~write /\ n = 0
  BY DEF SInv
<1>7. n2 = Counted(n, write, pop)
  BY <1>1, <1>3, <1>5, <1>6 DEF Counted
<1>8. /\ heard' = IF pop THEN Ahead(heard, 1) ELSE heard
      /\ said' = IF write THEN Ahead(said, 1) ELSE said
      /\ pop \in BOOLEAN /\ write \in BOOLEAN
      /\ pop => n # 0
      /\ write => n # Depth
  BY <1>1, <1>2, <1>4, AfterIs DEF SInv
<1>9. n = 0 /\ tx_state = "IDLE" => tx_state' = "IDLE"
  BY <1>1
<1> HIDE DEF g, n, n2, write, pop
<1>10. said' = Ahead(heard', n2) /\ (~write => n2 \in Nat /\ n2 <= n)
  <2>1. heard \in Nat /\ heard <= Depth /\ n \in Nat /\ n <= Depth
    BY <1>2
  <2>2. Step(Ahead(heard, n), write) = Ahead(Step(heard, pop), Counted(n, write, pop))
    BY ZenonT(60), <1>8, <2>1, AheadStays
  <2>3. ~write => Counted(n, write, pop) \in Nat /\ Counted(n, write, pop) <= n
    BY <1>8, <2>1, CountedFalls
  <2>4. said' = Step(Ahead(heard, n), write) /\ heard' = Step(heard, pop)
    BY <1>2, <1>8 DEF Step
  <2> QED BY <1>7, <2>2, <2>3, <2>4
<1> QED BY <1>4, <1>9, <1>10 DEF n, n2

\* The same for any access but a write.
LEMMA TxQuiet ==
  ASSUME UInv, SInv, NEW acc \in {"none", "read STATUS"},
         NEW ends \in BOOLEAN, NEW arrives \in BOOLEAN, Clock(acc, ends, arrives)
  PROVE  /\ said' = Ahead(heard', tx'.count)
         /\ tx'.count \in Nat /\ tx'.count <= tx.count
         /\ tx.count = 0 /\ tx_state = "IDLE" => tx_state' = "IDLE"
<1>1. acc # "write TX" /\ acc # "clear"
  OBVIOUS
<1> QED BY <1>1, TxClock

LEMMA InitSInv == UartInit => SInv
<1> SUFFICES ASSUME UartInit PROVE SInv
  OBVIOUS
<1>1. Ahead(0, 0) = 0
  BY SMT, UartAssumption DEF Ahead
<1> QED BY <1>1 DEF UartInit, Empty, SInv

LEMMA StepSInv == UInv /\ SInv /\ [UartNext]_uartVars => SInv'
<1> SUFFICES ASSUME UInv, SInv, [UartNext]_uartVars PROVE SInv'
  OBVIOUS
<1>0. Ahead(heard, tx.count)' = Ahead(heard', tx'.count)
  BY DEF Ahead
<1>1. tx.count \in Nat /\ tx.count <= Depth /\ Depth \in Nat
  BY Fields DEF UInv
<1>2. CASE UNCHANGED uartVars
  BY <1>0, <1>2 DEF SInv, uartVars
<1>3. ASSUME NEW ends \in BOOLEAN, NEW arrives \in BOOLEAN,
             uart_init_div(ends, arrives)
      PROVE  SInv'
  <2>1. Clock("clear", ends, arrives) /\ pc = "init" /\ pc' = "run"
    BY <1>3 DEF uart_init_div, Goes
  <2> QED BY <1>0, <2>1, TxClock DEF SInv
<1>4. ASSUME NEW ends \in BOOLEAN, NEW arrives \in BOOLEAN,
             Computes(ends, arrives)
      PROVE  SInv'
  <2>1. Clock("none", ends, arrives) /\ (pc' = pc \/ pc' \in {"putc", "getc", "wait"})
    BY <1>4 DEF Computes, Goes
  <2>2. /\ said' = Ahead(heard', tx'.count)
        /\ tx'.count \in Nat /\ tx'.count <= tx.count
        /\ tx.count = 0 /\ tx_state = "IDLE" => tx_state' = "IDLE"
    BY <2>1, TxQuiet
  <2>3. pc' = "store" => tx'.count # Depth
    BY SMT, <1>1, <2>1, <2>2 DEF SInv
  <2>4. pc' = "init" => tx'.count = 0 /\ tx_state' = "IDLE"
    BY SMT, <1>1, <2>1, <2>2 DEF SInv
  <2> QED BY <1>0, <2>2, <2>3, <2>4 DEF SInv
<1>5. ASSUME NEW ends \in BOOLEAN, NEW arrives \in BOOLEAN,
             uart_putc(ends, arrives)
      PROVE  SInv'
  <2>1. CASE Goes("store", "write TX", "run", ends, arrives)
    <3>1. Clock("write TX", ends, arrives) /\ pc = "store" /\ pc' = "run"
      BY <2>1 DEF Goes
    <3> QED BY <1>0, <3>1, TxClock DEF SInv
  <2>2. CASE Goes("putc", "read STATUS", IF tx_fifo_full THEN "putc" ELSE "store",
                  ends, arrives)
    <3>1. /\ Clock("read STATUS", ends, arrives)
          /\ pc' = "putc" \/ (pc' = "store" /\ tx.count # Depth)
      BY <2>2 DEF Goes, tx_fifo_full
    <3>2. said' = Ahead(heard', tx'.count) /\ tx'.count \in Nat /\ tx'.count <= tx.count
      BY <3>1, TxQuiet
    <3>3. tx.count # Depth => tx'.count # Depth
      BY SMT, <1>1, <3>2
    <3>4. pc' = "store" => tx'.count # Depth
      BY <3>1, <3>3
    <3> QED BY <1>0, <3>1, <3>2, <3>4 DEF SInv
  <2> QED BY <1>5, <2>1, <2>2 DEF uart_putc
<1>6. ASSUME NEW ends \in BOOLEAN, NEW arrives \in BOOLEAN,
             uart_getc(ends, arrives)
      PROVE  SInv'
  <2>1. PICK acc \in {"read STATUS", "read RX"} :
          Clock(acc, ends, arrives) /\ pc' \in {"run", "load"}
    BY <1>6 DEF uart_getc, Goes
  <2> QED BY <1>0, <2>1, TxClock DEF SInv
<1>7. ASSUME NEW ends \in BOOLEAN, NEW arrives \in BOOLEAN,
             uart_wait_tx_idle(ends, arrives)
      PROVE  SInv'
  <2>1. /\ Clock("read STATUS", ends, arrives)
        /\ pc' = "wait" \/ (pc' = "init" /\ tx.count = 0 /\ tx_state = "IDLE")
    BY <1>7 DEF uart_wait_tx_idle, Goes, transmit_pending
  <2>2. /\ said' = Ahead(heard', tx'.count)
        /\ tx'.count \in Nat /\ tx'.count <= tx.count
        /\ tx.count = 0 /\ tx_state = "IDLE" => tx_state' = "IDLE"
    BY <2>1, TxQuiet
  <2>3. tx.count = 0 => tx'.count = 0
    BY SMT, <2>2
  <2>4. pc' = "init" => tx'.count = 0 /\ tx_state' = "IDLE"
    BY <2>1, <2>2, <2>3
  <2> QED BY <1>0, <2>1, <2>2, <2>4 DEF SInv
<1> QED BY <1>2, <1>3, <1>4, <1>5, <1>6, <1>7 DEF UartNext

\* uart.c:45, 70: when the next program starts, every byte of the last one
\* has been on the line to its end.
THEOREM NothingLeftUnsaid == UartSpec => []EverythingSaid
<1>1. UartInit => UInv /\ SInv
  BY InitUInv, InitSInv
<1>2. UInv /\ SInv /\ [UartNext]_uartVars => UInv' /\ SInv'
  BY StepUInv, StepSInv
<1>3. UInv /\ SInv => EverythingSaid
  <2> SUFFICES ASSUME UInv, SInv, pc = "init" PROVE heard = said /\ tx_state = "IDLE"
    BY DEF EverythingSaid
  <2>1. said = Ahead(heard, 0) /\ heard \in Nat /\ heard <= Depth
    BY AfterIs DEF UInv, SInv
  <2>2. said = heard
    BY SMT, <2>1, UartAssumption DEF Ahead
  <2> QED BY <2>2 DEF SInv
<1> QED BY <1>1, <1>2, <1>3, PTL DEF UartSpec
-----------------------------------------------------------------------------
(* The key exchange *)

Rejects == <<"invert", "decaps_bad">>
CallLists ==
  {<<>>, <<"keygen">>, <<"keygen", "encaps">>, <<"encaps">>,
   <<"keygen", "encaps", "decaps", "invert", "decaps_bad">>,
   <<"encaps", "decaps", "invert", "decaps_bad">>,
   <<"decaps", "invert", "decaps_bad">>, Rejects, <<"decaps_bad">>}
Rejecting == calls \in {Rejects, <<"decaps_bad">>}

\* The flags tell the truth during the calls, too, but for the bit that is
\* inverted at that moment; pass vouches for the first secret, and the mark is
\* out of date only between the two calls of run_decaps_demo.
DemoInv ==
  /\ events \subseteq {"DIP3", "DIP4", "DIP5", "DIP6"}
  /\ calls \in CallLists
  /\ have_keypair => pk = "ref" /\ sk = "ref"
  /\ have_capsule =>
       ss_enc = "ref" /\ ct = IF calls = <<"decaps_bad">> THEN "inverted" ELSE "ref"
  /\ Rejecting /\ pass => ss_dec = "ref" /\ ss_enc = "ref"
  /\ ~Rejecting /\ gpio = "DECAPS" => ss_dec = ss_enc /\ ss_bad = "rejected"

LEMMA AppendToOne ==
  ASSUME NEW S, NEW a \in S, NEW b \in S
  PROVE  Append(<<a>>, b) = <<a, b>>
<1>1. /\ <<a>> \in Seq(S) /\ Len(<<a>>) = 1
      /\ <<a, b>> \in Seq(S) /\ Len(<<a, b>>) = 2
  OBVIOUS
<1>2. Append(<<a>>, b) \in Seq(S) /\ Len(Append(<<a>>, b)) = 2
  BY SMT, <1>1, AppendProperties
<1>3. \A i \in 1..2 : Append(<<a>>, b)[i] = <<a, b>>[i]
  BY SMT, <1>1, AppendProperties
<1> QED BY <1>1, <1>2, <1>3, SeqEqual

LEMMA BeforeThree ==
  ASSUME NEW S, NEW x \in S, NEW y \in S, NEW z \in S
  PROVE  /\ <<>> \o <<x, y, z>> = <<x, y, z>>
         /\ \A a \in S : <<a>> \o <<x, y, z>> = <<a, x, y, z>>
         /\ \A a, b \in S : <<a, b>> \o <<x, y, z>> = <<a, b, x, y, z>>
<1>1. <<x, y, z>> \in Seq(S) /\ Len(<<x, y, z>>) = 3
  OBVIOUS
<1>2. <<>> \o <<x, y, z>> = <<x, y, z>>
  BY <1>1, ConcatEmptySeq
<1>3. ASSUME NEW a \in S
      PROVE  <<a>> \o <<x, y, z>> = <<a, x, y, z>>
  <2> DEFINE s == <<a>> \o <<x, y, z>>
             t == <<a, x, y, z>>
  <2>1. <<a>> \in Seq(S) /\ Len(<<a>>) = 1 /\ t \in Seq(S) /\ Len(t) = 4
    OBVIOUS
  <2>2. s \in Seq(S) /\ Len(s) = 4
    BY SMT, <1>1, <2>1, ConcatProperties
  <2>3. \A i \in 1..4 : s[i] = IF i <= 1 THEN <<a>>[i] ELSE <<x, y, z>>[i - 1]
    BY SMT, <1>1, <2>1, ConcatProperties
  <2>4. \A i \in 1..4 : s[i] = t[i]
    <3> HIDE DEF s
    <3> QED BY SMT, <2>3
  <2> QED BY <2>1, <2>2, <2>4, SeqEqual
<1>4. ASSUME NEW a \in S, NEW b \in S
      PROVE  <<a, b>> \o <<x, y, z>> = <<a, b, x, y, z>>
  <2> DEFINE s == <<a, b>> \o <<x, y, z>>
             t == <<a, b, x, y, z>>
  <2>1. /\ <<a, b>> \in Seq(S) /\ Len(<<a, b>>) = 2
        /\ t \in Seq(S) /\ Len(t) = 5
    OBVIOUS
  <2>2. s \in Seq(S) /\ Len(s) = 5
    BY SMT, <1>1, <2>1, ConcatProperties
  <2>3. \A i \in 1..5 : s[i] = IF i <= 2 THEN <<a, b>>[i] ELSE <<x, y, z>>[i - 2]
    BY SMT, <1>1, <2>1, ConcatProperties
  <2>4. \A i \in 1..5 : s[i] = t[i]
    <3> HIDE DEF s
    <3> QED BY SMT, <2>3
  <2> QED BY <2>1, <2>2, <2>4, SeqEqual
<1> QED BY <1>2, <1>3, <1>4

LEMMA ListCalls ==
  ASSUME NEW e \in {"DIP4", "DIP5", "DIP6"}
  PROVE  Calls(e) \in CallLists \ {<<>>, Rejects, <<"decaps_bad">>}
<1>1. Keypair \in {<<>>, <<"keygen">>}
  BY DEF Keypair
<1>2. Append(Keypair, "encaps") \in {<<"encaps">>, <<"keygen", "encaps">>}
  <2>1. Append(<<>>, "encaps") = <<"encaps">>
    BY SMT
  <2>2. Append(<<"keygen">>, "encaps") = <<"keygen", "encaps">>
    <3> DEFINE S == {"keygen", "encaps"}
    <3>1. "keygen" \in S /\ "encaps" \in S
      OBVIOUS
    <3> QED BY <3>1, AppendToOne
  <2> QED BY <1>1, <2>1, <2>2
<1>3. Capsule \in {<<>>, <<"encaps">>, <<"keygen", "encaps">>}
  BY <1>2 DEF Capsule
<1>4. /\ <<>> \o <<"decaps", "invert", "decaps_bad">>
           = <<"decaps", "invert", "decaps_bad">>
      /\ <<"encaps">> \o <<"decaps", "invert", "decaps_bad">>
           = <<"encaps", "decaps", "invert", "decaps_bad">>
      /\ <<"keygen", "encaps">> \o <<"decaps", "invert", "decaps_bad">>
           = <<"keygen", "encaps", "decaps", "invert", "decaps_bad">>
  <2> DEFINE S == {"keygen", "encaps", "decaps", "invert", "decaps_bad"}
  <2>1. /\ "keygen" \in S /\ "encaps" \in S /\ "decaps" \in S
        /\ "invert" \in S /\ "decaps_bad" \in S
    OBVIOUS
  <2> HIDE DEF S
  <2> QED BY <2>1, BeforeThree
<1>5. Calls(e) \in {<<"keygen">>, <<"encaps">>, <<"keygen", "encaps">>,
                    <<"decaps", "invert", "decaps_bad">>,
                    <<"encaps", "decaps", "invert", "decaps_bad">>,
                    <<"keygen", "encaps", "decaps", "invert", "decaps_bad">>}
  <2>1. CASE e = "DIP4"
    BY <2>1 DEF Calls
  <2>2. CASE e = "DIP5"
    BY <2>2, <1>2 DEF Calls
  <2>3. CASE e = "DIP6"
    BY <2>3, <1>3, <1>4 DEF Calls
  <2> QED BY <2>1, <2>2, <2>3
<1>6. /\ <<"keygen">> \notin {<<>>, Rejects, <<"decaps_bad">>}
      /\ <<"encaps">> \notin {<<>>, Rejects, <<"decaps_bad">>}
      /\ <<"keygen", "encaps">> \notin {<<>>, Rejects, <<"decaps_bad">>}
      /\ <<"decaps", "invert", "decaps_bad">> \notin {<<>>, Rejects, <<"decaps_bad">>}
      /\ <<"encaps", "decaps", "invert", "decaps_bad">>
           \notin {<<>>, Rejects, <<"decaps_bad">>}
      /\ <<"keygen", "encaps", "decaps", "invert", "decaps_bad">>
           \notin {<<>>, Rejects, <<"decaps_bad">>}
  BY SMT DEF Rejects
<1> QED BY <1>5, <1>6 DEF CallLists

\* The call at the head of a list, and what is left behind it.
LEMMA ListHeads ==
  ASSUME calls \in CallLists, calls # <<>>
  PROVE  /\ Head(calls) \in {"keygen", "encaps", "decaps"} =>
              ~Rejecting
         /\ Head(calls) = "keygen" =>
              Tail(calls) \in {<<>>, <<"encaps">>,
                               <<"encaps", "decaps", "invert", "decaps_bad">>}
         /\ Head(calls) = "encaps" =>
              Tail(calls) \in {<<>>, <<"decaps", "invert", "decaps_bad">>}
         /\ Head(calls) = "decaps" => Tail(calls) = Rejects
         /\ Head(calls) = "invert" =>
              calls = Rejects /\ Tail(calls) = <<"decaps_bad">>
         /\ Head(calls) = "decaps_bad" =>
              calls = <<"decaps_bad">> /\ Tail(calls) = <<>>
<1>1. CASE calls = <<"keygen">>
  BY SMT, <1>1 DEF Rejecting, Rejects
<1>2. CASE calls = <<"keygen", "encaps">>
  BY SMT, <1>2 DEF Rejecting, Rejects
<1>3. CASE calls = <<"encaps">>
  BY SMT, <1>3 DEF Rejecting, Rejects
<1>4. CASE calls = <<"keygen", "encaps", "decaps", "invert", "decaps_bad">>
  BY SMT, <1>4 DEF Rejecting, Rejects
<1>5. CASE calls = <<"encaps", "decaps", "invert", "decaps_bad">>
  BY SMT, <1>5 DEF Rejecting, Rejects
<1>6. CASE calls = <<"decaps", "invert", "decaps_bad">>
  BY SMT, <1>6 DEF Rejecting, Rejects
<1>7. CASE calls = Rejects
  BY SMT, <1>7 DEF Rejecting, Rejects
<1>8. CASE calls = <<"decaps_bad">>
  BY SMT, <1>8 DEF Rejecting, Rejects
<1> QED BY <1>1, <1>2, <1>3, <1>4, <1>5, <1>6, <1>7, <1>8 DEF CallLists

\* None of the lists that are left behind keygen, encaps and the rest is that
\* of the inverted bit.
LEMMA ListsDiffer ==
  /\ \A l \in {<<>>, <<"encaps">>, <<"encaps", "decaps", "invert", "decaps_bad">>,
               <<"decaps", "invert", "decaps_bad">>} :
       l \in CallLists /\ l \notin {Rejects, <<"decaps_bad">>}
  /\ Rejects # <<"decaps_bad">> /\ Rejects # <<>> /\ <<"decaps_bad">> # <<>>
BY SMT DEF CallLists, Rejects

LEMMA InitDemoInv == DemoInit => DemoInv
<1> SUFFICES ASSUME DemoInit PROVE DemoInv
  OBVIOUS
<1>1. ~Rejecting
  BY ListsDiffer DEF DemoInit, Rejecting
<1> QED BY <1>1 DEF DemoInit, DemoInv, CallLists

LEMMA StepDemoInv == DemoInv /\ [DemoNext]_demoVars => DemoInv'
<1> SUFFICES ASSUME DemoInv, [DemoNext]_demoVars PROVE DemoInv'
  OBVIOUS
<1> USE DEF At, Continue
<1>0. calls \in CallLists
  BY DEF DemoInv
<1>1. CASE UNCHANGED demoVars
  BY <1>1 DEF DemoInv, demoVars, buffers, Rejecting
<1>2. CASE TakeEvents
  BY <1>2 DEF TakeEvents, DemoInv, buffers, Rejecting
<1>3. ASSUME NEW e \in events, ProcessEvent(e) PROVE DemoInv'
  <2>1. calls = <<>> /\ ~Rejecting /\ calls # <<"decaps_bad">>
    BY <1>3, ListsDiffer DEF ProcessEvent, Rejecting
  <2>2. CASE e = "DIP3"
    BY <1>3, <2>1, <2>2 DEF ProcessEvent, DemoInv, buffers, Rejecting
  <2>3. CASE e # "DIP3"
    <3>1. e \in {"DIP4", "DIP5", "DIP6"}
      BY <2>3 DEF DemoInv
    <3>2. calls' \in CallLists /\ ~Rejecting' /\ calls' # <<"decaps_bad">>
      BY <1>3, <2>3, <3>1, ListCalls DEF ProcessEvent, Rejecting
    <3> QED BY <1>3, <2>1, <2>3, <3>2 DEF ProcessEvent, DemoInv, buffers
  <2> QED BY <2>2, <2>3
<1>4. ASSUME NEW ret \in Outcomes, run_keygen_demo(ret) PROVE DemoInv'
  <2>1. /\ calls # <<>> /\ ~Rejecting /\ calls # <<"decaps_bad">>
        /\ calls' \in CallLists /\ ~Rejecting' /\ calls' # <<"decaps_bad">>
    BY <1>4, <1>0, ListHeads, ListsDiffer DEF run_keygen_demo, Rejecting
  <2>2. gpio' # "DECAPS"
    BY <1>4 DEF run_keygen_demo
  <2>3. have_keypair' => pk' = "ref" /\ sk' = "ref"
    BY <1>4 DEF run_keygen_demo
  <2> QED BY <1>4, <2>1, <2>2, <2>3 DEF run_keygen_demo, DemoInv
<1>5. ASSUME NEW ret \in Outcomes, run_encaps_demo(ret) PROVE DemoInv'
  <2>1. /\ calls # <<>> /\ ~Rejecting /\ calls # <<"decaps_bad">>
        /\ calls' \in CallLists /\ ~Rejecting' /\ calls' # <<"decaps_bad">>
    BY <1>5, <1>0, ListHeads, ListsDiffer DEF run_encaps_demo, Rejecting
  <2>2. gpio' # "DECAPS"
    BY <1>5 DEF run_encaps_demo
  <2>3. have_capsule' => ct' = "ref" /\ ss_enc' = "ref"
    BY <1>5 DEF run_encaps_demo
  <2> QED BY <1>5, <2>1, <2>2, <2>3 DEF run_encaps_demo, DemoInv
<1>6. ASSUME NEW ret \in Outcomes, DecapsValid(ret) PROVE DemoInv'
  <2>1. calls # <<>> /\ Head(calls) = "decaps"
    BY <1>6 DEF DecapsValid
  <2>2. ~Rejecting /\ calls # <<"decaps_bad">> /\ Tail(calls) = Rejects
    BY <1>0, <2>1, ListHeads DEF Rejecting
  <2>3. CASE ret = "fails"
    <3>1. calls' = <<>> /\ ~Rejecting' /\ calls' # <<"decaps_bad">> /\ gpio' # "DECAPS"
      BY <1>6, <2>3, ListsDiffer DEF DecapsValid, Rejecting
    <3> QED BY <1>6, <2>2, <3>1 DEF DecapsValid, DemoInv, CallLists
  <2>4. CASE ret # "fails"
    <3>1. calls' = Rejects /\ Rejecting' /\ calls' # <<"decaps_bad">>
      BY <1>6, <2>2, <2>4, ListsDiffer DEF DecapsValid, Rejecting
    <3>2. pass' => ss_dec' = "ref" /\ ss_enc = "ref"
      BY <1>6, <2>4 DEF DecapsValid
    <3> QED BY <1>6, <2>2, <3>1, <3>2 DEF DecapsValid, DemoInv, CallLists
  <2> QED BY <2>3, <2>4
<1>7. ASSUME NEW ret \in Outcomes, DecapsInvalid(ret) PROVE DemoInv'
  <2>1. calls # <<>> /\ Head(calls) = "decaps_bad"
    BY <1>7 DEF DecapsInvalid
  <2>2. Rejecting /\ calls = <<"decaps_bad">> /\ Tail(calls) = <<>>
    BY <1>0, <2>1, ListHeads DEF Rejecting
  <2>3. calls' = <<>> /\ ~Rejecting' /\ calls' # <<"decaps_bad">>
    BY <1>7, <2>2, ListsDiffer DEF DecapsInvalid, Rejecting
  <2>4. have_capsule => ct' = "ref"
    BY <1>7, <2>2 DEF DecapsInvalid, DemoInv, Restore, Inverted
  <2>5. gpio' = "DECAPS" => pass /\ ss_bad' = "rejected"
    BY <1>7 DEF DecapsInvalid
  <2> QED BY <1>7, <2>2, <2>3, <2>4, <2>5 DEF DecapsInvalid, DemoInv, CallLists
<1>8. CASE InvertBit
  <2>1. calls # <<>> /\ Head(calls) = "invert"
    BY <1>8 DEF InvertBit
  <2>2. Rejecting /\ calls = Rejects /\ Tail(calls) = <<"decaps_bad">>
    BY <1>0, <2>1, ListHeads DEF Rejecting
  <2>3. calls' = <<"decaps_bad">> /\ Rejecting'
    BY <1>8, <2>2 DEF InvertBit, Rejecting
  <2>4. have_capsule => ct' = "inverted"
    BY <1>8, <2>2, ListsDiffer DEF InvertBit, DemoInv, Inverted
  <2> QED BY <1>8, <2>2, <2>3, <2>4 DEF InvertBit, DemoInv, CallLists
<1> QED BY <1>1, <1>2, <1>3, <1>4, <1>5, <1>6, <1>7, <1>8 DEF DemoNext

-----------------------------------------------------------------------------
(* The master and the receiver *)

Receivers ==
  [at : {"idle", "addr", "data", "skip"}, n : 0..9, byte : Nat, ack : BOOLEAN]
Writes == [byte : 0..255, flags : SUBSET Commands]

Active(rcv) == rcv.at \in {"addr", "data"}
\* Nothing of a byte is in: the next falling edge of SCL starts one.
Settled == Active(receiver) => receiver.n = 9
\* A command without a START has been given, SCL is still high.
Fresh == state = "WRITE_LOW" /\ ~scl_low /\ bit_count = 7
Continues == todo # <<>> /\ "start" \notin Head(todo).flags
Acknowledged ==
  state \in {"STOP_A", "STOP_B", "STOP_C", "DONE"} \/ (state = "IDLE" /\ sent # NoByte)
Place(n) ==
  CASE n = 0 -> 1 [] n = 1 -> 2 [] n = 2 -> 4 [] n = 3 -> 8 [] n = 4 -> 16
    [] n = 5 -> 32 [] n = 6 -> 64 [] n = 7 -> 128 [] n = 8 -> 256

I2cTypes ==
  /\ state \in {"IDLE", "START_A", "START_B", "START_C", "WRITE_LOW", "WRITE_HI",
                "WACK_LOW", "WACK_HI", "STOP_A", "STOP_B", "STOP_C", "DONE"}
  /\ shifter \in 0..255 /\ bit_count \in 0..7
  /\ scl_low \in BOOLEAN /\ sda_low \in BOOLEAN /\ pulled \in BOOLEAN
  /\ rxack \in BOOLEAN /\ arbitration_lost \in BOOLEAN
  /\ receiver \in Receivers
  /\ sent \in 0..255 \cup {NoByte}
  /\ state # "IDLE" => sent # NoByte

\* What each state of the FSM says of the two lines and who pulls them low.
Wires ==
  /\ receiver.ack => Active(receiver) /\ receiver.n = IF scl_low THEN 8 ELSE 9
  /\ pulled =>
       state = "WRITE_HI" \/ (state \in {"WRITE_LOW", "WACK_LOW"} /\ ~scl_low)
  /\ state \in {"IDLE", "START_A", "START_B", "DONE"} => ~scl_low /\ ~sda_low
  /\ state \in {"START_C", "STOP_C"} => ~scl_low /\ sda_low
  /\ state = "WRITE_HI" => scl_low /\ (sda_low <=> TopBit(shifter) = 0)
  /\ state \in {"WACK_LOW", "STOP_A"} => ~scl_low
  /\ state = "WACK_HI" => scl_low /\ ~sda_low
  /\ state = "STOP_B" => scl_low /\ sda_low

\* The receiver is where the FSM is, if it listens at all: what it has of the
\* byte and what is still in the shifter make the byte that is sent, unless the
\* arbitration is lost; what it acknowledges is that byte.
Heard ==
  /\ state \in {"START_A", "START_B", "START_C"} => ~arbitration_lost
  /\ state = "START_C" =>
       /\ Active(receiver)
       /\ ~receiver.ack => receiver.n = 0 /\ receiver.byte = 0
  /\ Fresh => Settled /\ shifter = sent
  /\ state \in {"WRITE_LOW", "WRITE_HI"} /\ ~Fresh /\ Active(receiver) =>
       /\ receiver.n = 7 - bit_count /\ ~receiver.ack
       /\ ~arbitration_lost =>
            256 * receiver.byte + shifter = sent * Place(receiver.n)
  /\ state = "WACK_LOW" /\ Active(receiver) =>
       /\ receiver.n = 8 /\ ~receiver.ack
       /\ ~arbitration_lost => receiver.byte = sent
  /\ state = "WACK_HI" =>
       /\ Active(receiver) => receiver.ack
       /\ receiver.ack /\ ~arbitration_lost => taken = sent
  /\ state \in {"STOP_A", "DONE"} => Settled
  /\ state = "IDLE" /\ (sent # NoByte \/ Continues) => Settled
  /\ state = "STOP_B" /\ Active(receiver) => receiver.n = 0
  /\ state = "STOP_C" /\ Active(receiver) => receiver.n = 1
  /\ Acknowledged /\ ~rxack /\ ~arbitration_lost => taken = sent

I2cInv == I2cTypes /\ Wires /\ Heard

LEMMA Empties ==
  ASSUME NEW at \in {"idle", "addr", "data", "skip"}
  PROVE  LET s == [Receiver EXCEPT !.at = at]
         IN  /\ s \in Receivers /\ s.at = at /\ s.n = 0 /\ s.byte = 0 /\ ~s.ack
             /\ Receiver \in Receivers /\ Receiver.at = "idle" /\ ~Receiver.ack
<1>1. Receiver = [at |-> "idle", n |-> 0, byte |-> 0, ack |-> FALSE]
  BY DEF Receiver
<1>2. 0 \in 0..9 /\ 0 \in Nat
  BY SMT
<1>3. /\ [at |-> at, n |-> 0, byte |-> 0, ack |-> FALSE] \in Receivers
      /\ [at |-> "idle", n |-> 0, byte |-> 0, ack |-> FALSE] \in Receivers
  BY <1>2 DEF Receivers
<1>4. [Receiver EXCEPT !.at = at] = [at |-> at, n |-> 0, byte |-> 0, ack |-> FALSE]
  <2>1. ASSUME NEW r \in Receivers
        PROVE  [r EXCEPT !.at = at] = [at |-> at, n |-> r.n, byte |-> r.byte, ack |-> r.ack]
    BY DEF Receivers
  <2>2. Receiver \in Receivers
    BY <1>1, <1>3
  <2>3. [Receiver EXCEPT !.at = at] =
          [at |-> at, n |-> Receiver.n, byte |-> Receiver.byte, ack |-> Receiver.ack]
    BY <2>1, <2>2, Zenon
  <2> QED BY <1>1, <2>3
<1> QED BY <1>1, <1>3, <1>4

LEMMA Rises ==
  ASSUME NEW r \in Receivers, NEW sda \in BOOLEAN
  PROVE  LET s == Rise(r, sda)
         IN  /\ s \in Receivers /\ s.at = r.at /\ s.ack = r.ack
             /\ r.n < 8 => /\ s.n = r.n + 1
                           /\ sda => s.byte = 2 * r.byte + 1
                           /\ ~sda => s.byte = 2 * r.byte
             /\ ~(r.n < 8) => s.n = 9 /\ s.byte = r.byte
<1>1. r.n \in 0..9 /\ r.byte \in Nat
  BY DEF Receivers
<1>2. CASE r.n < 8
  <2>1. r.n + 1 \in 0..9 /\ 2 * r.byte + 1 \in Nat /\ 2 * r.byte + 0 \in Nat
        /\ 2 * r.byte + 0 = 2 * r.byte
    BY SMT, <1>1, <1>2
  <2>2. CASE sda
    <3>1. Rise(r, sda) = [r EXCEPT !.n = r.n + 1, !.byte = 2 * r.byte + 1]
      BY <1>2, <2>2 DEF Rise
    <3> QED BY <1>2, <2>1, <2>2, <3>1 DEF Receivers
  <2>3. CASE ~sda
    <3>1. Rise(r, sda) = [r EXCEPT !.n = r.n + 1, !.byte = 2 * r.byte + 0]
      BY <1>2, <2>3 DEF Rise
    <3> QED BY <1>2, <2>1, <2>3, <3>1 DEF Receivers
  <2> QED BY <2>2, <2>3
<1>3. CASE ~(r.n < 8)
  <2>1. Rise(r, sda) = [r EXCEPT !.n = 9]
    BY <1>3 DEF Rise
  <2> QED BY <1>3, <2>1 DEF Receivers
<1> QED BY <1>2, <1>3

LEMMA Falls ==
  ASSUME NEW r \in Receivers, NEW accepts
  PROVE  LET s == Fall(r, accepts)
         IN  /\ s \in Receivers
             /\ r.n = 9 => Active(s) /\ s.n = 0 /\ s.byte = 0 /\ ~s.ack
             /\ r.n = 8 => \/ ~Active(s) /\ ~s.ack
                           \/ s.at = r.at /\ s.n = 8 /\ s.byte = r.byte /\ s.ack
             /\ r.n \notin {8, 9} => s = r
<1>1. CASE r.n = 9
  <2>1. Fall(r, accepts) = [Receiver EXCEPT !.at = "data"]
    BY <1>1 DEF Fall
  <2> QED BY <1>1, <2>1, Empties DEF Active
<1>2. CASE r.n = 8
  <2>1. CASE accepts /\ Wanted(r)
    <3>1. Fall(r, accepts) = [r EXCEPT !.ack = TRUE]
      BY <1>2, <2>1 DEF Fall
    <3>2. /\ r = [at |-> r.at, n |-> r.n, byte |-> r.byte, ack |-> r.ack]
          /\ r.at \in {"idle", "addr", "data", "skip"} /\ r.byte \in Nat
      BY DEF Receivers
    <3>3. Fall(r, accepts) = [at |-> r.at, n |-> 8, byte |-> r.byte, ack |-> TRUE]
      BY <1>2, <3>1, <3>2
    <3>4. 8 \in 0..9
      BY SMT
    <3> QED BY <1>2, <3>2, <3>3, <3>4 DEF Receivers
  <2>2. CASE ~(accepts /\ Wanted(r))
    <3>1. Fall(r, accepts) = [Receiver EXCEPT !.at = "skip"]
      BY <1>2, <2>2 DEF Fall
    <3> QED BY <1>2, <3>1, Empties DEF Active
  <2> QED BY <2>1, <2>2
<1>3. CASE r.n \notin {8, 9}
  BY <1>3 DEF Fall
<1> QED BY <1>1, <1>2, <1>3

Sda == Line(sda_low, receiver, pulled)
NextSda == Line(sda_low', receiver, pulled')

LEMMA LinesMove ==
  ASSUME I2cTypes, NEW accepts, NEW pull \in BOOLEAN, Tick(sent, pull, accepts),
         scl_low' \in BOOLEAN, sda_low' \in BOOLEAN
  PROVE  /\ Sda \in BOOLEAN /\ NextSda \in BOOLEAN
         /\ pulled' \in BOOLEAN
         /\ pull => state = "WRITE_LOW" /\ pulled'
         /\ ~pull => (pulled' <=> pulled /\ ~(scl_low' /\ ~scl_low))
         /\ receiver' \in Receivers
         /\ taken' = IF receiver'.ack /\ ~receiver.ack THEN receiver.byte ELSE taken
         /\ ~scl_low /\ ~scl_low' =>
              receiver' = IF Sda /\ ~NextSda THEN [Receiver EXCEPT !.at = "addr"]
                          ELSE IF ~Sda /\ NextSda THEN Receiver ELSE receiver
         /\ scl_low /\ scl_low' => receiver' = receiver
         /\ scl_low /\ ~scl_low' =>
              receiver' = IF Active(receiver) THEN Rise(receiver, NextSda) ELSE receiver
         /\ ~scl_low /\ scl_low' =>
              receiver' = IF Active(receiver) THEN Fall(receiver, accepts) ELSE receiver
<1>1. /\ Sda \in BOOLEAN /\ NextSda \in BOOLEAN
  BY DEF Sda, NextSda, Line
<1>2. /\ pulled' \in BOOLEAN
      /\ pull => state = "WRITE_LOW" /\ pulled'
      /\ ~pull => (pulled' <=> pulled /\ ~(scl_low' /\ ~scl_low))
  BY DEF Tick, I2cTypes
<1>3. /\ receiver' = Observe(receiver, ~scl_low, Sda, ~scl_low', NextSda, accepts)
      /\ taken' = IF receiver'.ack /\ ~receiver.ack THEN receiver.byte ELSE taken
  BY DEF Tick, BusMoves, Sda, NextSda
<1>4. receiver \in Receivers /\ scl_low \in BOOLEAN
  BY DEF I2cTypes
<1>5. CASE ~scl_low /\ ~scl_low'
  <2>1. receiver' = Observe(receiver, TRUE, Sda, TRUE, NextSda, accepts)
    <3>1. (~scl_low) = TRUE /\ (~scl_low') = TRUE
      BY <1>5
    <3> QED BY <1>3, <3>1
  <2>2. receiver' = IF Sda /\ ~NextSda THEN [Receiver EXCEPT !.at = "addr"]
                    ELSE IF ~Sda /\ NextSda THEN Receiver ELSE receiver
    <3>1. Observe(receiver, TRUE, Sda, TRUE, NextSda, accepts) =
                 IF Sda /\ ~NextSda THEN [Receiver EXCEPT !.at = "addr"]
                  ELSE IF ~Sda /\ NextSda THEN Receiver ELSE receiver
      BY DEF Observe, Active
    <3> QED BY <2>1, <3>1
  <2>3. receiver' \in Receivers
    BY <1>4, <2>2, Empties
  <2> QED BY <1>1, <1>2, <1>3, <1>5, <2>2, <2>3
<1>6. CASE scl_low /\ scl_low'
  <2>1. receiver' = Observe(receiver, FALSE, Sda, FALSE, NextSda, accepts)
    <3>1. (~scl_low) = FALSE /\ (~scl_low') = FALSE
      BY <1>6
    <3> QED BY <1>3, <3>1
  <2>2. receiver' = receiver
    <3>1. Observe(receiver, FALSE, Sda, FALSE, NextSda, accepts) =
                 receiver
      BY DEF Observe, Active
    <3> QED BY <2>1, <3>1
  <2> QED BY <1>1, <1>2, <1>3, <1>4, <1>6, <2>2
<1>7. CASE scl_low /\ ~scl_low'
  <2>1. receiver' = Observe(receiver, FALSE, Sda, TRUE, NextSda, accepts)
    <3>1. (~scl_low) = FALSE /\ (~scl_low') = TRUE
      BY <1>7
    <3> QED BY <1>3, <3>1
  <2>2. receiver' = IF Active(receiver) THEN Rise(receiver, NextSda) ELSE receiver
    <3>1. Observe(receiver, FALSE, Sda, TRUE, NextSda, accepts) =
                 IF Active(receiver) THEN Rise(receiver, NextSda) ELSE receiver
      BY DEF Observe, Active
    <3> QED BY <2>1, <3>1
  <2>3. receiver' \in Receivers
    BY <1>1, <1>4, <2>2, Rises
  <2> QED BY <1>1, <1>2, <1>3, <1>7, <2>2, <2>3
<1>8. CASE ~scl_low /\ scl_low'
  <2>1. receiver' = Observe(receiver, TRUE, Sda, FALSE, NextSda, accepts)
    <3>1. (~scl_low) = TRUE /\ (~scl_low') = FALSE
      BY <1>8
    <3> QED BY <1>3, <3>1
  <2>2. receiver' = IF Active(receiver) THEN Fall(receiver, accepts) ELSE receiver
    <3>1. Observe(receiver, TRUE, Sda, FALSE, NextSda, accepts) =
                 IF Active(receiver) THEN Fall(receiver, accepts) ELSE receiver
      BY DEF Observe, Active
    <3> QED BY <2>1, <3>1
  <2>3. receiver' \in Receivers
    BY <1>4, <2>2, Falls
  <2> QED BY <1>1, <1>2, <1>3, <1>8, <2>2, <2>3
<1> QED BY <1>4, <1>5, <1>6, <1>7, <1>8

\* The call's own state does not move in a tick.
Ticked(pull, accepts) == Tick(sent, pull, accepts) /\ UNCHANGED callVars

LEMMA TicksStart ==
  ASSUME I2cInv, NEW pull \in BOOLEAN, NEW accepts, Ticked(pull, accepts),
         START_A \/ START_B \/ START_C(sent)
  PROVE  I2cInv'
<1>1. /\ I2cTypes /\ Wires /\ Heard /\ Tick(sent, pull, accepts)
      /\ sent' = sent /\ sent \in 0..255 /\ todo' = todo
  BY ZenonT(60) DEF I2cInv, I2cTypes, Ticked, callVars, START_A, START_B, START_C
<1>2. receiver \in Receivers
  BY <1>1 DEF I2cTypes
<1>3. ~pulled /\ ~pull /\ ~Fresh' /\ ~Acknowledged'
  BY <1>1 DEF Wires, START_A, START_B, START_C, Go, Drives, Fresh, Acknowledged, Tick
<1>4. CASE START_A
  <2>1. /\ ~scl_low /\ ~sda_low /\ ~scl_low' /\ ~sda_low' /\ state' = "START_B" /\ state = "START_A"
        /\ scl_low' \in BOOLEAN /\ sda_low' \in BOOLEAN
        /\ rxack' = rxack /\ arbitration_lost' = arbitration_lost
        /\ shifter' = shifter /\ bit_count' = bit_count
    BY <1>1, <1>4 DEF Wires, START_A, Drives, Go, Flags, Shift
  <2>2. ~pulled' /\ pulled' \in BOOLEAN /\ (Sda <=> NextSda)
    BY <1>1, <1>3, <2>1, LinesMove DEF Sda, NextSda, Line
  <2>3. receiver' = receiver /\ taken' = taken
    BY <1>1, <2>1, <2>2, LinesMove
  <2>4. I2cTypes'
    BY SMT, <1>1, <2>1, <2>2, <2>3 DEF I2cTypes
  <2>5. Wires'
    BY <1>1, <2>1, <2>2, <2>3 DEF Wires
  <2>6. Heard'
    BY <1>1, <1>3, <1>4, <2>1, <2>3 DEF Heard, START_A
  <2> QED BY <2>4, <2>5, <2>6 DEF I2cInv
<1>5. CASE START_B
  <2>1. /\ ~scl_low /\ ~sda_low /\ ~scl_low' /\ sda_low' /\ state' = "START_C" /\ state = "START_B"
        /\ scl_low' \in BOOLEAN /\ sda_low' \in BOOLEAN
        /\ rxack' = rxack /\ arbitration_lost' = arbitration_lost
        /\ shifter' = shifter /\ bit_count' = bit_count
    BY <1>1, <1>5 DEF Wires, START_B, Drives, Go, Flags, Shift, I2cTypes
  <2>2. ~pulled' /\ pulled' \in BOOLEAN /\ ~NextSda /\ (Sda <=> ~receiver.ack)
    BY <1>1, <1>3, <2>1, LinesMove DEF Sda, NextSda, Line
  <2>3. receiver' = IF receiver.ack THEN receiver ELSE [Receiver EXCEPT !.at = "addr"]
    BY <1>1, <2>1, <2>2, LinesMove
  <2>4. receiver' \in Receivers
    BY <1>2, <2>3, Empties
  <2>5. /\ Active(receiver')
        /\ receiver'.ack => receiver'.n = 9
        /\ ~receiver'.ack => receiver'.n = 0 /\ receiver'.byte = 0
    BY <1>1, <2>1, <2>3, Empties DEF Active, Wires
  <2>6. I2cTypes'
    BY SMT, <1>1, <2>1, <2>2, <2>4 DEF I2cTypes
  <2>7. Wires'
    BY <2>1, <2>2, <2>5 DEF Wires, Active
  <2>8. Heard'
    BY <1>1, <1>3, <1>5, <2>1, <2>5 DEF Heard, START_B, Active
  <2> QED BY <2>6, <2>7, <2>8 DEF I2cInv
<1>6. CASE START_C(sent)
  <2>1. /\ ~scl_low /\ scl_low' /\ state' = "WRITE_LOW" /\ state = "START_C"
        /\ scl_low' \in BOOLEAN /\ sda_low' \in BOOLEAN
        /\ shifter' = sent /\ bit_count' = 7
        /\ rxack' = rxack /\ arbitration_lost' = arbitration_lost
    BY <1>1, <1>6 DEF Wires, START_C, Drives, Go, Flags, Shift, I2cTypes
  <2>2. ~pulled' /\ pulled' \in BOOLEAN
    BY <1>1, <1>3, <2>1, LinesMove
  <2>3. receiver' = Fall(receiver, accepts) /\ receiver' \in Receivers
    BY <1>1, <2>1, LinesMove DEF Heard
  <2>4. receiver.n = 9 \/ (receiver.n = 0 /\ receiver.byte = 0 /\ ~receiver.ack)
    BY <1>1, <2>1 DEF Heard, Wires
  <2>5. Active(receiver') /\ receiver'.n = 0 /\ receiver'.byte = 0 /\ ~receiver'.ack
    <3>1. CASE receiver.n = 9
      BY <1>2, <2>3, <3>1, Falls
    <3>2. CASE receiver.n = 0 /\ receiver.byte = 0 /\ ~receiver.ack
      <4>1. 0 \notin {8, 9}
        BY SMT
      <4>2. receiver' = receiver
        BY <1>2, <2>3, <3>2, <4>1, Falls
      <4> QED BY <1>1, <2>1, <3>2, <4>2 DEF Heard
    <3> QED BY <2>4, <3>1, <3>2
  <2>6. I2cTypes'
    BY SMT, <1>1, <2>1, <2>2, <2>3 DEF I2cTypes
  <2>7. Wires'
    BY <2>1, <2>2, <2>5 DEF Wires
  <2>8. Heard'
    <3>1. 0 = 7 - 7 /\ 256 * 0 + sent = sent * Place(0)
      BY SMT, <1>1 DEF Place
    <3> QED BY <1>1, <1>3, <2>1, <2>5, <3>1 DEF Heard
  <2> QED BY <2>6, <2>7, <2>8 DEF I2cInv
<1> QED BY <1>4, <1>5, <1>6

LEMMA TicksLow ==
  ASSUME I2cInv, NEW pull \in BOOLEAN, NEW accepts, Ticked(pull, accepts), WRITE_LOW
  PROVE  I2cInv'
<1>1. /\ I2cTypes /\ Wires /\ Heard /\ Tick(sent, pull, accepts)
      /\ sent' = sent /\ sent \in 0..255 /\ todo' = todo /\ receiver \in Receivers
      /\ shifter \in 0..255 /\ bit_count \in 0..7
  BY DEF I2cInv, I2cTypes, Ticked, callVars, WRITE_LOW
<1>2. /\ scl_low' /\ (sda_low' <=> TopBit(shifter) = 0)
      /\ state = "WRITE_LOW" /\ state' = "WRITE_HI"
      /\ scl_low' \in BOOLEAN /\ sda_low' \in BOOLEAN
      /\ rxack' = rxack /\ arbitration_lost' = arbitration_lost
      /\ shifter' = shifter /\ bit_count' = bit_count
  BY DEF WRITE_LOW, Drives, Go, Flags, Shift
<1>3. /\ pulled' \in BOOLEAN /\ receiver' \in Receivers /\ ~Fresh' /\ ~Acknowledged'
  BY <1>1, <1>2, LinesMove DEF Fresh, Acknowledged
<1>4. /\ ~receiver'.ack
      /\ Active(receiver') =>
           /\ receiver'.n = 7 - bit_count
           /\ ~arbitration_lost =>
                256 * receiver'.byte + shifter = sent * Place(receiver'.n)
  <2>1. CASE ~Active(receiver)
    <3>1. receiver' = receiver
      BY <1>1, <1>2, <2>1, LinesMove DEF I2cTypes
    <3> QED BY <1>1, <2>1, <3>1 DEF Wires
  <2>2. CASE Active(receiver) /\ Fresh
    <3>1. receiver.n = 9 /\ shifter = sent /\ ~scl_low /\ bit_count = 7
      BY <1>1, <2>2 DEF Heard, Settled, Fresh
    <3>2. receiver' = Fall(receiver, accepts)
      BY <1>1, <1>2, <2>2, <3>1, LinesMove
    <3>3. receiver'.n = 0 /\ receiver'.byte = 0 /\ ~receiver'.ack
      BY <1>1, <3>1, <3>2, Falls
    <3>4. 0 = 7 - 7 /\ 256 * 0 + sent = sent * Place(0)
      BY SMT, <1>1 DEF Place
    <3> QED BY <3>1, <3>3, <3>4
  <2>3. CASE Active(receiver) /\ ~Fresh
    <3>1. /\ receiver.n = 7 - bit_count /\ ~receiver.ack
          /\ ~arbitration_lost =>
               256 * receiver.byte + shifter = sent * Place(receiver.n)
      BY <1>1, <1>2, <2>3 DEF Heard
    <3>2. receiver' = receiver
      <4>1. CASE scl_low
        BY <1>1, <1>2, <4>1, LinesMove
      <4>2. CASE ~scl_low
        <5>1. receiver.n \notin {8, 9}
          BY SMT, <1>1, <3>1
        <5>2. receiver' = Fall(receiver, accepts)
          BY <1>1, <1>2, <2>3, <4>2, LinesMove
        <5> QED BY <1>1, <5>1, <5>2, Falls
      <4> QED BY <4>1, <4>2
    <3> QED BY <3>1, <3>2
  <2> QED BY <2>1, <2>2, <2>3
<1>5. I2cTypes'
  BY SMT, <1>1, <1>2, <1>3 DEF I2cTypes
<1>6. Wires'
  BY <1>2, <1>4 DEF Wires
<1>7. Heard'
  BY <1>2, <1>3, <1>4, <1>1 DEF Heard
<1> QED BY <1>5, <1>6, <1>7 DEF I2cInv

LEMMA Shifted ==
  ASSUME NEW v \in 0..255
  PROVE  /\ TopBit(v) \in {0, 1}
         /\ (2 * v) % 256 \in 0..255
         /\ 2 * v = 256 * TopBit(v) + ((2 * v) % 256)
BY SMT DEF TopBit

LEMMA Places ==
  ASSUME NEW n \in 0..7, NEW v \in Int
  PROVE  /\ v * Place(n) \in Int /\ v * Place(n + 1) = 2 * (v * Place(n))
         /\ v * Place(8) = 256 * v
<1>1. v * Place(8) = 256 * v
  BY SMT DEF Place
<1>2. n \in {0, 1, 2, 3, 4, 5, 6, 7}
  BY SMT
<1>3. CASE n = 0
  BY SMT, <1>3 DEF Place
<1>4. CASE n = 1
  BY SMT, <1>4 DEF Place
<1>5. CASE n = 2
  BY SMT, <1>5 DEF Place
<1>6. CASE n = 3
  BY SMT, <1>6 DEF Place
<1>7. CASE n = 4
  BY SMT, <1>7 DEF Place
<1>8. CASE n = 5
  BY SMT, <1>8 DEF Place
<1>9. CASE n = 6
  BY SMT, <1>9 DEF Place
<1>10. CASE n = 7
  BY SMT, <1>10 DEF Place
<1> QED BY <1>1, <1>2, <1>3, <1>4, <1>5, <1>6, <1>7, <1>8, <1>9, <1>10

LEMMA TicksHigh ==
  ASSUME I2cInv, NEW pull \in BOOLEAN, NEW accepts, Ticked(pull, accepts), WRITE_HI
  PROVE  I2cInv'
<1>1. /\ I2cTypes /\ Wires /\ Heard /\ Tick(sent, pull, accepts)
      /\ sent' = sent /\ sent \in 0..255 /\ todo' = todo /\ receiver \in Receivers
      /\ shifter \in 0..255 /\ bit_count \in 0..7
      /\ scl_low \in BOOLEAN /\ sda_low \in BOOLEAN /\ state = "WRITE_HI"
      /\ receiver.n \in 0..9 /\ receiver.byte \in Nat
  BY DEF I2cInv, I2cTypes, Ticked, callVars, WRITE_HI, Receivers
<1>2. /\ scl_low /\ ~scl_low' /\ sda_low' = sda_low /\ (sda_low <=> TopBit(shifter) = 0)
      /\ ~pull /\ scl_low' \in BOOLEAN /\ sda_low' \in BOOLEAN
      /\ rxack' = rxack /\ shifter' = (2 * shifter) % 256
      /\ arbitration_lost' = (arbitration_lost \/ (TopBit(shifter) = 1 /\ ~sda_i))
  BY <1>1 DEF WRITE_HI, Drives, Wires, Tick
<1>3. \/ bit_count = 0 /\ state' = "WACK_LOW" /\ bit_count' = 0
      \/ bit_count # 0 /\ state' = "WRITE_LOW" /\ bit_count' = bit_count - 1
  BY DEF WRITE_HI, Go
<1>4. /\ pulled' \in BOOLEAN /\ receiver' \in Receivers /\ (pulled' <=> pulled)
      /\ arbitration_lost' \in BOOLEAN
      /\ receiver' = IF Active(receiver) THEN Rise(receiver, NextSda) ELSE receiver
      /\ NextSda \in BOOLEAN /\ (NextSda <=> sda_i)
      /\ taken' = IF receiver'.ack /\ ~receiver.ack THEN receiver.byte ELSE taken
  <2>1. /\ pulled' \in BOOLEAN /\ receiver' \in Receivers /\ (pulled' <=> pulled)
        /\ receiver' = IF Active(receiver) THEN Rise(receiver, NextSda) ELSE receiver
        /\ NextSda \in BOOLEAN
        /\ taken' = IF receiver'.ack /\ ~receiver.ack THEN receiver.byte ELSE taken
    BY <1>1, <1>2, LinesMove
  <2>2. NextSda <=> sda_i
    BY <1>2, <2>1 DEF NextSda, sda_i, Line
  <2>3. arbitration_lost' \in BOOLEAN
    BY <1>1, <1>2 DEF I2cTypes
  <2> QED BY <2>1, <2>2, <2>3
<1>5. bit_count' \in 0..7 /\ shifter' \in 0..255
  <2>1. shifter' \in 0..255
    BY <1>1, <1>2, Shifted
  <2>2. bit_count' \in 0..7
    BY SMT, <1>1, <1>3
  <2> QED BY <2>1, <2>2
<1>6. ~Fresh' /\ ~Acknowledged'
  <2>1. bit_count # 0 => bit_count - 1 # 7
    BY SMT, <1>1
  <2> QED BY <1>3, <2>1 DEF Fresh, Acknowledged
<1>7. /\ ~receiver'.ack
      /\ Active(receiver') =>
           /\ receiver'.n = 8 - bit_count
           /\ ~arbitration_lost' =>
                256 * receiver'.byte + shifter' = sent * Place(receiver'.n)
  <2>1. CASE ~Active(receiver)
    BY <1>1, <1>4, <2>1 DEF Wires
  <2>2. CASE Active(receiver)
    <3>1. /\ receiver.n = 7 - bit_count /\ ~receiver.ack
          /\ ~arbitration_lost =>
               256 * receiver.byte + shifter = sent * Place(receiver.n)
      BY <1>1, <2>2 DEF Heard, Fresh
    <3>2. receiver.n \in 0..7 /\ receiver.n < 8 /\ receiver.n + 1 = 8 - bit_count
      BY SMT, <1>1, <3>1
    <3>3. /\ receiver'.ack = receiver.ack /\ receiver'.n = receiver.n + 1
          /\ NextSda => receiver'.byte = 2 * receiver.byte + 1
          /\ ~NextSda => receiver'.byte = 2 * receiver.byte
      BY <1>1, <1>4, <2>2, <3>2, Rises
    <3>4. ASSUME ~arbitration_lost'
          PROVE  256 * receiver'.byte + shifter' = sent * Place(receiver.n + 1)
      <4>1. ~arbitration_lost /\ ~(TopBit(shifter) = 1 /\ ~NextSda)
        BY <1>2, <1>4, <3>4
      <4>2. TopBit(shifter) \in {0, 1} /\ 2 * shifter = 256 * TopBit(shifter) + shifter'
        BY <1>1, <1>2, Shifted
      <4>3. TopBit(shifter) = 0 => ~NextSda
        BY <1>2, <1>4 DEF sda_i, Line
      <4>4. receiver'.byte = 2 * receiver.byte + TopBit(shifter)
        <5>1. CASE TopBit(shifter) = 0
          <6>1. 2 * receiver.byte + 0 = 2 * receiver.byte
            BY SMT, <1>1
          <6> QED BY <3>3, <4>3, <5>1, <6>1
        <5>2. CASE TopBit(shifter) = 1
          BY <3>3, <4>1, <5>2
        <5> QED BY <4>2, <5>1, <5>2
      <4>5. 256 * receiver.byte + shifter = sent * Place(receiver.n)
        BY <3>1, <4>1
      <4>6. sent \in Int
        BY SMT, <1>1
      <4>7. /\ sent * Place(receiver.n) \in Int
            /\ sent * Place(receiver.n + 1) = 2 * (sent * Place(receiver.n))
        BY ZenonT(60), <3>2, <4>6, Places
      <4> DEFINE b == receiver.byte
                 b2 == receiver'.byte
                 t == TopBit(shifter)
                 p == sent * Place(receiver.n)
                 p2 == sent * Place(receiver.n + 1)
                 s == shifter
                 s2 == shifter'
      <4>8. /\ b \in Nat /\ b2 = 2 * b + t /\ 2 * s = 256 * t + s2
            /\ 256 * b + s = p /\ p2 = 2 * p /\ p \in Int /\ t \in {0, 1}
            /\ s \in 0..255 /\ s2 \in 0..255
        BY <1>1, <1>5, <4>2, <4>4, <4>5, <4>7
      <4> HIDE DEF b, b2, t, p, p2, s, s2
      <4>9. 256 * b2 + s2 = p2
        BY SMT, <4>8
      <4> QED BY <4>9 DEF b2, p2, s2
    <3> QED BY <3>1, <3>2, <3>3, <3>4
  <2> QED BY <2>1, <2>2
<1>8. I2cTypes'
  <2>1. state' # "IDLE" => sent' # NoByte
    BY <1>1 DEF I2cTypes
  <2> QED BY SMT, <1>1, <1>2, <1>3, <1>4, <1>5, <2>1 DEF I2cTypes
<1>9. Wires'
  BY <1>2, <1>3, <1>4, <1>7 DEF Wires
<1>10. Heard'
  <2>1. CASE bit_count = 0
    <3>1. Active(receiver') => /\ receiver'.n = 8
                               /\ ~arbitration_lost' => receiver'.byte = sent
      <4> SUFFICES ASSUME Active(receiver')
                   PROVE  /\ receiver'.n = 8
                          /\ ~arbitration_lost' => receiver'.byte = sent
        OBVIOUS
      <4>1. receiver'.n = 8
        BY SMT, <1>7, <2>1
      <4>2. ~arbitration_lost' => 256 * receiver'.byte + shifter' = sent * Place(8)
        BY <1>7, <4>1
      <4>3. sent * Place(8) = 256 * sent
        BY SMT, <1>1, Places
      <4>4. receiver'.byte \in Nat
        BY <1>4 DEF Receivers
      <4>5. ~arbitration_lost' => receiver'.byte = sent
        BY SMT, <1>1, <1>5, <4>2, <4>3, <4>4
      <4> QED BY <4>1, <4>5
    <3>2. state' = "WACK_LOW"
      BY <1>3, <2>1
    <3>3. sent' = sent
      BY <1>1
    <3> QED BY <1>6, <1>7, <3>1, <3>2, <3>3 DEF Heard
  <2>2. CASE bit_count # 0
    <3>1. 8 - bit_count = 7 - bit_count'
      BY SMT, <1>1, <1>3, <2>2
    <3>2. state' = "WRITE_LOW"
      BY <1>3, <2>2
    <3>3. sent' = sent
      BY <1>1
    <3> QED BY <1>6, <1>7, <3>1, <3>2, <3>3 DEF Heard
  <2> QED BY <2>1, <2>2
<1> QED BY <1>8, <1>9, <1>10 DEF I2cInv

LEMMA TicksAck ==
  ASSUME I2cInv, NEW pull \in BOOLEAN, NEW accepts, Ticked(pull, accepts),
         WACK_LOW \/ WACK_HI
  PROVE  I2cInv'
<1>1. /\ I2cTypes /\ Wires /\ Heard /\ Tick(sent, pull, accepts)
      /\ sent' = sent /\ sent \in 0..255 /\ todo' = todo /\ receiver \in Receivers
      /\ sent' # NoByte
  BY ZenonT(60) DEF I2cInv, I2cTypes, Ticked, callVars, WACK_LOW, WACK_HI
<1>2. ~Fresh' /\ ~pull
  BY <1>1 DEF WACK_LOW, WACK_HI, Go, Fresh, Tick
<1>3. CASE WACK_LOW
  <2>1. /\ ~scl_low /\ scl_low' /\ ~sda_low' /\ state' = "WACK_HI" /\ state = "WACK_LOW"
        /\ scl_low' \in BOOLEAN /\ sda_low' \in BOOLEAN
        /\ rxack' = rxack /\ arbitration_lost' = arbitration_lost
        /\ shifter' = shifter /\ bit_count' = bit_count
    BY <1>1, <1>3 DEF Wires, WACK_LOW, Drives, Go, Flags, Shift
  <2>2. /\ ~pulled' /\ pulled' \in BOOLEAN /\ receiver' \in Receivers
        /\ receiver' = IF Active(receiver) THEN Fall(receiver, accepts) ELSE receiver
        /\ taken' = IF receiver'.ack /\ ~receiver.ack THEN receiver.byte ELSE taken
    BY <1>1, <1>2, <2>1, LinesMove
  <2>3. /\ receiver'.ack => Active(receiver') /\ receiver'.n = 8
        /\ Active(receiver') => receiver'.ack
        /\ receiver'.ack /\ ~arbitration_lost => taken' = sent
    <3>1. CASE ~Active(receiver)
      BY <1>1, <2>2, <3>1 DEF Wires
    <3>2. CASE Active(receiver)
      <4>1. /\ receiver.n = 8 /\ ~receiver.ack
            /\ ~arbitration_lost => receiver.byte = sent
        BY <1>1, <2>1, <3>2 DEF Heard
      <4>2. CASE ~Active(receiver') /\ ~receiver'.ack
        BY <4>2
      <4>3. CASE receiver'.at = receiver.at /\ receiver'.n = 8 /\ receiver'.ack
        <5>1. Active(receiver')
          BY <3>2, <4>3 DEF Active
        <5> QED BY <2>2, <4>1, <4>3, <5>1
      <4> QED BY <1>1, <2>2, <3>2, <4>1, <4>2, <4>3, Falls
    <3> QED BY <3>1, <3>2
  <2>4. I2cTypes'
    BY SMT, <1>1, <2>1, <2>2 DEF I2cTypes
  <2>5. Wires'
    BY <2>1, <2>2, <2>3 DEF Wires
  <2>6. Heard'
    BY <1>1, <1>2, <2>1, <2>3 DEF Heard, Acknowledged
  <2> QED BY <2>4, <2>5, <2>6 DEF I2cInv
<1>4. CASE WACK_HI
  <2>1. /\ scl_low /\ ~scl_low' /\ ~sda_low /\ ~sda_low' /\ state = "WACK_HI"
        /\ state' \in {"STOP_A", "DONE"}
        /\ scl_low' \in BOOLEAN /\ sda_low' \in BOOLEAN
        /\ rxack' = sda_i /\ arbitration_lost' = arbitration_lost
        /\ shifter' = shifter /\ bit_count' = bit_count
    <3>1. /\ scl_low /\ ~sda_low /\ state = "WACK_HI"
      BY <1>1, <1>4 DEF Wires, WACK_HI
    <3>2. /\ ~scl_low' /\ scl_low' \in BOOLEAN /\ sda_low' = sda_low
          /\ rxack' = sda_i /\ arbitration_lost' = arbitration_lost
          /\ shifter' = shifter /\ bit_count' = bit_count
      BY <1>4 DEF WACK_HI, Drives, Shift
    <3>3. state' \in {"STOP_A", "DONE"}
      BY <1>4 DEF WACK_HI, Go
    <3>4. sda_low \in BOOLEAN
      BY <1>1 DEF I2cTypes
    <3> QED BY <3>1, <3>2, <3>3, <3>4
  <2>2. /\ ~pulled /\ ~pulled' /\ pulled' \in BOOLEAN /\ receiver' \in Receivers
        /\ receiver' = IF Active(receiver) THEN Rise(receiver, NextSda) ELSE receiver
        /\ taken' = IF receiver'.ack /\ ~receiver.ack THEN receiver.byte ELSE taken
        /\ NextSda \in BOOLEAN
    <3>1. ~pulled
      BY <1>1, <2>1 DEF Wires
    <3> QED BY <1>1, <1>2, <2>1, <3>1, LinesMove
  <2>3. /\ receiver'.ack = receiver.ack /\ (Active(receiver') <=> Active(receiver))
        /\ Active(receiver') => receiver'.ack /\ receiver'.n = 9
        /\ receiver.ack => Active(receiver)
    <3>1. receiver.ack => Active(receiver) /\ receiver.n = 8
      BY <1>1, <2>1 DEF Wires
    <3>2. CASE ~Active(receiver)
      BY <2>2, <3>1, <3>2
    <3>3. CASE Active(receiver)
      <4>1. receiver.ack /\ receiver.n = 8
        BY <1>1, <2>1, <3>1, <3>3 DEF Heard
      <4>2. ~(8 < 8)
        BY SMT
      <4>3. receiver'.at = receiver.at /\ receiver'.ack = receiver.ack /\ receiver'.n = 9
        BY <1>1, <2>2, <3>3, <4>1, <4>2, Rises
      <4> QED BY <3>3, <4>1, <4>3 DEF Active
    <3> QED BY <3>2, <3>3
  <2>4. taken' = taken /\ (~rxack' => receiver.ack) /\ rxack' \in BOOLEAN
    BY <2>1, <2>2, <2>3 DEF sda_i, Line
  <2>5. I2cTypes'
    <3>1. state' \in {"IDLE", "START_A", "START_B", "START_C", "WRITE_LOW", "WRITE_HI",
                      "WACK_LOW", "WACK_HI", "STOP_A", "STOP_B", "STOP_C", "DONE"}
      BY <2>1
    <3> QED BY SMT, <1>1, <2>1, <2>2, <2>4, <3>1 DEF I2cTypes
  <2>6. Wires'
    BY <2>1, <2>2, <2>3 DEF Wires
  <2>7. Settled'
    BY <2>3 DEF Settled
  <2>8. receiver.ack /\ ~arbitration_lost => taken = sent
    BY <1>1, <2>1 DEF Heard
  <2>9. Heard'
    BY <1>1, <1>2, <2>1, <2>3, <2>4, <2>7, <2>8 DEF Heard, Acknowledged
  <2> QED BY <2>5, <2>6, <2>9 DEF I2cInv
<1> QED BY <1>3, <1>4

LEMMA TicksStop ==
  ASSUME I2cInv, NEW pull \in BOOLEAN, NEW accepts, Ticked(pull, accepts),
         STOP_A \/ STOP_B \/ STOP_C \/ DONE
  PROVE  I2cInv'
<1>1. /\ I2cTypes /\ Wires /\ Heard /\ Tick(sent, pull, accepts)
      /\ sent' = sent /\ sent \in 0..255 /\ todo' = todo /\ receiver \in Receivers
      /\ sent' # NoByte
      /\ rxack' = rxack /\ arbitration_lost' = arbitration_lost
      /\ shifter' = shifter /\ bit_count' = bit_count
  BY DEF I2cInv, I2cTypes, Ticked, callVars, STOP_A, STOP_B, STOP_C, DONE, Flags, Shift
<1>2. ~Fresh' /\ ~pull /\ Acknowledged /\ ~pulled
  BY <1>1 DEF STOP_A, STOP_B, STOP_C, DONE, Go, Fresh, Tick, Acknowledged, Wires
<1>3. ~rxack /\ ~arbitration_lost => taken = sent
  BY <1>1, <1>2 DEF Heard
<1>4. CASE STOP_A
  <2>1. /\ ~scl_low /\ scl_low' /\ sda_low' /\ state' = "STOP_B" /\ state = "STOP_A"
        /\ scl_low' \in BOOLEAN /\ sda_low' \in BOOLEAN
    BY <1>1, <1>4 DEF Wires, STOP_A, Drives, Go
  <2>2. /\ ~pulled' /\ pulled' \in BOOLEAN /\ receiver' \in Receivers
        /\ receiver' = IF Active(receiver) THEN Fall(receiver, accepts) ELSE receiver
        /\ taken' = IF receiver'.ack /\ ~receiver.ack THEN receiver.byte ELSE taken
    BY <1>1, <1>2, <2>1, LinesMove
  <2>3. ~receiver'.ack /\ (Active(receiver') => receiver'.n = 0)
    <3>1. CASE ~Active(receiver)
      BY <1>1, <2>2, <3>1 DEF Wires
    <3>2. CASE Active(receiver)
      <4>1. receiver.n = 9
        BY <1>1, <2>1, <3>2 DEF Heard, Settled
      <4> QED BY <1>1, <2>2, <3>2, <4>1, Falls
    <3> QED BY <3>1, <3>2
  <2>4. I2cTypes'
    BY SMT, <1>1, <2>1, <2>2 DEF I2cTypes
  <2>5. Wires'
    BY <2>1, <2>2, <2>3 DEF Wires
  <2>6. Heard'
    BY <1>1, <1>2, <1>3, <2>1, <2>2, <2>3 DEF Heard, Acknowledged
  <2> QED BY <2>4, <2>5, <2>6 DEF I2cInv
<1>5. CASE STOP_B
  <2>1. /\ scl_low /\ ~scl_low' /\ sda_low' /\ state' = "STOP_C" /\ state = "STOP_B"
        /\ scl_low' \in BOOLEAN /\ sda_low' \in BOOLEAN
    BY <1>1, <1>5 DEF Wires, STOP_B, Drives, Go
  <2>2. /\ ~pulled' /\ pulled' \in BOOLEAN /\ receiver' \in Receivers
        /\ receiver' = IF Active(receiver) THEN Rise(receiver, NextSda) ELSE receiver
        /\ taken' = IF receiver'.ack /\ ~receiver.ack THEN receiver.byte ELSE taken
        /\ NextSda \in BOOLEAN
    BY <1>1, <1>2, <2>1, LinesMove
  <2>3. ~receiver'.ack /\ (Active(receiver') => receiver'.n = 1)
    <3>1. CASE ~Active(receiver)
      BY <1>1, <2>2, <3>1 DEF Wires
    <3>2. CASE Active(receiver)
      <4>1. receiver.n = 0 /\ 0 < 8 /\ 0 + 1 = 1 /\ 0 # 8
        <5>1. receiver.n = 0
          BY <1>1, <2>1, <3>2 DEF Heard
        <5> QED BY SMT, <5>1
      <4>2. ~receiver.ack
        BY <1>1, <2>1, <4>1 DEF Wires
      <4> QED BY SMTT(40), <1>1, <2>2, <3>2, <4>1, <4>2, Rises
    <3> QED BY <3>1, <3>2
  <2>4. I2cTypes'
    BY SMT, <1>1, <2>1, <2>2 DEF I2cTypes
  <2>5. Wires'
    BY <2>1, <2>2, <2>3 DEF Wires
  <2>6. Heard'
    BY <1>1, <1>2, <1>3, <2>1, <2>2, <2>3 DEF Heard, Acknowledged
  <2> QED BY <2>4, <2>5, <2>6 DEF I2cInv
<1>6. CASE STOP_C
  <2>1. /\ ~scl_low /\ ~scl_low' /\ sda_low /\ ~sda_low'
        /\ state' = "DONE" /\ state = "STOP_C"
        /\ scl_low' \in BOOLEAN /\ sda_low' \in BOOLEAN
    BY <1>1, <1>6 DEF Wires, STOP_C, Drives, Go, I2cTypes
  <2>2. ~receiver.ack
    <3>1. 1 # 9
      BY SMT
    <3> QED BY <1>1, <2>1, <3>1 DEF Wires, Heard
  <2>3. ~pulled' /\ pulled' \in BOOLEAN /\ ~Sda /\ NextSda
    BY <1>1, <1>2, <2>1, <2>2, LinesMove DEF Sda, NextSda, Line
  <2>4. /\ receiver' = Receiver /\ receiver' \in Receivers
        /\ taken' = IF receiver'.ack /\ ~receiver.ack THEN receiver.byte ELSE taken
    BY <1>1, <2>1, <2>3, LinesMove
  <2>5. ~receiver'.ack /\ receiver'.at = "idle"
    <3>1. "idle" \in {"idle", "addr", "data", "skip"}
      OBVIOUS
    <3> QED BY <2>4, <3>1, Empties
  <2>6. ~Active(receiver')
    BY <2>5 DEF Active
  <2>7. I2cTypes'
    BY SMT, <1>1, <2>1, <2>3, <2>4 DEF I2cTypes
  <2>8. Wires'
    BY <2>1, <2>3, <2>5 DEF Wires
  <2>9. Heard'
    BY <1>1, <1>2, <1>3, <2>1, <2>4, <2>5, <2>6 DEF Heard, Acknowledged, Settled
  <2> QED BY <2>7, <2>8, <2>9 DEF I2cInv
<1>7. CASE DONE
  <2>1. /\ ~scl_low /\ ~scl_low' /\ ~sda_low /\ ~sda_low'
        /\ state' = "IDLE" /\ state = "DONE"
        /\ scl_low' \in BOOLEAN /\ sda_low' \in BOOLEAN
    BY <1>1, <1>7 DEF Wires, DONE, Drives, Go, I2cTypes
  <2>2. ~pulled' /\ pulled' \in BOOLEAN /\ (Sda <=> NextSda)
    BY <1>1, <1>2, <2>1, LinesMove DEF Sda, NextSda, Line
  <2>3. receiver' = receiver /\ taken' = taken
    BY <1>1, <2>1, <2>2, LinesMove
  <2>4. Settled'
    BY <1>1, <2>1, <2>3 DEF Heard, Settled
  <2>5. I2cTypes'
    BY SMT, <1>1, <2>1, <2>2, <2>3 DEF I2cTypes
  <2>6. Wires'
    BY <1>1, <2>1, <2>2, <2>3 DEF Wires
  <2>7. Heard'
    BY <1>1, <1>2, <1>3, <2>1, <2>3, <2>4 DEF Heard, Acknowledged
  <2> QED BY <2>5, <2>6, <2>7 DEF I2cInv
<1> QED BY <1>4, <1>5, <1>6, <1>7

-----------------------------------------------------------------------------
(* The calls *)

\* The writes of a call: the first of them sends a START.
Call(s) == s \in Seq(Writes) /\ s # <<>> /\ "start" \in Head(s).flags

TodoInv ==
  /\ todo \in Seq(Writes)
  /\ backlight \in {0, LCD_BACKLIGHT}
  /\ sent # NoByte => todo # <<>>

LEMMA JoinedCalls ==
  ASSUME NEW s, NEW t, Call(s), t \in Seq(Writes)
  PROVE  Call(s \o t)
<1>1. /\ s \in Seq(Writes) /\ Len(s) \in Nat /\ Len(t) \in Nat /\ Len(s) # 0
      /\ Head(s) = s[1]
  BY SMT DEF Call
<1>2. /\ s \o t \in Seq(Writes) /\ Len(s \o t) = Len(s) + Len(t)
      /\ \A i \in 1 .. Len(s) + Len(t) :
           (s \o t)[i] = IF i <= Len(s) THEN s[i] ELSE t[i - Len(s)]
  BY <1>1, ConcatProperties
<1>3. 1 \in 1 .. Len(s) + Len(t) /\ 1 <= Len(s) /\ Len(s \o t) # 0
  BY SMT, <1>1, <1>2
<1>4. (s \o t)[1] = s[1] /\ s \o t # <<>>
  BY <1>2, <1>3, EmptySeq
<1>5. Head(s \o t) = (s \o t)[1]
  BY <1>2, <1>4
<1> QED BY <1>1, <1>2, <1>4, <1>5 DEF Call

LEMMA OneWrite ==
  ASSUME NEW byte \in 0..255, NEW flags \in SUBSET Commands
  PROVE  /\ i2c_write_cmd(byte, flags) \in Seq(Writes)
         /\ "start" \in flags => Call(i2c_write_cmd(byte, flags))
<1> DEFINE w == [byte |-> byte, flags |-> flags \cup {"write"}]
<1>1. w \in Writes /\ w.flags = flags \cup {"write"}
  BY DEF Writes, Commands
<1>2. i2c_write_cmd(byte, flags) = <<w>>
  BY DEF i2c_write_cmd
<1> HIDE DEF w
<1>3. <<w>> \in Seq(Writes) /\ <<w>> # <<>> /\ Head(<<w>>) = w
  BY SMT, <1>1
<1> QED BY <1>1, <1>2, <1>3 DEF Call

LEMMA ExpanderWrite ==
  ASSUME NEW value \in 0..255
  PROVE  Call(lcd_expander_write(value))
<1>1. 2 * Address \in 0..255
  BY SMT, LcdAssumption
<1>2. {"start"} \in SUBSET Commands /\ {"stop"} \in SUBSET Commands
  BY DEF Commands
<1>3. Call(i2c_write_cmd(2 * Address, {"start"}))
  BY <1>1, <1>2, OneWrite
<1>4. i2c_write_cmd(value, {"stop"}) \in Seq(Writes)
  BY <1>2, OneWrite
<1> QED BY <1>3, <1>4, JoinedCalls DEF lcd_expander_write

LEMMA WriteNibble ==
  ASSUME NEW nibble \in Nat, NEW flags \in 0..9
  PROVE  Call(lcd_write_nibble(nibble, flags))
<1> DEFINE value == 16 * (nibble % 16) + flags
<1>1. nibble % 16 \in 0..15
  BY SMT
<1>2. value \in 0..255 /\ value + LCD_ENABLE \in 0..255
  <2> DEFINE r == nibble % 16
  <2>1. r \in 0..15
    BY <1>1
  <2> HIDE DEF r
  <2>2. 16 * r + flags \in 0..255 /\ 16 * r + flags + 4 \in 0..255
    BY SMT, <2>1
  <2> QED BY <2>2 DEF r, LCD_ENABLE
<1> HIDE DEF value
<1>3. Call(lcd_expander_write(value)) /\ Call(lcd_expander_write(value + LCD_ENABLE))
  BY <1>2, ExpanderWrite
<1>4. Call(lcd_pulse_enable(value))
  BY <1>3, JoinedCalls DEF Call, lcd_pulse_enable
<1>5. Call(lcd_expander_write(value) \o lcd_pulse_enable(value))
  BY <1>3, <1>4, JoinedCalls DEF Call
<1> QED BY <1>5 DEF lcd_write_nibble, value

LEMMA Send ==
  ASSUME NEW value \in 0..255, NEW flags \in 0..9
  PROVE  Call(lcd_send(value, flags))
<1>1. value \div 16 \in Nat /\ value \in Nat
  BY SMT
<1>2. Call(lcd_write_nibble(value \div 16, flags)) /\ Call(lcd_write_nibble(value, flags))
  BY <1>1, WriteNibble
<1> QED BY <1>2, JoinedCalls DEF lcd_send, Call

LEMMA Initialises == Call(lcd_i2c_init)
<1>1. LCD_BACKLIGHT \in 0..9 /\ 2 \in Nat /\ 3 \in Nat
  BY SMT DEF LCD_BACKLIGHT
<1>2. Call(Nibble(2)) /\ Call(Nibble(3))
  BY <1>1, WriteNibble DEF Nibble
<1>3. \A i \in 1..5 : InitCommands[i] \in 0..255
  BY SMT DEF InitCommands
<1>4. 1 \in 1..5 /\ 2 \in 1..5 /\ 3 \in 1..5 /\ 4 \in 1..5 /\ 5 \in 1..5
  BY SMT
<1>5. \A i \in 1..5 : Call(Setup(i))
  BY <1>1, <1>3, Send DEF Setup, lcd_command
<1> DEFINE S == Seq(Writes)
<1>6. /\ \A s, t : Call(s) /\ Call(t) => Call(s \o t)
  BY JoinedCalls DEF Call
<1>7. Call(SetupAll)
  <2>1. Call(Setup(1)) /\ Call(Setup(2)) /\ Call(Setup(3)) /\ Call(Setup(4)) /\ Call(Setup(5))
    BY <1>4, <1>5
  <2>2. Call(Setup(1) \o Setup(2))
    BY <1>6, <2>1
  <2>3. Call(Setup(1) \o Setup(2) \o Setup(3))
    BY <1>6, <2>1, <2>2
  <2>4. Call(Setup(1) \o Setup(2) \o Setup(3) \o Setup(4))
    BY <1>6, <2>1, <2>3
  <2> QED BY <1>6, <2>1, <2>4 DEF SetupAll
<1>8. Call(Nibble(3) \o Nibble(3))
  BY <1>2, <1>6
<1>9. Call(Nibble(3) \o Nibble(3) \o Nibble(3))
  BY <1>2, <1>6, <1>8
<1>10. Call(Nibble(3) \o Nibble(3) \o Nibble(3) \o Nibble(2))
  BY <1>2, <1>6, <1>9
<1> QED BY <1>6, <1>7, <1>10 DEF lcd_i2c_init

LEMMA Scans == Call(ScanWrites)
<1>1. /\ 2 * (Address - 1) \in 0..255 /\ 2 * Address \in 0..255
      /\ 2 * (Address + 1) \in 0..255
  BY SMT, LcdAssumption
<1>2. {"start", "stop"} \in SUBSET Commands
  BY DEF Commands
<1>3. /\ Call(scan_write(Address - 1)) /\ Call(scan_write(Address))
      /\ Call(scan_write(Address + 1))
  BY <1>1, <1>2, OneWrite DEF scan_write
<1>4. Call(scan_write(Address - 1) \o scan_write(Address))
  BY <1>3, JoinedCalls DEF Call
<1> QED BY <1>3, <1>4, JoinedCalls DEF ScanWrites, Call

LEMMA DemoCommandBytes == DemoCommands \subseteq 0..255
<1>1. row_offsets[2] = 64 /\ row_offsets[4] = 84
  BY SMT DEF row_offsets
<1>2. /\ (IF 1 > 3 THEN 3 ELSE 1) + 1 = 2
      /\ (IF 3 > 3 THEN 3 ELSE 3) + 1 = 4
      /\ (IF 4 > 3 THEN 3 ELSE 4) + 1 = 4
  BY SMT
<1>3. /\ set_cursor(0, 1) = 128 + 0 + 64
      /\ set_cursor(0, 3) = 128 + 0 + 84
      /\ set_cursor(0, 4) = 128 + 0 + 84
  BY <1>1, <1>2 DEF set_cursor
<1>4. /\ 128 + 0 + 64 \in 0..255 /\ 128 + 0 + 84 \in 0..255
      /\ 1 \in 0..255 /\ 2 \in 0..255 /\ 8 \in 0..255 /\ 12 \in 0..255
  BY SMT
<1> QED BY <1>3, <1>4 DEF DemoCommands

LcdInv == I2cInv /\ TodoInv

LEMMA InitLcdInv == LcdInit => LcdInv
<1> SUFFICES ASSUME LcdInit PROVE LcdInv
  OBVIOUS
<1>1. "idle" \in {"idle", "addr", "data", "skip"}
  OBVIOUS
<1>2. receiver \in Receivers /\ receiver.at = "idle" /\ ~receiver.ack
  BY <1>1, Empties DEF LcdInit, I2cInit
<1>3. ~Active(receiver)
  BY <1>2 DEF Active
<1>4. I2cTypes
  <2>1. 0 \in 0..255 /\ 7 \in 0..7
    BY SMT
  <2> QED BY <1>2, <2>1 DEF I2cTypes, LcdInit, I2cInit
<1>5. Wires
  BY <1>2 DEF Wires, LcdInit, I2cInit
<1>6. Heard
  BY <1>3 DEF Heard, Settled, Fresh, Acknowledged, LcdInit, I2cInit
<1>7. Call(todo)
  BY Initialises, Scans DEF LcdInit
<1>8. TodoInv
  BY <1>7 DEF TodoInv, Call, LcdInit
<1> QED BY <1>4, <1>5, <1>6, <1>8 DEF LcdInv, I2cInv

\* A new call starts with a START, so that it does not matter what the
\* receiver has been left with.
LEMMA CallKeeps == LcdInv /\ LcdCall => LcdInv'
<1> SUFFICES ASSUME I2cInv, TodoInv, LcdCall PROVE LcdInv'
  BY DEF LcdInv
<1>1. 0 \in 0..255 /\ 0 \in 0..9 /\ 8 \in 0..255 /\ 8 \in 0..9 /\ 1 + 0 \in 0..9 /\ 1 + 8 \in 0..9
  BY SMT
<1>2. backlight \in 0..9 /\ LCD_RS + backlight \in 0..9
  BY <1>1 DEF TodoInv, LCD_BACKLIGHT, LCD_RS
<1>3. Call(todo') /\ backlight' \in {0, LCD_BACKLIGHT}
  <2>1. ASSUME NEW c \in DemoCommands, todo' = lcd_command(c, backlight), UNCHANGED backlight
        PROVE  Call(todo') /\ backlight' \in {0, LCD_BACKLIGHT}
    BY <1>2, <2>1, DemoCommandBytes, Send DEF lcd_command, TodoInv
  <2>2. ASSUME NEW c \in Chars, todo' = lcd_i2c_putc(c, backlight), UNCHANGED backlight
        PROVE  Call(todo') /\ backlight' \in {0, LCD_BACKLIGHT}
    BY <1>2, <2>2, LcdAssumption, Send DEF lcd_i2c_putc, TodoInv
  <2>3. ASSUME NEW light \in {0, LCD_BACKLIGHT}, todo' = lcd_expander_write(light),
               backlight' = light
        PROVE  Call(todo') /\ backlight' \in {0, LCD_BACKLIGHT}
    BY <1>1, <2>3, ExpanderWrite DEF LCD_BACKLIGHT
  <2> QED BY <2>1, <2>2, <2>3 DEF LcdCall
<1>4. UNCHANGED <<masterVars, receiver, pulled, taken, sent>>
  BY DEF LcdCall, i2cVars
<1>5. I2cTypes'
  BY <1>4 DEF I2cInv, I2cTypes, masterVars
<1>6. Wires'
  BY <1>4 DEF I2cInv, Wires, masterVars
<1>7. ~Continues'
  BY <1>3 DEF Call, Continues
<1>8. Heard'
  BY <1>4, <1>7 DEF I2cInv, Heard, Settled, Fresh, Acknowledged, masterVars
<1> QED BY <1>3, <1>5, <1>6, <1>8 DEF LcdInv, I2cInv, TodoInv, Call

LEMMA StartKeeps == LcdInv /\ WriteStarts => LcdInv'
<1> SUFFICES ASSUME I2cInv, TodoInv, WriteStarts PROVE LcdInv'
  BY DEF LcdInv
<1>1. /\ I2cTypes /\ Wires /\ Heard /\ todo # <<>> /\ sent = NoByte /\ state = "IDLE"
      /\ todo' = todo /\ backlight' = backlight
  BY DEF I2cInv, I2cTypes, WriteStarts
<1> DEFINE w == Head(todo)
<1>2. w \in Writes
  BY <1>1 DEF TodoInv
<1>3. w.byte \in 0..255 /\ w.byte # NoByte /\ sent' = w.byte
  <2>1. w.byte \in 0..255 /\ sent' = w.byte
    BY <1>2 DEF Writes, WriteStarts
  <2>2. w.byte # -1
    BY SMT, <2>1
  <2> QED BY <2>1, <2>2 DEF NoByte
<1>4. /\ ~arbitration_lost' /\ arbitration_lost' \in BOOLEAN
      /\ scl_low' = scl_low /\ sda_low' = sda_low /\ rxack' = rxack
      /\ receiver' = receiver /\ pulled' = pulled
      /\ \/ "start" \in w.flags /\ state' = "START_A"
            /\ shifter' = shifter /\ bit_count' = bit_count
         \/ "start" \notin w.flags /\ state' = "WRITE_LOW"
            /\ shifter' = w.byte /\ bit_count' = 7
  BY DEF WriteStarts, Command, Go
<1>5. "start" \notin w.flags => Settled
  BY <1>1 DEF Heard, Continues
<1> HIDE DEF w
<1>6. I2cTypes'
  <2>1. shifter' \in 0..255 /\ bit_count' \in 0..7
    <3>1. 7 \in 0..7
      BY SMT
    <3> QED BY ZenonT(60), <1>1, <1>3, <1>4, <3>1 DEF I2cTypes
  <2>2. state' \in {"START_A", "WRITE_LOW"}
    BY <1>4
  <2> QED BY <1>1, <1>3, <1>4, <2>1, <2>2 DEF I2cTypes
<1>7. Wires'
  BY <1>1, <1>4 DEF Wires
<1>8. Heard'
  <2>1. CASE "start" \in w.flags
    BY <1>4, <2>1 DEF Heard, Fresh, Acknowledged
  <2>2. CASE "start" \notin w.flags
    <3>1. Fresh' /\ Settled' /\ shifter' = sent'
      BY <1>1, <1>3, <1>4, <1>5, <2>2 DEF Fresh, Settled, Wires
    <3> QED BY <1>4, <2>2, <3>1 DEF Heard, Acknowledged
  <2> QED BY <2>1, <2>2
<1>9. TodoInv'
  BY <1>1 DEF TodoInv
<1> QED BY <1>6, <1>7, <1>8, <1>9 DEF LcdInv, I2cInv

LEMMA ReturnKeeps == LcdInv /\ WriteReturns => LcdInv'
<1> SUFFICES ASSUME I2cInv, TodoInv, WriteReturns PROVE LcdInv'
  BY DEF LcdInv
<1>1. /\ I2cTypes /\ Wires /\ Heard /\ sent # NoByte /\ state = "IDLE" /\ sent' = NoByte
      /\ UNCHANGED <<masterVars, receiver, pulled, taken>> /\ backlight' = backlight
  BY DEF I2cInv, WriteReturns, transfer_in_progress, i2cVars
<1>2. todo \in Seq(Writes) /\ todo # <<>>
  BY <1>1 DEF TodoInv
<1>3. Tail(todo) \in Seq(Writes)
  BY SMT, <1>2
<1>4. todo' \in Seq(Writes)
  <2>1. <<>> \in Seq(Writes)
    BY SMT
  <2>2. todo' = <<>> \/ todo' = Tail(todo)
    BY DEF WriteReturns
  <2> QED BY <1>3, <2>1, <2>2
<1>5. Settled'
  BY <1>1 DEF Heard, Settled
<1>6. I2cTypes'
  BY SMT, <1>1 DEF I2cTypes, masterVars
<1>7. Wires'
  BY <1>1 DEF Wires, masterVars
<1>8. Heard'
  BY <1>1, <1>5 DEF Heard, Fresh, Acknowledged, masterVars
<1>9. TodoInv'
  BY <1>1, <1>4 DEF TodoInv
<1> QED BY <1>6, <1>7, <1>8, <1>9 DEF LcdInv, I2cInv

LEMMA TickKeeps ==
  ASSUME LcdInv, NEW pull \in BOOLEAN, NEW accepts, BusTick(pull, accepts)
  PROVE  LcdInv'
<1>1. Ticked(pull, accepts) /\ I2cInv /\ TodoInv
  BY DEF BusTick, Ticked, LcdInv
<1>2. I2cInv'
  BY <1>1, TicksStart, TicksLow, TicksHigh, TicksAck, TicksStop DEF Ticked, Tick
<1>3. TodoInv'
  BY <1>1 DEF TodoInv, Ticked, callVars
<1> QED BY <1>2, <1>3 DEF LcdInv

\* A receiver that pulls SDA low while SCL is high has counted nine edges.
Steady(rcv) == rcv \in Receivers /\ (rcv.ack => Active(rcv) /\ rcv.n = 9)

LEMMA SteadyWithClock ==
  ASSUME I2cTypes, Wires, NEW sda \in BOOLEAN
  PROVE  Steady(Observe(receiver, ~scl_low, sda, TRUE, sda, FALSE))
<1> DEFINE r == Observe(receiver, ~scl_low, sda, TRUE, sda, FALSE)
<1>1. receiver \in Receivers /\ scl_low \in BOOLEAN
  BY DEF I2cTypes
<1>2. CASE ~scl_low
  <2>1. Observe(receiver, TRUE, sda, TRUE, sda, FALSE) = receiver
    BY DEF Observe
  <2>2. (~scl_low) = TRUE
    BY <1>2
  <2>3. r = receiver
    BY <2>1, <2>2
  <2> QED BY <1>1, <1>2, <2>3 DEF Wires, Steady
<1>3. CASE scl_low
  <2>1. Observe(receiver, FALSE, sda, TRUE, sda, FALSE) =
          IF Active(receiver) THEN Rise(receiver, sda) ELSE receiver
    BY DEF Observe, Active
  <2>2. (~scl_low) = FALSE
    BY <1>3
  <2>3. r = IF Active(receiver) THEN Rise(receiver, sda) ELSE receiver
    BY <2>1, <2>2
  <2>4. receiver.ack => Active(receiver) /\ receiver.n = 8
    BY <1>3 DEF Wires
  <2>5. CASE ~Active(receiver)
    BY <1>1, <2>3, <2>4, <2>5 DEF Steady
  <2>6. CASE Active(receiver)
    <3>0. r = Rise(receiver, sda)
      BY <2>3, <2>6
    <3> HIDE DEF r
    <3>1. /\ r \in Receivers /\ r.at = receiver.at /\ r.ack = receiver.ack
          /\ ~(receiver.n < 8) => r.n = 9
      BY <1>1, <3>0, Rises
    <3>2. ~(8 < 8)
      BY SMT
    <3>3. Steady(r)
      BY <2>4, <2>6, <3>1, <3>2 DEF Steady, Active
    <3> QED BY <3>3 DEF r
  <2> QED BY <2>5, <2>6
<1> QED BY <1>1, <1>2, <1>3

LEMMA SteadyWithData ==
  ASSUME NEW r, Steady(r), NEW sda0 \in BOOLEAN, NEW sda1 \in BOOLEAN
  PROVE  Steady(Observe(r, TRUE, sda0, TRUE, sda1, FALSE))
<1>1. Observe(r, TRUE, sda0, TRUE, sda1, FALSE) =
        IF sda0 /\ ~sda1 THEN [Receiver EXCEPT !.at = "addr"]
        ELSE IF ~sda0 /\ sda1 THEN Receiver ELSE r
  BY DEF Observe
<1>2. Steady([Receiver EXCEPT !.at = "addr"]) /\ Steady(Receiver)
  <2>1. "addr" \in {"idle", "addr", "data", "skip"}
    OBVIOUS
  <2> QED BY <2>1, Empties DEF Steady
<1> QED BY <1>1, <1>2

LEMMA ResetKeeps == LcdInv /\ BoardReset => LcdInv'
<1> SUFFICES ASSUME I2cInv, TodoInv, BoardReset PROVE LcdInv'
  BY DEF LcdInv
<1>1. /\ I2cTypes /\ Wires /\ scl_low \in BOOLEAN /\ receiver \in Receivers
  BY DEF I2cInv, I2cTypes
<1>2. Steady(receiver')
  <2> DEFINE sda0 == Line(sda_low, receiver, pulled)
             sda1 == ~receiver.ack
             r0 == Observe(receiver, ~scl_low, sda0, TRUE, sda0, FALSE)
             r1 == Observe(receiver, ~scl_low, sda1, TRUE, sda1, FALSE)
  <2>1. sda0 \in BOOLEAN /\ sda1 \in BOOLEAN
    BY DEF Line
  <2>2. receiver' = Observe(r0, TRUE, sda0, TRUE, sda1, FALSE) \/ receiver' = r1
    BY DEF BoardReset, I2cReset, BusReleased
  <2> HIDE DEF sda0, sda1
  <2>3. Steady(r0) /\ Steady(r1)
    BY <1>1, <2>1, SteadyWithClock
  <2> HIDE DEF r0, r1
  <2>4. Steady(Observe(r0, TRUE, sda0, TRUE, sda1, FALSE))
    BY <2>1, <2>3, SteadyWithData
  <2> QED BY <2>2, <2>3, <2>4
<1>3. /\ state' = "IDLE" /\ shifter' = 0 /\ bit_count' = 7
      /\ ~scl_low' /\ ~sda_low' /\ rxack' /\ ~arbitration_lost' /\ ~pulled'
      /\ scl_low' \in BOOLEAN /\ sda_low' \in BOOLEAN /\ pulled' \in BOOLEAN
      /\ rxack' \in BOOLEAN /\ arbitration_lost' \in BOOLEAN
      /\ sent' = NoByte /\ todo' = lcd_i2c_init /\ backlight' = LCD_BACKLIGHT
  BY DEF BoardReset, I2cReset
<1>4. Call(todo')
  BY <1>3, Initialises
<1>5. I2cTypes'
  BY SMT, <1>2, <1>3 DEF I2cTypes, Steady
<1>6. Wires'
  BY <1>2, <1>3 DEF Wires, Steady
<1>7. ~Continues' /\ ~Fresh' /\ ~Acknowledged'
  BY <1>3, <1>4 DEF Continues, Fresh, Acknowledged, Call
<1>8. Heard'
  BY <1>3, <1>7 DEF Heard
<1>9. TodoInv'
  BY <1>3, <1>4 DEF TodoInv, Call
<1> QED BY <1>5, <1>6, <1>8, <1>9 DEF LcdInv, I2cInv

LEMMA StepLcdInv == LcdInv /\ [LcdNext]_lcdI2cVars => LcdInv'
<1> SUFFICES ASSUME LcdInv, [LcdNext]_lcdI2cVars PROVE LcdInv'
  OBVIOUS
<1>1. CASE UNCHANGED lcdI2cVars
  <2>1. UNCHANGED <<masterVars, receiver, pulled, taken, sent, todo, backlight>>
    BY <1>1 DEF lcdI2cVars, i2cVars, callVars
  <2>2. I2cTypes' /\ Wires'
    BY <2>1 DEF LcdInv, I2cInv, I2cTypes, Wires, masterVars
  <2>3. Heard' /\ TodoInv'
    BY <2>1 DEF LcdInv, I2cInv, Heard, TodoInv, Settled, Fresh, Acknowledged,
                Continues, masterVars
  <2> QED BY <2>2, <2>3 DEF LcdInv, I2cInv
<1>2. CASE MasterTick
  BY <1>2, TickKeeps DEF MasterTick
<1>3. CASE LcdFault
  <2>1. CASE BitDisturbed
    BY <2>1, TickKeeps DEF BitDisturbed
  <2>2. CASE AckMissing
    BY <2>2, TickKeeps DEF AckMissing
  <2> QED BY <1>3, <2>1, <2>2, ResetKeeps DEF LcdFault
<1> QED BY <1>1, <1>2, <1>3, CallKeeps, StartKeeps, ReturnKeeps DEF LcdNext

\* i2c.c:45: a write that returns 0 has been acknowledged by the receiver, and
\* it was this byte that it had: for every receiver, every sequence of calls
\* and however many bits, acknowledges and STARTs are lost on the way.
THEOREM WriteTells == LcdSpec => []ReturnTells
<1>1. LcdInv => ReturnTells
  <2> SUFFICES ASSUME LcdInv, sent # NoByte, ~transfer_in_progress, WriteResult = 0
               PROVE  taken = sent
    BY DEF ReturnTells
  <2>1. -2 # 0 /\ -3 # 0
    BY SMT
  <2>2. ~rxack /\ ~arbitration_lost
    BY <2>1 DEF WriteResult
  <2>3. Acknowledged
    BY DEF Acknowledged, transfer_in_progress
  <2> QED BY <2>2, <2>3 DEF LcdInv, I2cInv, Heard
<1> QED BY <1>1, InitLcdInv, StepLcdInv, PTL DEF LcdSpec

-----------------------------------------------------------------------------
(* The display and its expander, as values *)

\* All states of the display and the outputs of its expander.
Displays ==
  {d \in [out : Nat, mode : {4, 8}, half : Nat \cup {NoHalf}, executed : Seq(Nat)] :
     (d.mode = 8 => d.half = NoHalf) /\ Len(d.executed) <= Window}
Pushed(x, c) == LET all == Append(x, c) IN IF Len(all) > Window THEN Tail(all) ELSE all
Width(n) == IF n = 3 THEN 8 ELSE 4
SameDisplay(d, e) == e.mode = d.mode /\ e.half = d.half /\ e.executed = d.executed

\* Display d takes nibble n, as one of a character or of a command.
Takes(d, n, rs, e) ==
  /\ d.mode = 8 => /\ e.mode = IF ~rs /\ n \in {2, 3} THEN Width(n) ELSE 8
                   /\ e.executed = Pushed(d.executed, 16 * n) /\ e.half = NoHalf
  /\ d.mode = 4 /\ d.half = NoHalf =>
       e.mode = 4 /\ e.executed = d.executed /\ e.half = n
  /\ d.mode = 4 /\ d.half # NoHalf =>
       /\ e.mode = IF ~rs /\ d.half \in {2, 3} THEN Width(d.half) ELSE 4
       /\ e.executed = Pushed(d.executed, 16 * d.half + n) /\ e.half = NoHalf
Latched(d, v, e) ==
  ~Has(v, LCD_RW) => Takes(d, v \div 16, Has(v, LCD_RS), e)
\* The expander's outputs become v.
Becomes(d, v, e) ==
  /\ e \in Displays /\ e.out = v
  /\ IF Has(d.out, LCD_ENABLE) /\ ~Has(v, LCD_ENABLE)
     THEN Latched(d, d.out, e) \/ Latched(d, v, e) ELSE SameDisplay(d, e)

\* Whatever the display makes of the values vs, from a state of P it comes to
\* one of Q.
Run(ds, vs) == \A i \in 1..Len(vs) : Becomes(ds[i-1], vs[i], ds[i])
Brings(P, vs, Q) == \A ds : ds[0] \in P /\ Run(ds, vs) => ds[Len(vs)] \in Q

LEMMA NoValues == ASSUME NEW d, NEW Q, Brings({d}, <<>>, Q) PROVE d \in Q
<1> DEFINE ds == [i \in {0} |-> d]
<1>1. Len(<<>>) = 0 /\ 1..0 = {}
  BY SMT
<1>2. ds[0] = d /\ Run(ds, <<>>)
  BY <1>1 DEF Run
<1> HIDE DEF ds
<1>3. ds[0] \in {d}
  BY <1>2
<1> QED BY <1>1, <1>2, <1>3 DEF Brings

LEMMA FirstOf ==
  ASSUME NEW v \in Nat, NEW vs \in Seq(Nat)
  PROVE  /\ <<v>> \o vs \in Seq(Nat) /\ Len(<<v>> \o vs) = Len(vs) + 1
         /\ (<<v>> \o vs)[1] = v
         /\ \A i \in 1..Len(vs) : (<<v>> \o vs)[i+1] = vs[i]
BY SMT

LEMMA OneValue ==
  ASSUME NEW d, NEW e, NEW v \in Nat, NEW vs \in Seq(Nat), NEW Q,
         Brings({d}, <<v>> \o vs, Q), Becomes(d, v, e)
  PROVE  Brings({e}, vs, Q)
<1> SUFFICES ASSUME NEW ds, ds[0] = e, Run(ds, vs)
             PROVE  ds[Len(vs)] \in Q
  BY DEF Brings
<1> DEFINE n == Len(vs)
           es == [i \in 0 .. n + 1 |-> IF i = 0 THEN d ELSE ds[i-1]]
           ws == <<v>> \o vs
<1>1. n \in Nat /\ Len(ws) = n + 1 /\ ws[1] = v /\ \A i \in 1..n : ws[i+1] = vs[i]
  BY FirstOf
<1> HIDE DEF n, ws
<1>2. /\ es[0] = d /\ \A i \in 0..n : es[i+1] = ds[i]
  <2>1. 0 \in 0 .. n + 1
    BY SMT, <1>1
  <2>2. \A i \in 0..n : i + 1 \in 0 .. n + 1 /\ i + 1 # 0 /\ (i + 1) - 1 = i
    BY SMT, <1>1
  <2> QED BY <2>1, <2>2
<1> HIDE DEF es
<1>3. Run(es, ws)
  <2> SUFFICES ASSUME NEW i \in 1..Len(ws) PROVE Becomes(es[i-1], ws[i], es[i])
    BY DEF Run
  <2>1. CASE i = 1
    <3>1. i - 1 = 0 /\ 0 + 1 = 1 /\ 0 \in 0..n
      BY SMT, <1>1, <2>1
    <3>2. es[1] = e
      BY <1>2, <3>1
    <3> QED BY <1>1, <1>2, <2>1, <3>1, <3>2
  <2>2. CASE i # 1
    <3> DEFINE j == i - 1
    <3>1. j \in 1..n /\ j - 1 \in 0..n /\ j \in 0..n /\ i = j + 1 /\ (j - 1) + 1 = j
      BY SMT, <1>1, <2>2
    <3> HIDE DEF j
    <3>2. i - 1 = j
      BY SMT, <3>1
    <3>3. Becomes(ds[j-1], vs[j], ds[j])
      BY <3>1 DEF Run, n
    <3>4. es[j] = ds[j-1]
      BY <1>2, <3>1
    <3>5. es[i] = ds[j] /\ ws[i] = vs[j]
      BY <1>1, <1>2, <3>1
    <3> QED BY <3>2, <3>3, <3>4, <3>5
  <2> QED BY <2>1, <2>2
<1>4. es[0] \in {d}
  BY <1>2
<1>5. es[Len(ws)] = ds[n]
  <2>1. n \in 0..n
    BY SMT, <1>1
  <2> QED BY <1>1, <1>2, <2>1
<1>6. es[Len(ws)] \in Q
  BY <1>3, <1>4 DEF Brings, ws
<1> QED BY <1>5, <1>6 DEF n

LEMMA ThenBrings ==
  ASSUME NEW vs \in Seq(Nat), NEW ws \in Seq(Nat), NEW P, NEW Q, NEW R,
         Brings(P, vs, Q), Brings(Q, ws, R)
  PROVE  Brings(P, vs \o ws, R) /\ vs \o ws \in Seq(Nat)
<1> DEFINE n == Len(vs)  m == Len(ws)  us == vs \o ws
<1>1. /\ n \in Nat /\ m \in Nat /\ us \in Seq(Nat) /\ Len(us) = n + m
      /\ \A i \in 1..n : us[i] = vs[i]
      /\ \A i \in 1..m : us[n+i] = ws[i]
  BY SMT
<1> HIDE DEF us, n, m
<1>2. SUFFICES ASSUME NEW ds, ds[0] \in P, Run(ds, us)
               PROVE  ds[n + m] \in R
  BY <1>1 DEF Brings, us
<1>3. ds[n] \in Q
  <2>1. Run(ds, vs)
    <3> SUFFICES ASSUME NEW i \in 1..n PROVE Becomes(ds[i-1], vs[i], ds[i])
      BY DEF Run, n
    <3>1. i \in 1..Len(us)
      BY SMT, <1>1
    <3> QED BY <1>1, <1>2, <3>1 DEF Run
  <2> QED BY <1>2, <2>1 DEF Brings, n
<1> DEFINE es == [i \in 0..m |-> ds[n+i]]
<1>4. \A i \in 0..m : es[i] = ds[n+i]
  OBVIOUS
<1> HIDE DEF es
<1>5. es[0] \in Q /\ es[m] = ds[n+m]
  <2>1. 0 \in 0..m /\ m \in 0..m /\ n + 0 = n
    BY SMT, <1>1
  <2> QED BY <1>3, <1>4, <2>1
<1>6. Run(es, ws)
  <2> SUFFICES ASSUME NEW i \in 1..m PROVE Becomes(es[i-1], ws[i], es[i])
    BY DEF Run, m
  <2>1. /\ n + i \in 1..Len(us) /\ i \in 0..m /\ i - 1 \in 0..m /\ n + (i - 1) = (n + i) - 1
    BY SMT, <1>1
  <2>2. Becomes(ds[(n+i)-1], us[n+i], ds[n+i])
    BY <1>2, <2>1 DEF Run
  <2> QED BY <1>1, <1>4, <2>1, <2>2
<1>7. es[m] \in R
  BY <1>5, <1>6 DEF Brings, m
<1> QED BY <1>5, <1>7

Low(d) == ~Has(d.out, LCD_ENABLE)
NibbleValues(n, f) == <<16 * n + f, 16 * n + f + 4, 16 * n + f>>

\* The lines of the bus for nibble n with the enable line down, and up.
LEMMA Lines ==
  ASSUME NEW n \in 0..15, NEW f \in {0, 1, 8, 9}
  PROVE  LET v == 16 * n + f
         IN  /\ v \in Nat /\ v + 4 \in Nat
             /\ ~Has(v, LCD_ENABLE) /\ Has(v + 4, LCD_ENABLE)
             /\ ~Has(v, LCD_RW) /\ ~Has(v + 4, LCD_RW)
             /\ v \div 16 = n /\ (v + 4) \div 16 = n
             /\ (Has(v, LCD_RS) <=> f \in {1, 9}) /\ (Has(v + 4, LCD_RS) <=> f \in {1, 9})
<1>1. CASE f = 0
  BY SMT, <1>1 DEF Has, LCD_ENABLE, LCD_RW, LCD_RS
<1>2. CASE f = 1
  BY SMT, <1>2 DEF Has, LCD_ENABLE, LCD_RW, LCD_RS
<1>3. CASE f = 8
  BY SMT, <1>3 DEF Has, LCD_ENABLE, LCD_RW, LCD_RS
<1>4. CASE f = 9
  BY SMT, <1>4 DEF Has, LCD_ENABLE, LCD_RW, LCD_RS
<1> QED BY <1>1, <1>2, <1>3, <1>4

LEMMA ThreeValues ==
  ASSUME NEW a, NEW b, NEW c, NEW ds, Run(ds, <<a, b, c>>)
  PROVE  Becomes(ds[0], a, ds[1]) /\ Becomes(ds[1], b, ds[2]) /\ Becomes(ds[2], c, ds[3])
<1>1. /\ Len(<<a, b, c>>) = 3 /\ 1 \in 1..3 /\ 2 \in 1..3 /\ 3 \in 1..3
      /\ 1 - 1 = 0 /\ 2 - 1 = 1 /\ 3 - 1 = 2
      /\ <<a, b, c>>[1] = a /\ <<a, b, c>>[2] = b /\ <<a, b, c>>[3] = c
  BY SMT
<1> DEFINE vs == <<a, b, c>>
<1>2. /\ Len(vs) = 3 /\ vs[1] = a /\ vs[2] = b /\ vs[3] = c /\ Run(ds, vs)
  BY <1>1
<1> HIDE DEF vs
<1>3. \A i \in 1..3 : Becomes(ds[i-1], vs[i], ds[i])
  BY <1>2 DEF Run
<1>4. Becomes(ds[1-1], vs[1], ds[1]) /\ Becomes(ds[2-1], vs[2], ds[2]) /\ Becomes(ds[3-1], vs[3], ds[3])
  BY <1>1, <1>3
<1> QED BY <1>1, <1>2, <1>4

\* lcd_write_nibble: whatever the display was left with, it takes the nibble,
\* once; if the enable line was up it may have taken something else before.
LEMMA NibbleTaken ==
  ASSUME NEW n \in 0..15, NEW f \in {0, 1, 8, 9}, NEW ds, ds[0] \in Displays,
         Run(ds, NibbleValues(n, f))
  PROVE  /\ ds[3] \in Displays /\ Low(ds[3])
         /\ \E d \in Displays : Takes(d, n, f \in {1, 9}, ds[3])
         /\ Low(ds[0]) => Takes(ds[0], n, f \in {1, 9}, ds[3])
<1> DEFINE v == 16 * n + f  up == v + 4  rs == f \in {1, 9}
<1>1. /\ ~Has(v, LCD_ENABLE) /\ Has(up, LCD_ENABLE)
      /\ ~Has(v, LCD_RW) /\ ~Has(up, LCD_RW)
      /\ v \div 16 = n /\ up \div 16 = n
      /\ (Has(v, LCD_RS) <=> rs) /\ (Has(up, LCD_RS) <=> rs)
  BY Lines
<1>2. /\ Becomes(ds[0], v, ds[1]) /\ Becomes(ds[1], up, ds[2]) /\ Becomes(ds[2], v, ds[3])
  BY ThreeValues DEF NibbleValues
<1> HIDE DEF v, up, rs
<1>3. ds[1] \in Displays /\ (Low(ds[0]) => SameDisplay(ds[0], ds[1])) /\ ds[1].out = v
  BY <1>2 DEF Becomes, Low
<1>4. ds[2] \in Displays /\ ds[2].out = up /\ SameDisplay(ds[1], ds[2])
  BY <1>1, <1>2 DEF Becomes
<1>5. ds[3] \in Displays /\ ds[3].out = v /\ (Latched(ds[2], up, ds[3]) \/ Latched(ds[2], v, ds[3]))
  BY <1>1, <1>2, <1>4 DEF Becomes
<1>6. Takes(ds[2], n, rs, ds[3])
  <2>1. \A a, b : (a <=> b) => (Takes(ds[2], n, a, ds[3]) <=> Takes(ds[2], n, b, ds[3]))
    BY DEF Takes
  <2> QED BY <1>1, <1>5, <2>1 DEF Latched
<1>7. Takes(ds[1], n, rs, ds[3])
  BY <1>4, <1>6 DEF Takes, SameDisplay
<1>8. Low(ds[0]) => Takes(ds[0], n, rs, ds[3])
  BY <1>3, <1>7 DEF Takes, SameDisplay
<1> QED BY <1>1, <1>3, <1>5, <1>7, <1>8 DEF rs, Low

LEMMA NibbleLength ==
  ASSUME NEW n \in 0..15, NEW f \in {0, 1, 8, 9}
  PROVE  NibbleValues(n, f) \in Seq(Nat) /\ Len(NibbleValues(n, f)) = 3
<1>1. 16 * n + f \in Nat /\ 16 * n + f + 4 \in Nat
  BY SMT
<1> QED BY SMT, <1>1 DEF NibbleValues

-----------------------------------------------------------------------------
(* A byte *)

\* In step, with x executed.
Synced(x) == {d \in Displays : Low(d) /\ d.mode = 4 /\ d.half = NoHalf /\ d.executed = x}
\* In step, with n the first half of the next byte.
Halfway(x, n) == {d \in Displays : Low(d) /\ d.mode = 4 /\ d.half = n /\ d.executed = x}
SendValues(h, l, f) == NibbleValues(h, f) \o NibbleValues(l, f)

LEMMA FirstHalf ==
  ASSUME NEW x, NEW n \in 0..15, NEW f \in {0, 1, 8, 9}
  PROVE  Brings(Synced(x), NibbleValues(n, f), Halfway(x, n))
<1> SUFFICES ASSUME NEW ds, ds[0] \in Synced(x), Run(ds, NibbleValues(n, f))
             PROVE  ds[3] \in Halfway(x, n)
  BY NibbleLength DEF Brings
<1>1. ds[0] \in Displays /\ Low(ds[0]) /\ ds[0].mode = 4 /\ ds[0].half = NoHalf /\ ds[0].executed = x
  BY DEF Synced
<1>2. ds[3] \in Displays /\ Low(ds[3]) /\ Takes(ds[0], n, f \in {1, 9}, ds[3])
  BY <1>1, NibbleTaken
<1> QED BY <1>1, <1>2 DEF Takes, Halfway

LEMMA SecondHalf ==
  ASSUME NEW x, NEW h \in 0..15, NEW l \in 0..15, NEW f \in {0, 1, 8, 9},
         h = 3 => f \in {1, 9}
  PROVE  Brings(Halfway(x, h), NibbleValues(l, f), Synced(Pushed(x, 16 * h + l)))
<1> SUFFICES ASSUME NEW ds, ds[0] \in Halfway(x, h), Run(ds, NibbleValues(l, f))
             PROVE  ds[3] \in Synced(Pushed(x, 16 * h + l))
  BY NibbleLength DEF Brings
<1>1. ds[0] \in Displays /\ Low(ds[0]) /\ ds[0].mode = 4 /\ ds[0].half = h /\ ds[0].executed = x
  BY DEF Halfway
<1>2. ds[3] \in Displays /\ Low(ds[3]) /\ Takes(ds[0], l, f \in {1, 9}, ds[3])
  BY <1>1, NibbleTaken
<1>3. h # NoHalf
  BY SMT DEF NoHalf
<1> DEFINE y == Pushed(x, 16 * h + l)
<1>4. /\ ds[3].mode = IF ~(f \in {1, 9}) /\ h \in {2, 3} THEN Width(h) ELSE 4
      /\ ds[3].executed = y /\ ds[3].half = NoHalf
  BY <1>1, <1>2, <1>3 DEF Takes
<1>5. ds[3].mode = 4
  BY <1>4 DEF Width
<1> HIDE DEF y
<1> QED BY <1>2, <1>4, <1>5 DEF Synced, y

\* lcd_send: one byte more, and in step again.
LEMMA ByteExecuted ==
  ASSUME NEW x, NEW h \in 0..15, NEW l \in 0..15, NEW f \in {0, 1, 8, 9},
         h = 3 => f \in {1, 9}
  PROVE  /\ Brings(Synced(x), SendValues(h, l, f), Synced(Pushed(x, 16 * h + l)))
         /\ SendValues(h, l, f) \in Seq(Nat)
<1> DEFINE Q == Halfway(x, h)
           R == Synced(Pushed(x, 16 * h + l))
           P == Synced(x)
           a == NibbleValues(h, f)
           b == NibbleValues(l, f)
<1>1. Brings(P, a, Q) /\ Brings(Q, b, R)
  BY FirstHalf, SecondHalf
<1>2. a \in Seq(Nat) /\ b \in Seq(Nat)
  BY NibbleLength
<1> HIDE DEF P, Q, R, a, b
<1>3. Brings(P, a \o b, R) /\ a \o b \in Seq(Nat)
  BY <1>1, <1>2, ThenBrings
<1> QED BY <1>3 DEF P, R, a, b, SendValues

-----------------------------------------------------------------------------
(* lcd_i2c_init *)

\* After the first, second and third nibble of 3: a display on eight bits, or
\* on four and about to change.
Woken == {d \in Displays : Low(d) /\ (d.mode = 8 \/ d.half \in {3, NoHalf})}
Waking == {d \in Displays : Low(d) /\ (d.mode = 8 \/ d.half = 3)}
OnEight == {d \in Displays : Low(d) /\ d.mode = 8}
InStep == {d \in Displays : Low(d) /\ d.mode = 4 /\ d.half = NoHalf}

LEMMA DisplayParts ==
  ASSUME NEW d \in Displays
  PROVE  /\ d.mode \in {4, 8} /\ d.half \in Nat \cup {NoHalf} /\ d.executed \in Seq(Nat)
         /\ Len(d.executed) <= Window /\ (d.mode = 8 => d.half = NoHalf)
BY DEF Displays

LEMMA Threes ==
  ASSUME NEW d \in Displays, NEW e \in Displays, Takes(d, 3, FALSE, e), Low(e)
  PROVE  /\ e \in Woken
         /\ d \in Woken => e \in Waking
         /\ d \in Waking => e \in OnEight
<1>1. 3 # NoHalf /\ 3 \in {2, 3} /\ 4 # 8
  BY SMT DEF NoHalf
<1>2. d.mode \in {4, 8} /\ (d.mode = 8 => d.half = NoHalf)
  BY DisplayParts
<1>3. CASE d.mode = 8
  BY <1>1, <1>3 DEF Takes, Woken, Waking, OnEight, Width
<1>4. CASE d.mode = 4 /\ d.half = NoHalf
  BY <1>1, <1>4 DEF Takes, Woken, Waking, OnEight, Width
<1>5. CASE d.mode = 4 /\ d.half # NoHalf
  BY <1>1, <1>5 DEF Takes, Woken, Waking, OnEight, Width
<1> QED BY <1>2, <1>3, <1>4, <1>5

LEMMA ThenFour ==
  ASSUME NEW d \in OnEight, NEW e \in Displays, Takes(d, 2, FALSE, e), Low(e)
  PROVE  e \in InStep
<1>1. 2 # 3 /\ 2 \in {2, 3}
  BY SMT
<1> QED BY <1>1 DEF OnEight, Takes, InStep, Width

LEMMA WakesUp ==
  /\ Brings(Displays, NibbleValues(3, 8), Woken)
  /\ Brings(Woken, NibbleValues(3, 8), Waking)
  /\ Brings(Waking, NibbleValues(3, 8), OnEight)
  /\ Brings(OnEight, NibbleValues(2, 8), InStep)
<1>1. 3 \in 0..15 /\ 2 \in 0..15 /\ 8 \in {0, 1, 8, 9} /\ (8 \in {1, 9} <=> FALSE)
  BY SMT
<1>2. \A d, n, e : Takes(d, n, 8 \in {1, 9}, e) <=> Takes(d, n, FALSE, e)
  BY <1>1 DEF Takes
<1>3. Len(NibbleValues(3, 8)) = 3 /\ Len(NibbleValues(2, 8)) = 3
  BY <1>1, NibbleLength
<1>4. ASSUME NEW ds, ds[0] \in Displays, NEW n \in {2, 3}, Run(ds, NibbleValues(n, 8))
      PROVE  /\ ds[3] \in Displays /\ Low(ds[3])
             /\ \E d \in Displays : Takes(d, n, FALSE, ds[3])
             /\ Low(ds[0]) => Takes(ds[0], n, FALSE, ds[3])
  <2>1. n \in 0..15
    BY <1>1, <1>4
  <2> QED BY <1>1, <1>2, <1>4, <2>1, NibbleTaken
<1>5. Brings(Displays, NibbleValues(3, 8), Woken)
  BY <1>3, <1>4, Threes DEF Brings
<1>6. Brings(Woken, NibbleValues(3, 8), Waking)
  <2> SUFFICES ASSUME NEW ds, ds[0] \in Woken, Run(ds, NibbleValues(3, 8))
               PROVE  ds[3] \in Waking
    BY <1>3 DEF Brings
  <2>1. ds[0] \in Displays /\ Low(ds[0])
    BY DEF Woken
  <2> QED BY <1>4, <2>1, Threes
<1>7. Brings(Waking, NibbleValues(3, 8), OnEight)
  <2> SUFFICES ASSUME NEW ds, ds[0] \in Waking, Run(ds, NibbleValues(3, 8))
               PROVE  ds[3] \in OnEight
    BY <1>3 DEF Brings
  <2>1. ds[0] \in Displays /\ Low(ds[0])
    BY DEF Waking
  <2> QED BY <1>4, <2>1, Threes
<1>8. Brings(OnEight, NibbleValues(2, 8), InStep)
  <2> SUFFICES ASSUME NEW ds, ds[0] \in OnEight, Run(ds, NibbleValues(2, 8))
               PROVE  ds[3] \in InStep
    BY <1>3 DEF Brings
  <2>1. ds[0] \in Displays /\ Low(ds[0])
    BY DEF OnEight
  <2> QED BY <1>4, <2>1, ThenFour
<1> QED BY <1>5, <1>6, <1>7, <1>8

\* x ends with the first m commands of the initialisation.
EndsWith(x, m) ==
  /\ x \in Seq(Nat) /\ Len(x) <= 5 /\ m <= Len(x)
  /\ \A i \in 1..m : x[(Len(x) - m) + i] = InitCommands[i]

LEMMA PushedEnds ==
  ASSUME NEW x, NEW m \in 0..4, NEW k, k = m + 1, EndsWith(x, m),
         NEW c \in Nat, c = InitCommands[k]
  PROVE  EndsWith(Pushed(x, c), k)
<1> DEFINE all == Append(x, c)  n == Len(x)
<1>1. /\ x \in Seq(Nat) /\ n \in Nat /\ n <= 5 /\ m \in Nat /\ m <= n /\ m < 5
      /\ \A i \in 1..m : x[(n - m) + i] = InitCommands[i]
  BY DEF EndsWith
<1>2. /\ all \in Seq(Nat) /\ Len(all) = n + 1 /\ all[n+1] = c
      /\ \A i \in 1..n : all[i] = x[i]
  BY SMT, <1>1
<1> HIDE DEF all, n
<1>3. CASE n < 5
  <2>1. Pushed(x, c) = all
    <3>1. ~(n + 1 > 5)
      BY SMT, <1>1, <1>3
    <3> QED BY <1>2, <3>1 DEF Pushed, all, Window
  <2>2. ASSUME NEW i \in 1..k PROVE all[((n + 1) - k) + i] = InitCommands[i]
    <3>1. CASE i = k
      <4>1. ((n + 1) - k) + i = n + 1
        BY SMT, <1>1, <3>1
      <4> QED BY <1>2, <3>1, <4>1
    <3>2. CASE i # k
      <4>1. i \in 1..m /\ (n - m) + i \in 1..n /\ ((n + 1) - k) + i = (n - m) + i
        BY SMT, <1>1, <3>2
      <4> QED BY <1>1, <1>2, <4>1
    <3> QED BY <3>1, <3>2
  <2>3. n + 1 <= 5 /\ k <= n + 1
    BY SMT, <1>1, <1>3
  <2> QED BY <1>2, <2>1, <2>2, <2>3 DEF EndsWith
<1>4. CASE ~(n < 5)
  <2>0. n = 5
    BY SMT, <1>1, <1>4
  <2> DEFINE y == Tail(all)
  <2>1. Pushed(x, c) = y
    <3>1. n + 1 > 5
      BY SMT, <2>0
    <3> QED BY <1>2, <3>1 DEF Pushed, all, Window
  <2>2. y \in Seq(Nat) /\ Len(y) = n /\ \A i \in 1..n : y[i] = all[i+1]
    <3>0. 5 + 1 = 6 /\ 6 # 0 /\ Len(<<>>) = 0
      BY SMT
    <3>1. all # <<>> /\ all \in Seq(Nat) /\ Len(all) = 6
      BY <1>2, <2>0, <3>0
    <3>2. /\ Tail(all) \in Seq(Nat) /\ Len(Tail(all)) = Len(all) - 1
          /\ \A i \in 1 .. Len(Tail(all)) : Tail(all)[i] = all[i+1]
      BY <3>1, HeadTailProperties
    <3>3. 6 - 1 = 5
      BY SMT
    <3> QED BY <2>0, <3>1, <3>2, <3>3
  <2> HIDE DEF y
  <2>3. ASSUME NEW i \in 1..k PROVE y[(n - k) + i] = InitCommands[i]
    <3>1. CASE i = k
      <4>1. (n - k) + i = n /\ n \in 1..n
        BY SMT, <1>1, <3>1, <2>0
      <4> QED BY <1>2, <2>2, <3>1, <4>1
    <3>2. CASE i # k
      <4> DEFINE j == (n - k) + i
      <4>1. i \in 1..m /\ j \in 1..n /\ j + 1 \in 1..n /\ j + 1 = (n - m) + i
        BY SMT, <1>1, <3>2, <2>0
      <4> HIDE DEF j
      <4>2. y[j] = all[j+1] /\ all[j+1] = x[j+1] /\ x[j+1] = InitCommands[i]
        BY <1>1, <1>2, <2>2, <4>1
      <4>3. y[j] = InitCommands[i]
        BY <4>2
      <4> QED BY <4>3 DEF j
    <3> QED BY <3>1, <3>2
  <2>4. n <= 5 /\ k <= n
    BY SMT, <1>1, <2>0
  <2> QED BY <1>2, <2>1, <2>2, <2>3, <2>4 DEF EndsWith
<1> QED BY <1>3, <1>4

LEMMA Initialised ==
  ASSUME NEW x \in Seq(Nat), Len(x) <= Window
  PROVE  Pushed(Pushed(Pushed(Pushed(Pushed(x, 40), 8), 1), 6), 12) = InitCommands
<1> DEFINE y1 == Pushed(x, 40)  y2 == Pushed(y1, 8)  y3 == Pushed(y2, 1)
           y4 == Pushed(y3, 6)  y5 == Pushed(y4, 12)
<1>1. EndsWith(x, 0)
  <2>1. 1..0 = {} /\ Len(x) >= 0 /\ Len(x) <= 5
    BY SMT DEF Window
  <2> QED BY SMT, <2>1 DEF EndsWith
<1>2. /\ 0 \in 0..4 /\ 1 \in 0..4 /\ 2 \in 0..4 /\ 3 \in 0..4 /\ 4 \in 0..4
      /\ 1 = 0 + 1 /\ 2 = 1 + 1 /\ 3 = 2 + 1 /\ 4 = 3 + 1 /\ 5 = 4 + 1
      /\ 40 \in Nat /\ 8 \in Nat /\ 1 \in Nat /\ 6 \in Nat /\ 12 \in Nat
  BY SMT
<1>3. /\ 40 = InitCommands[1] /\ 8 = InitCommands[2] /\ 1 = InitCommands[3]
      /\ 6 = InitCommands[4] /\ 12 = InitCommands[5]
  BY SMT DEF InitCommands
<1>4. EndsWith(y1, 1)
  BY <1>1, <1>2, <1>3, PushedEnds
<1> HIDE DEF y1
<1>5. EndsWith(y2, 2)
  BY <1>2, <1>3, <1>4, PushedEnds
<1> HIDE DEF y2
<1>6. EndsWith(y3, 3)
  BY <1>2, <1>3, <1>5, PushedEnds
<1> HIDE DEF y3
<1>7. EndsWith(y4, 4)
  BY <1>2, <1>3, <1>6, PushedEnds
<1> HIDE DEF y4
<1>8. EndsWith(y5, 5)
  BY <1>2, <1>3, <1>7, PushedEnds
<1> HIDE DEF y5
<1>9. y5 \in Seq(Nat) /\ Len(y5) = 5 /\ \A i \in 1..5 : y5[(5 - 5) + i] = InitCommands[i]
  <2>1. y5 \in Seq(Nat) /\ Len(y5) <= 5 /\ 5 <= Len(y5) /\ Len(y5) \in Nat
    BY <1>8 DEF EndsWith
  <2>2. \A n \in Nat : n <= 5 /\ 5 <= n => n = 5
    BY SMT
  <2>3. Len(y5) = 5
    BY <2>1, <2>2
  <2> QED BY <1>8, <2>1, <2>3 DEF EndsWith
<1>10. \A i \in 1..5 : (5 - 5) + i = i
  BY SMT
<1>11. InitCommands \in Seq(Nat) /\ Len(InitCommands) = 5
  BY SMT DEF InitCommands
<1>12. y5 = InitCommands
  BY <1>9, <1>10, <1>11, SeqEqual
<1> QED BY <1>12 DEF y1, y2, y3, y4, y5

InitValues ==
  NibbleValues(3, 8) \o NibbleValues(3, 8) \o NibbleValues(3, 8) \o NibbleValues(2, 8)
  \o (SendValues(2, 8, 8) \o SendValues(0, 8, 8) \o SendValues(0, 1, 8)
      \o SendValues(0, 6, 8) \o SendValues(0, 12, 8))

\* lcd_i2c.c:68: in whatever state the display and its expander are, the
\* initialisation brings them in step, with its commands executed.
LEMMA InitBrings ==
  Brings(Displays, InitValues, Synced(InitCommands)) /\ InitValues \in Seq(Nat)
<1> DEFINE n3 == NibbleValues(3, 8)  n2 == NibbleValues(2, 8)
           s1 == SendValues(2, 8, 8)  s2 == SendValues(0, 8, 8)  s3 == SendValues(0, 1, 8)
           s4 == SendValues(0, 6, 8)  s5 == SendValues(0, 12, 8)
           a == n3 \o n3 \o n3 \o n2
           b == s1 \o s2 \o s3 \o s4 \o s5
<1>1. /\ 3 \in 0..15 /\ 2 \in 0..15 /\ 8 \in {0, 1, 8, 9} /\ 0 \in 0..15 /\ 8 \in 0..15
      /\ 1 \in 0..15 /\ 6 \in 0..15 /\ 12 \in 0..15 /\ 2 # 3 /\ 0 # 3
      /\ 16 * 2 + 8 = 40 /\ 16 * 0 + 8 = 8 /\ 16 * 0 + 1 = 1 /\ 16 * 0 + 6 = 6
      /\ 16 * 0 + 12 = 12
  BY SMT
<1>2. n3 \in Seq(Nat) /\ n2 \in Seq(Nat)
  BY <1>1, NibbleLength
<1>3. ASSUME NEW x
      PROVE  /\ Brings(Synced(x), s1, Synced(Pushed(x, 40))) /\ s1 \in Seq(Nat)
             /\ Brings(Synced(x), s2, Synced(Pushed(x, 8))) /\ s2 \in Seq(Nat)
             /\ Brings(Synced(x), s3, Synced(Pushed(x, 1))) /\ s3 \in Seq(Nat)
             /\ Brings(Synced(x), s4, Synced(Pushed(x, 6))) /\ s4 \in Seq(Nat)
             /\ Brings(Synced(x), s5, Synced(Pushed(x, 12))) /\ s5 \in Seq(Nat)
  <2>1. Brings(Synced(x), s1, Synced(Pushed(x, 40))) /\ s1 \in Seq(Nat)
    BY <1>1, ByteExecuted
  <2>2. Brings(Synced(x), s2, Synced(Pushed(x, 8))) /\ s2 \in Seq(Nat)
    BY <1>1, ByteExecuted
  <2>3. Brings(Synced(x), s3, Synced(Pushed(x, 1))) /\ s3 \in Seq(Nat)
    BY <1>1, ByteExecuted
  <2>4. Brings(Synced(x), s4, Synced(Pushed(x, 6))) /\ s4 \in Seq(Nat)
    BY <1>1, ByteExecuted
  <2>5. Brings(Synced(x), s5, Synced(Pushed(x, 12))) /\ s5 \in Seq(Nat)
    BY <1>1, ByteExecuted
  <2> QED BY <2>1, <2>2, <2>3, <2>4, <2>5
<1>4. /\ Brings(Displays, n3, Woken) /\ Brings(Woken, n3, Waking)
      /\ Brings(Waking, n3, OnEight) /\ Brings(OnEight, n2, InStep)
  BY WakesUp
<1> HIDE DEF n3, n2, s1, s2, s3, s4, s5
<1>5. Brings(Displays, a, InStep) /\ a \in Seq(Nat)
  <2>1. Brings(Displays, n3 \o n3, Waking) /\ n3 \o n3 \in Seq(Nat)
    BY <1>2, <1>4, ThenBrings
  <2>2. Brings(Displays, n3 \o n3 \o n3, OnEight) /\ n3 \o n3 \o n3 \in Seq(Nat)
    BY <1>2, <1>4, <2>1, ThenBrings
  <2> QED BY <1>2, <1>4, <2>2, ThenBrings
<1>6. s1 \in Seq(Nat) /\ s2 \in Seq(Nat) /\ s3 \in Seq(Nat) /\ s4 \in Seq(Nat) /\ s5 \in Seq(Nat)
  BY <1>3
<1>7. ASSUME NEW x \in Seq(Nat), Len(x) <= Window
      PROVE  Brings(Synced(x), b, Synced(InitCommands)) /\ b \in Seq(Nat)
  <2> DEFINE y1 == Pushed(x, 40)  y2 == Pushed(y1, 8)  y3 == Pushed(y2, 1)
             y4 == Pushed(y3, 6)  y5 == Pushed(y4, 12)
  <2>1. y5 = InitCommands
    BY <1>7, Initialised
  <2>2. /\ Brings(Synced(x), s1, Synced(y1)) /\ Brings(Synced(y1), s2, Synced(y2))
        /\ Brings(Synced(y2), s3, Synced(y3)) /\ Brings(Synced(y3), s4, Synced(y4))
        /\ Brings(Synced(y4), s5, Synced(y5))
    BY <1>3
  <2> HIDE DEF y1, y2, y3, y4, y5
  <2>3. Brings(Synced(x), s1 \o s2, Synced(y2)) /\ s1 \o s2 \in Seq(Nat)
    BY <1>6, <2>2, ThenBrings
  <2>4. Brings(Synced(x), s1 \o s2 \o s3, Synced(y3)) /\ s1 \o s2 \o s3 \in Seq(Nat)
    BY <1>6, <2>2, <2>3, ThenBrings
  <2>5. Brings(Synced(x), s1 \o s2 \o s3 \o s4, Synced(y4)) /\ s1 \o s2 \o s3 \o s4 \in Seq(Nat)
    BY <1>6, <2>2, <2>4, ThenBrings
  <2>6. Brings(Synced(x), s1 \o s2 \o s3 \o s4 \o s5, Synced(y5))
        /\ s1 \o s2 \o s3 \o s4 \o s5 \in Seq(Nat)
    BY <1>6, <2>2, <2>5, ThenBrings
  <2> QED BY <2>1, <2>6
<1>8. b \in Seq(Nat)
  <2>1. <<>> \in Seq(Nat) /\ Len(<<>>) <= Window
    BY SMT DEF Window
  <2> QED BY <1>7, <2>1
<1> HIDE DEF a, b
<1>9. Brings(InStep, b, Synced(InitCommands))
  <2> SUFFICES ASSUME NEW ds, ds[0] \in InStep, Run(ds, b)
               PROVE  ds[Len(b)] \in Synced(InitCommands)
    BY DEF Brings
  <2> DEFINE x == ds[0].executed
  <2>1. ds[0] \in Synced(x)
    BY DEF InStep, Synced
  <2>2. x \in Seq(Nat) /\ Len(x) <= Window
    BY DisplayParts DEF InStep
  <2> HIDE DEF x
  <2> QED BY <1>7, <2>1, <2>2 DEF Brings
<1>10. Brings(Displays, a \o b, Synced(InitCommands)) /\ a \o b \in Seq(Nat)
  BY <1>5, <1>8, <1>9, ThenBrings
<1> QED BY <1>10 DEF a, b, n3, n2, s1, s2, s3, s4, s5, InitValues

-----------------------------------------------------------------------------
(* What a call writes *)

Addressing == [byte |-> 2 * Address, flags |-> {"start", "write"}]
Value(v) == [byte |-> v, flags |-> {"stop", "write"}]
\* The writes ws send the values vs to the expander.
Sends(ws, vs) ==
  /\ ws \in Seq(Writes) /\ vs \in Seq(Nat) /\ Len(ws) = 2 * Len(vs)
  /\ \A i \in 1..Len(vs) : ws[2*i - 1] = Addressing /\ ws[2*i] = Value(vs[i])

LEMMA SendsJoined ==
  ASSUME NEW a, NEW b, NEW vs, NEW us, Sends(a, vs), Sends(b, us)
  PROVE  Sends(a \o b, vs \o us)
<1> DEFINE ws == a \o b  xs == vs \o us  n == Len(vs)  m == Len(us)
<1>1. /\ a \in Seq(Writes) /\ b \in Seq(Writes) /\ vs \in Seq(Nat) /\ us \in Seq(Nat)
      /\ n \in Nat /\ m \in Nat /\ Len(a) = 2 * n /\ Len(b) = 2 * m
      /\ \A i \in 1..n : a[2*i - 1] = Addressing /\ a[2*i] = Value(vs[i])
      /\ \A i \in 1..m : b[2*i - 1] = Addressing /\ b[2*i] = Value(us[i])
  BY DEF Sends
<1> HIDE DEF n, m
<1>2. /\ ws \in Seq(Writes) /\ Len(ws) = 2 * n + 2 * m
      /\ \A i \in 1 .. 2*n + 2*m : ws[i] = IF i <= 2 * n THEN a[i] ELSE b[i - 2*n]
  <2>1. /\ a \o b \in Seq(Writes) /\ Len(a \o b) = Len(a) + Len(b)
        /\ \A i \in 1 .. Len(a) + Len(b) :
             (a \o b)[i] = IF i <= Len(a) THEN a[i] ELSE b[i - Len(a)]
    BY <1>1, ConcatProperties
  <2> QED BY <1>1, <2>1, Zenon
<1>3. /\ xs \in Seq(Nat) /\ Len(xs) = n + m
      /\ \A i \in 1 .. n + m : xs[i] = IF i <= n THEN vs[i] ELSE us[i - n]
  BY <1>1, ConcatProperties DEF n, m
<1> HIDE DEF ws, xs
<1>4. ASSUME NEW i \in 1 .. n + m
      PROVE  ws[2*i - 1] = Addressing /\ ws[2*i] = Value(xs[i])
  <2>1. CASE i <= n
    <3>1. /\ i \in 1..n /\ 2*i - 1 \in 1 .. 2*n + 2*m /\ 2*i \in 1 .. 2*n + 2*m
          /\ 2*i - 1 <= 2*n /\ 2*i <= 2*n
      BY SMT, <1>1, <2>1
    <3> QED BY <1>1, <1>2, <1>3, <2>1, <3>1
  <2>2. CASE ~(i <= n)
    <3>1. /\ i - n \in 1..m /\ 2*i - 1 \in 1 .. 2*n + 2*m /\ 2*i \in 1 .. 2*n + 2*m
          /\ ~(2*i - 1 <= 2*n) /\ ~(2*i <= 2*n)
          /\ (2*i - 1) - 2*n = 2*(i - n) - 1 /\ 2*i - 2*n = 2*(i - n)
      BY SMT, <1>1, <2>2
    <3> QED BY ZenonT(40), <1>1, <1>2, <1>3, <2>2, <3>1
  <2> QED BY <2>1, <2>2
<1>5. 2 * n + 2 * m = 2 * (n + m)
  BY SMT, <1>1
<1>6. Sends(ws, xs)
  BY <1>2, <1>3, <1>4, <1>5 DEF Sends
<1> QED BY <1>6 DEF ws, xs

LEMMA SendsEmpty ==
  ASSUME NEW ws, NEW vs, Sends(ws, vs)
  PROVE  ws = <<>> <=> vs = <<>>
<1>1. ws \in Seq(Writes) /\ vs \in Seq(Nat) /\ Len(ws) = 2 * Len(vs) /\ Len(vs) \in Nat
  BY DEF Sends
<1>2. (Len(ws) = 0) <=> (Len(vs) = 0)
  BY SMT, <1>1
<1> QED BY <1>1, <1>2, EmptySeq

LEMMA SplitSeq ==
  ASSUME NEW S, NEW s \in Seq(S), s # <<>>
  PROVE  /\ Head(s) \in S /\ Tail(s) \in Seq(S) /\ Len(s) \in Nat \ {0}
         /\ Head(s) = s[1] /\ Len(Tail(s)) = Len(s) - 1
         /\ \A i \in 1 .. Len(s) - 1 : Tail(s)[i] = s[i+1]
<1>1. Len(s) \in Nat \ {0}
  <2>1. Len(s) \in Nat /\ Len(s) # 0
    BY EmptySeq, LenProperties
  <2> QED BY <2>1
<1> QED BY <1>1, HeadTailProperties

LEMMA FirstAndRest ==
  ASSUME NEW vs \in Seq(Nat), vs # <<>>
  PROVE  vs = <<Head(vs)>> \o Tail(vs)
<1> DEFINE v == Head(vs)  us == Tail(vs)  n == Len(us)
<1>1. /\ v \in Nat /\ us \in Seq(Nat) /\ v = vs[1] /\ n = Len(vs) - 1 /\ Len(vs) \in Nat \ {0}
      /\ \A i \in 1 .. Len(vs) - 1 : us[i] = vs[i+1]
  BY SplitSeq
<1> HIDE DEF v, us
<1> DEFINE xs == <<v>> \o us
<1>2. xs \in Seq(Nat) /\ Len(xs) = n + 1 /\ xs[1] = v /\ \A i \in 1..n : xs[i+1] = us[i]
  BY <1>1, FirstOf
<1> HIDE DEF xs, n
<1>3. Len(xs) = Len(vs) /\ n \in Nat
  BY SMT, <1>1, <1>2
<1>4. ASSUME NEW i \in 1..Len(xs) PROVE xs[i] = vs[i]
  <2>1. CASE i = 1
    BY <1>1, <1>2, <2>1
  <2>2. CASE i # 1
    <3> DEFINE j == i - 1
    <3>1. j \in 1..n /\ i = j + 1 /\ j \in 1 .. Len(vs) - 1
      BY SMT, <1>1, <1>2, <1>3, <2>2
    <3> HIDE DEF j
    <3> QED BY <1>1, <1>2, <3>1
  <2> QED BY <2>1, <2>2
<1>5. xs = vs
  BY <1>2, <1>3, <1>4, SeqEqual
<1> QED BY <1>5 DEF xs, v, us

\* The first two writes address the expander and give it the first value.
LEMMA SendsFirst ==
  ASSUME NEW ws, NEW vs, Sends(ws, vs), vs # <<>>
  PROVE  /\ ws # <<>> /\ Head(ws) = Addressing /\ Len(ws) # 1
         /\ Tail(ws) # <<>> /\ Head(Tail(ws)) = Value(Head(vs))
         /\ Sends(Tail(Tail(ws)), Tail(vs)) /\ Head(vs) \in Nat
<1> DEFINE n == Len(vs)  us == Tail(vs)  w1 == Tail(ws)  w2 == Tail(w1)
<1>1. /\ ws \in Seq(Writes) /\ vs \in Seq(Nat) /\ Len(ws) = 2 * n
      /\ \A i \in 1..n : ws[2*i - 1] = Addressing /\ ws[2*i] = Value(vs[i])
  BY DEF Sends
<1>2. /\ Head(vs) \in Nat /\ Head(vs) = vs[1] /\ us \in Seq(Nat) /\ Len(us) = n - 1
      /\ n \in Nat \ {0} /\ \A i \in 1 .. n - 1 : us[i] = vs[i+1]
  BY <1>1, SplitSeq
<1>3. ws # <<>>
  BY SendsEmpty
<1>4. /\ Head(ws) = ws[1] /\ w1 \in Seq(Writes) /\ Len(w1) = 2 * n - 1
      /\ \A i \in 1 .. 2*n - 1 : w1[i] = ws[i+1]
  BY <1>1, <1>3, SplitSeq
<1> HIDE DEF n, us, w1
<1>5. w1 # <<>>
  <2>1. 2 * n - 1 # 0
    BY SMT, <1>2
  <2> QED BY <1>4, <2>1, EmptySeq
<1>6. /\ Head(w1) = w1[1] /\ w2 \in Seq(Writes) /\ Len(w2) = (2 * n - 1) - 1
      /\ \A i \in 1 .. (2*n - 1) - 1 : w2[i] = w1[i+1]
  BY <1>4, <1>5, SplitSeq
<1> HIDE DEF w2
<1>7. Head(ws) = Addressing /\ Head(w1) = Value(Head(vs)) /\ Len(ws) # 1
  <2>1. /\ 1 \in 1..n /\ 2*1 - 1 = 1 /\ 2*1 = 2 /\ 1 + 1 = 2 /\ 1 \in 1 .. 2*n - 1 /\ 2 * n # 1
    BY SMT, <1>2
  <2> QED BY <1>1, <1>2, <1>4, <1>6, <2>1
<1>8. Sends(w2, us)
  <2>1. (2 * n - 1) - 1 = 2 * (n - 1)
    BY SMT, <1>2
  <2>2. ASSUME NEW i \in 1 .. n - 1
        PROVE  w2[2*i - 1] = Addressing /\ w2[2*i] = Value(us[i])
    <3>1. /\ i + 1 \in 1..n /\ 2*i - 1 \in 1 .. (2*n - 1) - 1 /\ 2*i \in 1 .. (2*n - 1) - 1
          /\ (2*i - 1) + 1 \in 1 .. 2*n - 1 /\ 2*i + 1 \in 1 .. 2*n - 1
          /\ ((2*i - 1) + 1) + 1 = 2*(i + 1) - 1 /\ (2*i + 1) + 1 = 2*(i + 1)
      BY SMT, <1>2
    <3>2. w2[2*i - 1] = w1[(2*i - 1) + 1] /\ w2[2*i] = w1[2*i + 1]
      BY <1>6, <3>1
    <3>3. w1[(2*i - 1) + 1] = ws[((2*i - 1) + 1) + 1] /\ w1[2*i + 1] = ws[(2*i + 1) + 1]
      BY <1>4, <3>1
    <3>4. ws[2*(i + 1) - 1] = Addressing /\ ws[2*(i + 1)] = Value(vs[i+1])
      BY <1>1, <3>1
    <3>5. us[i] = vs[i+1]
      BY <1>2
    <3> QED BY <3>1, <3>2, <3>3, <3>4, <3>5
  <2> QED BY <1>2, <1>6, <2>1, <2>2 DEF Sends
<1> QED BY <1>2, <1>3, <1>5, <1>7, <1>8 DEF us, w1, w2

LEMMA ExpanderSends ==
  ASSUME NEW value \in 0..255
  PROVE  Sends(lcd_expander_write(value), <<value>>)
<1> DEFINE ws == lcd_expander_write(value)  vs == <<value>>
<1>1. ws \in Seq(Writes)
  BY ExpanderWrite DEF Call
<1>2. vs \in Seq(Nat) /\ Len(vs) = 1 /\ vs[1] = value
  BY SMT
<1>3. {"start"} \cup {"write"} = {"start", "write"} /\ {"stop"} \cup {"write"} = {"stop", "write"}
  OBVIOUS
<1>4. i2c_write_cmd(2 * Address, {"start"}) = <<Addressing>>
  BY <1>3 DEF i2c_write_cmd, Addressing
<1>5. i2c_write_cmd(value, {"stop"}) = <<Value(value)>>
  BY <1>3 DEF i2c_write_cmd, Value
<1>6. ws = <<Addressing>> \o <<Value(value)>>
  BY <1>4, <1>5 DEF lcd_expander_write
<1>7. ASSUME NEW x, NEW y
      PROVE  Len(<<x>> \o <<y>>) = 2 /\ (<<x>> \o <<y>>)[1] = x /\ (<<x>> \o <<y>>)[2] = y
  BY SMT
<1> HIDE DEF ws, vs
<1>8. Len(ws) = 2 /\ ws[1] = Addressing /\ ws[2] = Value(value)
  BY <1>6, <1>7
<1>9. 2 * 1 = 2 /\ 2 * 1 - 1 = 1 /\ \A i \in 1..1 : i = 1
  BY SMT
<1>10. Sends(ws, vs)
  BY <1>1, <1>2, <1>8, <1>9 DEF Sends
<1> QED BY <1>10 DEF ws, vs

LEMMA NibbleSends ==
  ASSUME NEW n \in Nat, NEW f \in {0, 1, 8, 9}, NEW k, k = n % 16
  PROVE  Sends(lcd_write_nibble(n, f), NibbleValues(k, f))
<1> DEFINE v == 16 * k + f
<1>1. v \in 0..255 /\ v + 4 \in 0..255 /\ v \in Nat /\ v + 4 \in Nat
  <2>1. k \in 0..15
    BY SMT
  <2> QED BY SMT, <2>1
<1>2. 16 * (n % 16) + f = v /\ NibbleValues(k, f) = <<v, v + 4, v>>
  BY DEF NibbleValues
<1> HIDE DEF v
<1>3. <<v>> \o (<<v + 4>> \o <<v>>) = <<v, v + 4, v>>
  <2> DEFINE w == v + 4  b == <<w>> \o <<v>>  xs == <<v>> \o b  ys == <<v, w, v>>
  <2>1. w \in Nat /\ <<v>> \in Seq(Nat) /\ Len(<<v>>) = 1 /\ <<v>>[1] = v
    BY SMT, <1>1
  <2>2. ys \in Seq(Nat) /\ Len(ys) = 3 /\ ys[1] = v /\ ys[2] = w /\ ys[3] = v
    BY SMT, <1>1, <2>1
  <2> HIDE DEF w, ys
  <2>3. 1 \in 1..1 /\ 1 + 1 = 2 /\ 2 + 1 = 3 /\ 1 \in 1..2 /\ 2 \in 1..2
        /\ \A i \in 1..3 : i = 1 \/ i = 2 \/ i = 3
    BY SMT
  <2> DEFINE a == <<v>>
  <2>0. a \in Seq(Nat) /\ Len(a) = 1 /\ a[1] = v
    BY <2>1
  <2> HIDE DEF a
  <2>4. b \in Seq(Nat) /\ Len(b) = 1 + 1 /\ b[1] = w /\ b[1 + 1] = v
    <3>1. /\ <<w>> \o a \in Seq(Nat) /\ Len(<<w>> \o a) = Len(a) + 1 /\ (<<w>> \o a)[1] = w
          /\ \A i \in 1..Len(a) : (<<w>> \o a)[i+1] = a[i]
      BY <2>1, <2>0, FirstOf
    <3>2. b = <<w>> \o a
      BY DEF a
    <3> HIDE DEF b
    <3>3. b[1 + 1] = a[1]
      BY <2>3, <2>0, <3>1, <3>2, Zenon
    <3> QED BY <2>0, <3>1, <3>2, <3>3
  <2> HIDE DEF b
  <2>5. /\ xs \in Seq(Nat) /\ Len(xs) = 2 + 1 /\ xs[1] = v
        /\ \A i \in 1..2 : xs[i+1] = b[i]
    <3>1. Len(b) = 2
      BY <2>3, <2>4
    <3>2. /\ <<v>> \o b \in Seq(Nat) /\ Len(<<v>> \o b) = Len(b) + 1 /\ (<<v>> \o b)[1] = v
          /\ \A i \in 1..Len(b) : (<<v>> \o b)[i+1] = b[i]
      BY ZenonT(40), <1>1, <2>4, FirstOf
    <3> QED BY <3>1, <3>2
  <2>6. xs[1 + 1] = b[1] /\ xs[2 + 1] = b[2]
    BY <2>3, <2>5
  <2>7. \A i \in 1..Len(xs) : xs[i] = ys[i]
    BY <2>2, <2>3, <2>4, <2>5, <2>6
  <2> HIDE DEF xs
  <2>8. Len(xs) = Len(ys)
    BY <2>2, <2>3, <2>5
  <2>9. xs = ys
    BY <2>2, <2>5, <2>7, <2>8, SeqEqual
  <2> QED BY <2>9 DEF xs, ys, b, w
<1>4. Sends(lcd_expander_write(v), <<v>>) /\ Sends(lcd_expander_write(v + 4), <<v + 4>>)
  BY <1>1, ExpanderSends
<1>5. Sends(lcd_pulse_enable(v), <<v + 4>> \o <<v>>)
  BY <1>4, SendsJoined DEF lcd_pulse_enable, LCD_ENABLE
<1>6. Sends(lcd_expander_write(v) \o lcd_pulse_enable(v), <<v, v + 4, v>>)
  BY <1>3, <1>4, <1>5, SendsJoined
<1> QED BY <1>2, <1>6 DEF lcd_write_nibble

LEMMA SendSends ==
  ASSUME NEW c \in 0..255, NEW f \in {0, 1, 8, 9}, NEW h, h = c \div 16, NEW l, l = c % 16
  PROVE  /\ Sends(lcd_send(c, f), SendValues(h, l, f))
         /\ h \in 0..15 /\ l \in 0..15 /\ c = 16 * h + l
<1>1. /\ h \in 0..15 /\ l \in 0..15 /\ c = 16 * h + l /\ c \div 16 \in Nat /\ c \in Nat
      /\ h = (c \div 16) % 16
  BY SMT
<1>2. /\ Sends(lcd_write_nibble(c \div 16, f), NibbleValues(h, f))
      /\ Sends(lcd_write_nibble(c, f), NibbleValues(l, f))
  BY <1>1, NibbleSends
<1> QED BY <1>1, <1>2, SendsJoined DEF lcd_send, SendValues

LEMMA InitSends == Sends(lcd_i2c_init, InitValues)
<1>1. /\ 3 \in Nat /\ 2 \in Nat /\ 8 \in {0, 1, 8, 9} /\ 3 = 3 % 16 /\ 2 = 2 % 16
  BY SMT
<1>2. Sends(Nibble(3), NibbleValues(3, 8)) /\ Sends(Nibble(2), NibbleValues(2, 8))
  BY <1>1, NibbleSends DEF Nibble, LCD_BACKLIGHT
<1>3. /\ InitCommands[1] = 40 /\ InitCommands[2] = 8 /\ InitCommands[3] = 1
      /\ InitCommands[4] = 6 /\ InitCommands[5] = 12
  BY SMT DEF InitCommands
<1>4. /\ 2 = 40 \div 16 /\ 8 = 40 % 16 /\ 0 = 8 \div 16 /\ 8 = 8 % 16
      /\ 0 = 1 \div 16 /\ 1 = 1 % 16 /\ 0 = 6 \div 16 /\ 6 = 6 % 16
      /\ 0 = 12 \div 16 /\ 12 = 12 % 16
      /\ 40 \in 0..255 /\ 8 \in 0..255 /\ 1 \in 0..255 /\ 6 \in 0..255 /\ 12 \in 0..255
  BY SMT
<1>5. Sends(Setup(1), SendValues(2, 8, 8))
  BY <1>1, <1>3, <1>4, SendSends DEF Setup, lcd_command, LCD_BACKLIGHT
<1>6. Sends(Setup(2), SendValues(0, 8, 8))
  BY <1>1, <1>3, <1>4, SendSends DEF Setup, lcd_command, LCD_BACKLIGHT
<1>7. Sends(Setup(3), SendValues(0, 1, 8))
  BY <1>1, <1>3, <1>4, SendSends DEF Setup, lcd_command, LCD_BACKLIGHT
<1>8. Sends(Setup(4), SendValues(0, 6, 8))
  BY <1>1, <1>3, <1>4, SendSends DEF Setup, lcd_command, LCD_BACKLIGHT
<1>9. Sends(Setup(5), SendValues(0, 12, 8))
  BY <1>1, <1>3, <1>4, SendSends DEF Setup, lcd_command, LCD_BACKLIGHT
<1> DEFINE n3 == NibbleValues(3, 8)  n2 == NibbleValues(2, 8)
           s1 == SendValues(2, 8, 8)  s2 == SendValues(0, 8, 8)  s3 == SendValues(0, 1, 8)
           s4 == SendValues(0, 6, 8)  s5 == SendValues(0, 12, 8)
           t1 == Setup(1)  t2 == Setup(2)  t3 == Setup(3)  t4 == Setup(4)  t5 == Setup(5)
           m3 == Nibble(3)  m2 == Nibble(2)
<1>10. /\ Sends(m3, n3) /\ Sends(m2, n2) /\ Sends(t1, s1) /\ Sends(t2, s2) /\ Sends(t3, s3)
       /\ Sends(t4, s4) /\ Sends(t5, s5)
  BY <1>2, <1>5, <1>6, <1>7, <1>8, <1>9
<1> HIDE DEF n3, n2, s1, s2, s3, s4, s5, t1, t2, t3, t4, t5, m3, m2
<1>11. Sends(t1 \o t2, s1 \o s2)
  BY <1>10, SendsJoined
<1>12. Sends(t1 \o t2 \o t3, s1 \o s2 \o s3)
  BY <1>10, <1>11, SendsJoined
<1>13. Sends(t1 \o t2 \o t3 \o t4, s1 \o s2 \o s3 \o s4)
  BY <1>10, <1>12, SendsJoined
<1>14. Sends(t1 \o t2 \o t3 \o t4 \o t5, s1 \o s2 \o s3 \o s4 \o s5)
  BY <1>10, <1>13, SendsJoined
<1>15. Sends(m3 \o m3, n3 \o n3)
  BY <1>10, SendsJoined
<1>16. Sends(m3 \o m3 \o m3, n3 \o n3 \o n3)
  BY <1>10, <1>15, SendsJoined
<1>17. Sends(m3 \o m3 \o m3 \o m2, n3 \o n3 \o n3 \o n2)
  BY <1>10, <1>16, SendsJoined
<1>18. Sends(m3 \o m3 \o m3 \o m2 \o (t1 \o t2 \o t3 \o t4 \o t5),
             n3 \o n3 \o n3 \o n2 \o (s1 \o s2 \o s3 \o s4 \o s5))
  BY <1>14, <1>17, SendsJoined
<1> QED BY <1>18 DEF n3, n2, s1, s2, s3, s4, s5, t1, t2, t3, t4, t5, m3, m2,
                     lcd_i2c_init, SetupAll, InitValues

-----------------------------------------------------------------------------
(* The receiver during a write *)

LEMMA StartMoves ==
  ASSUME I2cInv, NEW pull \in BOOLEAN, NEW accepts, Ticked(pull, accepts),
         START_A \/ START_B \/ START_C(sent)
  PROVE  /\ state = "START_A" => state' = "START_B" /\ receiver' = receiver
         /\ state = "START_B" =>
              /\ state' = "START_C"
              /\ ~receiver.ack => receiver'.at = "addr" /\ ~receiver'.ack
         /\ state = "START_C" =>
              /\ state' = "WRITE_LOW" /\ scl_low'
              /\ ~receiver.ack => receiver' = receiver
         /\ receiver'.ack => receiver.ack
         /\ ~pulled' /\ state \in {"START_A", "START_B", "START_C"}
         /\ arbitration_lost' = arbitration_lost /\ UNCHANGED cmd
<1>1. /\ I2cTypes /\ Wires /\ Heard /\ Tick(sent, pull, accepts) /\ receiver \in Receivers
  BY DEF I2cInv, I2cTypes, Ticked
<1>2. ~pulled /\ ~pull
  BY <1>1 DEF Wires, START_A, START_B, START_C, Tick
<1>3. CASE START_A
  <2>1. /\ ~scl_low /\ ~sda_low /\ ~scl_low' /\ ~sda_low' /\ state' = "START_B" /\ state = "START_A"
        /\ scl_low' \in BOOLEAN /\ sda_low' \in BOOLEAN
        /\ arbitration_lost' = arbitration_lost /\ cmd' = cmd
    BY <1>1, <1>3 DEF Wires, START_A, Drives, Go, Flags, Shift
  <2>2. ~pulled' /\ (Sda <=> NextSda)
    BY <1>1, <1>2, <2>1, LinesMove DEF Sda, NextSda, Line
  <2>3. receiver' = receiver
    BY <1>1, <2>1, <2>2, LinesMove
  <2> QED BY <2>1, <2>2, <2>3
<1>4. CASE START_B
  <2>1. /\ ~scl_low /\ ~sda_low /\ ~scl_low' /\ sda_low' /\ state' = "START_C" /\ state = "START_B"
        /\ scl_low' \in BOOLEAN /\ sda_low' \in BOOLEAN
        /\ arbitration_lost' = arbitration_lost /\ cmd' = cmd
    BY <1>1, <1>4 DEF Wires, START_B, Drives, Go, Flags, Shift, I2cTypes
  <2>2. ~pulled' /\ ~NextSda /\ (Sda <=> ~receiver.ack)
    BY <1>1, <1>2, <2>1, LinesMove DEF Sda, NextSda, Line
  <2>3. receiver' = IF receiver.ack THEN receiver ELSE [Receiver EXCEPT !.at = "addr"]
    BY <1>1, <2>1, <2>2, LinesMove
  <2>4. ~receiver.ack => receiver'.at = "addr" /\ ~receiver'.ack
    <3>1. "addr" \in {"idle", "addr", "data", "skip"}
      OBVIOUS
    <3> QED BY <2>3, <3>1, Empties
  <2> QED BY <2>1, <2>2, <2>4
<1>5. CASE START_C(sent)
  <2>1. /\ ~scl_low /\ scl_low' /\ state' = "WRITE_LOW" /\ state = "START_C"
        /\ scl_low' \in BOOLEAN /\ sda_low' \in BOOLEAN
        /\ arbitration_lost' = arbitration_lost /\ cmd' = cmd
    BY <1>1, <1>5 DEF Wires, START_C, Drives, Go, Flags, Shift, I2cTypes
  <2>2. ~pulled'
    BY <1>1, <1>2, <2>1, LinesMove
  <2>3. receiver' = Fall(receiver, accepts)
    BY <1>1, <2>1, LinesMove DEF Heard
  <2>4. ~receiver.ack => receiver' = receiver
    <3>1. 0 \notin {8, 9}
      BY SMT
    <3>2. ~receiver.ack => receiver.n = 0
      BY <1>1, <2>1 DEF Heard
    <3> QED BY <1>1, <2>3, <3>1, <3>2, Falls
  <2>5. receiver.ack => ~receiver'.ack
    <3>1. receiver.ack => receiver.n = 9
      BY <1>1, <2>1 DEF Wires
    <3> QED BY <1>1, <2>3, <3>1, Falls
  <2> QED BY <2>1, <2>2, <2>4, <2>5
<1> QED BY <1>3, <1>4, <1>5

LEMMA LowMoves ==
  ASSUME I2cInv, NEW pull \in BOOLEAN, NEW accepts, Ticked(pull, accepts), WRITE_LOW
  PROVE  /\ state = "WRITE_LOW" /\ state' = "WRITE_HI"
         /\ ~Fresh => receiver' = receiver
         /\ Fresh => IF Active(receiver) THEN receiver'.at = "data" ELSE receiver' = receiver
         /\ ~receiver'.ack
         /\ arbitration_lost' = arbitration_lost /\ UNCHANGED cmd
         /\ ~pull /\ ~pulled => ~pulled'
<1>1. /\ I2cTypes /\ Wires /\ Heard /\ Tick(sent, pull, accepts) /\ receiver \in Receivers
      /\ bit_count \in 0..7
  BY DEF I2cInv, I2cTypes, Ticked
<1>2. /\ scl_low' /\ state = "WRITE_LOW" /\ state' = "WRITE_HI"
      /\ scl_low' \in BOOLEAN /\ sda_low' \in BOOLEAN
      /\ arbitration_lost' = arbitration_lost /\ cmd' = cmd
  BY DEF WRITE_LOW, Drives, Go, Flags, Shift
<1>3. ~pull /\ ~pulled => ~pulled'
  BY <1>1, <1>2, LinesMove
<1>4. CASE ~Active(receiver)
  <2>1. receiver' = receiver
    BY <1>1, <1>2, <1>4, LinesMove DEF I2cTypes
  <2> QED BY <1>1, <1>2, <1>3, <1>4, <2>1 DEF Wires
<1>5. CASE Active(receiver) /\ Fresh
  <2>1. receiver.n = 9 /\ ~scl_low
    BY <1>1, <1>5 DEF Heard, Settled, Fresh
  <2>2. receiver' = Fall(receiver, accepts)
    BY <1>1, <1>2, <1>5, <2>1, LinesMove
  <2>3. receiver' = [Receiver EXCEPT !.at = "data"]
    BY <2>1, <2>2 DEF Fall
  <2>4. receiver'.at = "data" /\ ~receiver'.ack
    <3>1. "data" \in {"idle", "addr", "data", "skip"}
      OBVIOUS
    <3> QED BY <2>3, <3>1, Empties
  <2> QED BY <1>2, <1>3, <1>5, <2>4
<1>6. CASE Active(receiver) /\ ~Fresh
  <2>1. receiver.n = 7 - bit_count /\ ~receiver.ack
    BY <1>1, <1>2, <1>6 DEF Heard
  <2>2. receiver' = receiver
    <3>1. CASE scl_low
      BY <1>1, <1>2, <3>1, LinesMove
    <3>2. CASE ~scl_low
      <4>1. receiver.n \notin {8, 9}
        BY SMT, <1>1, <2>1
      <4>2. receiver' = Fall(receiver, accepts)
        BY <1>1, <1>2, <1>6, <3>2, LinesMove
      <4> QED BY <1>1, <4>1, <4>2, Falls
    <3> QED BY <3>1, <3>2
  <2> QED BY <1>2, <1>3, <1>6, <2>1, <2>2
<1> QED BY <1>4, <1>5, <1>6

LEMMA HighMoves ==
  ASSUME I2cInv, NEW pull \in BOOLEAN, NEW accepts, Ticked(pull, accepts), WRITE_HI
  PROVE  /\ state = "WRITE_HI" /\ state' \in {"WRITE_LOW", "WACK_LOW"} /\ ~Fresh'
         /\ receiver'.at = receiver.at /\ ~receiver'.ack /\ (pulled' <=> pulled)
         /\ ~pulled /\ ~arbitration_lost => ~arbitration_lost'
         /\ UNCHANGED cmd
<1>1. /\ I2cTypes /\ Wires /\ Heard /\ Tick(sent, pull, accepts) /\ receiver \in Receivers
      /\ bit_count \in 0..7 /\ scl_low \in BOOLEAN /\ sda_low \in BOOLEAN
      /\ state = "WRITE_HI"
  BY DEF I2cInv, I2cTypes, Ticked, WRITE_HI
<1>2. /\ scl_low /\ ~scl_low' /\ (sda_low <=> TopBit(shifter) = 0)
      /\ ~pull /\ scl_low' \in BOOLEAN /\ sda_low' \in BOOLEAN /\ cmd' = cmd
      /\ arbitration_lost' = (arbitration_lost \/ (TopBit(shifter) = 1 /\ ~sda_i))
  BY <1>1 DEF WRITE_HI, Drives, Wires, Tick
<1>3. /\ pulled' <=> pulled
      /\ receiver' = IF Active(receiver) THEN Rise(receiver, NextSda) ELSE receiver
      /\ NextSda \in BOOLEAN
  BY <1>1, <1>2, LinesMove
<1>4. state' \in {"WRITE_LOW", "WACK_LOW"} /\ ~Fresh'
  <2>1. bit_count # 0 => bit_count - 1 # 7
    BY SMT, <1>1
  <2> QED BY <2>1 DEF WRITE_HI, Go, Fresh
<1>5. ~receiver.ack
  BY <1>1 DEF Heard, Wires, Fresh
<1>6. receiver'.at = receiver.at /\ ~receiver'.ack
  BY <1>1, <1>3, <1>5, Rises
<1>7. ~pulled /\ ~arbitration_lost => ~arbitration_lost'
  <2>1. ~(1 = 0)
    BY SMT
  <2> QED BY <1>2, <1>5, <2>1 DEF sda_i, Line
<1> QED BY <1>1, <1>2, <1>3, <1>4, <1>6, <1>7

LEMMA AckMoves ==
  ASSUME I2cInv, NEW pull \in BOOLEAN, NEW accepts, Ticked(pull, accepts), WACK_LOW
  PROVE  /\ state = "WACK_LOW" /\ state' = "WACK_HI" /\ ~pulled'
         /\ ~receiver.ack /\ (receiver'.ack => Active(receiver))
         /\ Active(receiver) /\ ~arbitration_lost => receiver.byte = sent
         /\ accepts /\ Active(receiver) => (receiver'.ack <=> Wanted(receiver))
         /\ Active(receiver') => receiver'.at = receiver.at
         /\ arbitration_lost' = arbitration_lost /\ UNCHANGED cmd
<1>1. /\ I2cTypes /\ Wires /\ Heard /\ Tick(sent, pull, accepts) /\ receiver \in Receivers
      /\ state = "WACK_LOW"
  BY DEF I2cInv, I2cTypes, Ticked, WACK_LOW
<1>2. /\ ~scl_low /\ scl_low' /\ state' = "WACK_HI" /\ ~pull
      /\ scl_low' \in BOOLEAN /\ sda_low' \in BOOLEAN
      /\ arbitration_lost' = arbitration_lost /\ cmd' = cmd
  BY <1>1 DEF Wires, WACK_LOW, Drives, Go, Flags, Shift, Tick
<1>3. /\ ~pulled'
      /\ receiver' = IF Active(receiver) THEN Fall(receiver, accepts) ELSE receiver
  BY <1>1, <1>2, LinesMove
<1>4. CASE ~Active(receiver)
  BY <1>1, <1>2, <1>3, <1>4 DEF Wires
<1>5. CASE Active(receiver)
  <2>1. /\ receiver.n = 8 /\ ~receiver.ack /\ ~arbitration_lost => receiver.byte = sent
        /\ ~receiver.ack
    BY <1>1, <1>5 DEF Heard
  <2>2. receiver.n = 8
    BY <1>1, <1>5 DEF Heard
  <2>3. CASE accepts /\ Wanted(receiver)
    <3>1. receiver' = [receiver EXCEPT !.ack = TRUE]
      <4>1. Fall(receiver, accepts) = [receiver EXCEPT !.ack = TRUE]
        BY <2>2, <2>3 DEF Fall
      <4> QED BY <1>3, <1>5, <4>1
    <3>2. receiver'.ack /\ receiver'.at = receiver.at
      BY <1>1, <3>1 DEF Receivers
    <3> QED BY <1>1, <1>2, <1>3, <1>5, <2>1, <2>2, <2>3, <3>2
  <2>4. CASE ~(accepts /\ Wanted(receiver))
    <3>1. receiver' = [Receiver EXCEPT !.at = "skip"]
      <4>1. Fall(receiver, accepts) = [Receiver EXCEPT !.at = "skip"]
        BY <2>2, <2>4 DEF Fall
      <4> QED BY <1>3, <1>5, <4>1
    <3>2. ~receiver'.ack /\ ~Active(receiver')
      BY <3>1, Empties DEF Active
    <3> QED BY <1>1, <1>2, <1>3, <1>5, <2>1, <2>2, <2>4, <3>2
  <2> QED BY <2>3, <2>4
<1> QED BY <1>4, <1>5

LEMMA AnswerMoves ==
  ASSUME I2cInv, NEW pull \in BOOLEAN, NEW accepts, Ticked(pull, accepts), WACK_HI
  PROVE  /\ state = "WACK_HI" /\ state' = IF "stop" \in cmd THEN "STOP_A" ELSE "DONE"
         /\ receiver'.ack = receiver.ack /\ receiver'.at = receiver.at
         /\ (rxack' <=> ~receiver.ack)
         /\ ~pulled' /\ (receiver.ack => Active(receiver'))
         /\ arbitration_lost' = arbitration_lost /\ UNCHANGED cmd
<1>1. /\ I2cTypes /\ Wires /\ Heard /\ Tick(sent, pull, accepts) /\ receiver \in Receivers
      /\ state = "WACK_HI"
  BY DEF I2cInv, I2cTypes, Ticked, WACK_HI
<1>2. /\ scl_low /\ ~sda_low /\ ~pulled /\ ~pull
      /\ receiver.ack => Active(receiver)
  BY <1>1 DEF Wires, Tick
<1>3. /\ state' = IF "stop" \in cmd THEN "STOP_A" ELSE "DONE"
      /\ ~scl_low' /\ sda_low' = sda_low /\ rxack' = sda_i
      /\ scl_low' \in BOOLEAN
      /\ arbitration_lost' = arbitration_lost /\ cmd' = cmd
  BY DEF WACK_HI, Go, Drives, Shift
<1>4. sda_low' \in BOOLEAN
  BY <1>1, <1>3 DEF I2cTypes
<1>5. /\ ~pulled' /\ NextSda \in BOOLEAN
      /\ receiver' = IF Active(receiver) THEN Rise(receiver, NextSda) ELSE receiver
  BY <1>1, <1>2, <1>3, <1>4, LinesMove
<1>6. receiver'.ack = receiver.ack /\ receiver'.at = receiver.at
  BY <1>1, <1>5, Rises
<1>7. rxack' <=> ~receiver.ack
  BY <1>2, <1>3 DEF sda_i, Line
<1> QED BY <1>1, <1>2, <1>3, <1>5, <1>6, <1>7 DEF Active

LEMMA StopMoves ==
  ASSUME I2cInv, NEW pull \in BOOLEAN, NEW accepts, Ticked(pull, accepts),
         STOP_A \/ STOP_B \/ STOP_C \/ DONE
  PROVE  /\ \/ state = "STOP_A" /\ state' = "STOP_B"
            \/ state = "STOP_B" /\ state' = "STOP_C"
            \/ state = "STOP_C" /\ state' = "DONE" /\ ~receiver'.ack
            \/ state = "DONE" /\ state' = "IDLE" /\ receiver' = receiver
         /\ receiver'.ack => receiver.ack
         /\ rxack' = rxack /\ arbitration_lost' = arbitration_lost
         /\ ~pulled' /\ UNCHANGED cmd
<1>1. /\ I2cTypes /\ Wires /\ Heard /\ Tick(sent, pull, accepts) /\ receiver \in Receivers
      /\ rxack' = rxack /\ arbitration_lost' = arbitration_lost /\ cmd' = cmd
  BY DEF I2cInv, I2cTypes, Ticked, STOP_A, STOP_B, STOP_C, DONE, Flags, Shift
<1>2. ~pull /\ ~pulled
  BY <1>1 DEF STOP_A, STOP_B, STOP_C, DONE, Tick, Wires
<1>3. CASE STOP_A
  <2>1. /\ ~scl_low /\ scl_low' /\ state' = "STOP_B" /\ state = "STOP_A"
        /\ scl_low' \in BOOLEAN /\ sda_low' \in BOOLEAN
    BY <1>1, <1>3 DEF Wires, STOP_A, Drives, Go
  <2>2. /\ ~pulled'
        /\ receiver' = IF Active(receiver) THEN Fall(receiver, accepts) ELSE receiver
    BY <1>1, <1>2, <2>1, LinesMove
  <2>3. receiver'.ack => receiver.ack
    <3>1. Active(receiver) => receiver.n = 9
      BY <1>1, <2>1 DEF Heard, Settled
    <3> QED BY <1>1, <2>2, <3>1, Falls
  <2> QED BY <1>1, <2>1, <2>2, <2>3
<1>4. CASE STOP_B
  <2>1. /\ scl_low /\ ~scl_low' /\ state' = "STOP_C" /\ state = "STOP_B"
        /\ scl_low' \in BOOLEAN /\ sda_low' \in BOOLEAN
    BY <1>1, <1>4 DEF Wires, STOP_B, Drives, Go
  <2>2. /\ ~pulled' /\ NextSda \in BOOLEAN
        /\ receiver' = IF Active(receiver) THEN Rise(receiver, NextSda) ELSE receiver
    BY <1>1, <1>2, <2>1, LinesMove
  <2>3. receiver'.ack = receiver.ack
    BY <1>1, <2>2, Rises
  <2> QED BY <1>1, <2>1, <2>2, <2>3
<1>5. CASE STOP_C
  <2>1. /\ ~scl_low /\ ~scl_low' /\ sda_low /\ ~sda_low'
        /\ state' = "DONE" /\ state = "STOP_C"
        /\ scl_low' \in BOOLEAN /\ sda_low' \in BOOLEAN
    BY <1>1, <1>5 DEF Wires, STOP_C, Drives, Go, I2cTypes
  <2>2. ~receiver.ack
    <3>1. 1 # 9
      BY SMT
    <3> QED BY <1>1, <2>1, <3>1 DEF Wires, Heard
  <2>3. ~pulled' /\ ~Sda /\ NextSda
    BY <1>1, <1>2, <2>1, <2>2, LinesMove DEF Sda, NextSda, Line
  <2>4. receiver' = Receiver
    BY <1>1, <2>1, <2>3, LinesMove
  <2>5. ~receiver'.ack
    <3>1. "idle" \in {"idle", "addr", "data", "skip"}
      OBVIOUS
    <3> QED BY <2>4, <3>1, Empties
  <2> QED BY <1>1, <2>1, <2>3, <2>5
<1>6. CASE DONE
  <2>1. /\ ~scl_low /\ ~scl_low' /\ ~sda_low /\ ~sda_low'
        /\ state' = "IDLE" /\ state = "DONE"
        /\ scl_low' \in BOOLEAN /\ sda_low' \in BOOLEAN
    BY <1>1, <1>6 DEF Wires, DONE, Drives, Go, I2cTypes
  <2>2. ~pulled' /\ (Sda <=> NextSda)
    BY <1>1, <1>2, <2>1, LinesMove DEF Sda, NextSda, Line
  <2>3. receiver' = receiver
    BY <1>1, <2>1, <2>2, LinesMove
  <2> QED BY <1>1, <2>1, <2>2, <2>3
<1> QED BY <1>3, <1>4, <1>5, <1>6

-----------------------------------------------------------------------------
(* The display and its expander in a step *)

Now == [out |-> out, mode |-> mode, half |-> half, executed |-> executed]

LEMMA PushedType ==
  ASSUME NEW x \in Seq(Nat), Len(x) <= Window, NEW c \in Nat
  PROVE  Pushed(x, c) \in Seq(Nat) /\ Len(Pushed(x, c)) <= Window
<1> DEFINE all == Append(x, c)
<1>1. all \in Seq(Nat) /\ Len(all) = Len(x) + 1 /\ Len(x) \in Nat
  BY AppendProperties
<1> HIDE DEF all
<1>2. CASE Len(all) > Window
  <2>1. all # <<>>
    BY SMT, <1>1
  <2>2. Tail(all) \in Seq(Nat) /\ Len(Tail(all)) = Len(all) - 1
    BY <1>1, <2>1, SplitSeq
  <2>3. Len(Tail(all)) <= Window
    BY SMT, <1>1, <2>2 DEF Window
  <2> QED BY <1>2, <2>2, <2>3 DEF Pushed, all
<1>3. CASE ~(Len(all) > Window)
  <2>1. Len(all) <= Window
    BY SMT, <1>1, <1>3 DEF Window
  <2> QED BY <1>1, <1>3, <2>1 DEF Pushed, all
<1> QED BY <1>2, <1>3

LEMMA DisplayOf ==
  ASSUME NEW o, NEW m, NEW h, NEW x,
         NEW d, d = [out |-> o, mode |-> m, half |-> h, executed |-> x]
  PROVE  /\ d \in Displays <=>
              /\ o \in Nat /\ m \in {4, 8} /\ h \in Nat \cup {NoHalf} /\ x \in Seq(Nat)
              /\ (m = 8 => h = NoHalf) /\ Len(x) <= Window
         /\ d.out = o /\ d.mode = m /\ d.half = h /\ d.executed = x
<1>1. d.out = o /\ d.mode = m /\ d.half = h /\ d.executed = x
  OBVIOUS
<1>2. ASSUME d \in Displays
      PROVE  /\ o \in Nat /\ m \in {4, 8} /\ h \in Nat \cup {NoHalf} /\ x \in Seq(Nat)
             /\ (m = 8 => h = NoHalf) /\ Len(x) <= Window
  <2>1. d.out \in Nat
    BY <1>2 DEF Displays
  <2> QED BY <1>1, <1>2, <2>1, DisplayParts
<1>3. ASSUME o \in Nat, m \in {4, 8}, h \in Nat \cup {NoHalf}, x \in Seq(Nat),
             m = 8 => h = NoHalf, Len(x) <= Window
      PROVE  d \in Displays
  BY <1>1, <1>3 DEF Displays
<1> QED BY <1>1, <1>2, <1>3

LEMMA NowParts ==
  /\ Now \in Displays <=>
       /\ out \in Nat /\ mode \in {4, 8} /\ half \in Nat \cup {NoHalf} /\ executed \in Seq(Nat)
       /\ (mode = 8 => half = NoHalf) /\ Len(executed) <= Window
  /\ Now.out = out /\ Now.mode = mode /\ Now.half = half /\ Now.executed = executed
BY DisplayOf DEF Now

LEMMA NextParts ==
  /\ Now' \in Displays <=>
       /\ out' \in Nat /\ mode' \in {4, 8} /\ half' \in Nat \cup {NoHalf} /\ executed' \in Seq(Nat)
       /\ (mode' = 8 => half' = NoHalf) /\ Len(executed') <= Window
  /\ Now'.out = out' /\ Now'.mode = mode' /\ Now'.half = half' /\ Now'.executed = executed'
BY DisplayOf DEF Now

LEMMA LatchMoves ==
  ASSUME Now \in Displays, NEW v \in Nat, Latch(v), out' \in Nat
  PROVE  Now' \in Displays /\ Latched(Now, v, Now')
<1> DEFINE nibble == v \div 16
           rs == Has(v, LCD_RS)
           rw == Has(v, LCD_RW)
<1>1. /\ out \in Nat /\ mode \in {4, 8} /\ half \in Nat \cup {NoHalf} /\ executed \in Seq(Nat)
      /\ (mode = 8 => half = NoHalf) /\ Len(executed) <= Window
  BY NowParts
<1>2. nibble \in Nat /\ NoHalf \notin Nat /\ 16 * nibble \in Nat /\ 4 # 8
      /\ 0 \in Nat /\ (half \in Nat => 16 * half + nibble \in Nat) /\ ~(4 = 8)
  BY SMT DEF NoHalf
<1>3. \/ rw /\ mode = 4 /\ (half' = IF half = NoHalf THEN 0 ELSE NoHalf)
           /\ UNCHANGED <<mode, executed>>
      \/ rw /\ mode = 8 /\ UNCHANGED lcdVars
      \/ /\ ~rw /\ mode = 8
         /\ (mode' = IF ~rs /\ nibble \in {2, 3} THEN Width(nibble) ELSE mode)
         /\ executed' = Pushed(executed, 16 * nibble) /\ half' = half
      \/ ~rw /\ mode = 4 /\ half = NoHalf /\ half' = nibble /\ UNCHANGED <<mode, executed>>
      \/ /\ ~rw /\ mode = 4 /\ half # NoHalf
         /\ (mode' = IF ~rs /\ half \in {2, 3} THEN Width(half) ELSE mode)
         /\ executed' = Pushed(executed, 16 * half + nibble) /\ half' = NoHalf
  BY <1>1, <1>2 DEF Latch, Executes, Pushed, Width
<1>4. \A n : Width(n) \in {4, 8}
  BY DEF Width
<1> HIDE DEF nibble, rs, rw
<1>5. CASE rw
  <2>1. Now' \in Displays
    BY <1>1, <1>2, <1>3, <1>5, NextParts DEF lcdVars
  <2> QED BY <1>5, <2>1 DEF Latched, rw
<1>6. CASE ~rw /\ mode = 8
  <2>1. /\ (mode' = IF ~rs /\ nibble \in {2, 3} THEN Width(nibble) ELSE 8)
        /\ executed' = Pushed(executed, 16 * nibble) /\ half' = NoHalf
    BY <1>1, <1>2, <1>3, <1>6
  <2>2. executed' \in Seq(Nat) /\ Len(executed') <= Window
    BY <1>1, <1>2, <2>1, PushedType
  <2>3. Now' \in Displays
    BY <1>4, <2>1, <2>2, NextParts
  <2>4. Takes(Now, nibble, rs, Now')
    BY <1>2, <1>6, <2>1, NowParts, NextParts DEF Takes
  <2> QED BY <2>3, <2>4 DEF Latched, rs, nibble
<1>7. CASE ~rw /\ mode = 4 /\ half = NoHalf
  <2>1. half' = nibble /\ mode' = 4 /\ executed' = executed
    BY <1>1, <1>2, <1>3, <1>7
  <2>2. Now' \in Displays
    BY <1>1, <1>2, <2>1, NextParts
  <2>3. Takes(Now, nibble, rs, Now')
    BY <1>2, <1>7, <2>1, NowParts, NextParts DEF Takes
  <2> QED BY <2>2, <2>3 DEF Latched, rs, nibble
<1>8. CASE ~rw /\ mode = 4 /\ half # NoHalf
  <2>1. /\ (mode' = IF ~rs /\ half \in {2, 3} THEN Width(half) ELSE 4)
        /\ executed' = Pushed(executed, 16 * half + nibble) /\ half' = NoHalf
    BY <1>1, <1>2, <1>3, <1>8
  <2>2. executed' \in Seq(Nat) /\ Len(executed') <= Window
    BY <1>1, <1>2, <1>8, <2>1, PushedType
  <2>3. Now' \in Displays
    BY <1>4, <2>1, <2>2, NextParts
  <2>4. Takes(Now, nibble, rs, Now')
    BY <1>2, <1>8, <2>1, NowParts, NextParts DEF Takes
  <2> QED BY <2>3, <2>4 DEF Latched, rs, nibble
<1> QED BY <1>1, <1>5, <1>6, <1>7, <1>8

LEMMA ExpanderMoves ==
  ASSUME receiver \in Receivers, Now \in Displays, Expander
  PROVE  /\ Now' \in Displays
         /\ (~receiver'.ack \/ receiver.ack \/ receiver.at # "data") => Now' = Now
         /\ receiver'.ack /\ ~receiver.ack /\ receiver.at = "data" =>
              Becomes(Now, receiver.byte, Now')
<1>1. CASE ~(receiver'.ack /\ ~receiver.ack /\ receiver.at = "data")
  BY <1>1 DEF Expander, lcdVars, Now
<1>2. CASE receiver'.ack /\ ~receiver.ack /\ receiver.at = "data"
  <2>1. receiver.byte \in Nat
    BY DEF Receivers
  <2>2. /\ out' = receiver.byte /\ out' \in Nat
        /\ IF Has(out, LCD_ENABLE) /\ ~Has(out', LCD_ENABLE)
            THEN Latch(out) \/ Latch(out')
            ELSE UNCHANGED lcdVars
    BY <1>2, <2>1 DEF Expander
  <2>3. out \in Nat /\ Now.out = out
    BY NowParts
  <2>4. CASE Has(out, LCD_ENABLE) /\ ~Has(out', LCD_ENABLE)
    <3>1. Now' \in Displays /\ (Latched(Now, out, Now') \/ Latched(Now, out', Now'))
      BY <2>2, <2>3, <2>4, LatchMoves
    <3> QED BY <1>2, <2>2, <2>3, <2>4, <3>1, NextParts DEF Becomes
  <2>5. CASE ~(Has(out, LCD_ENABLE) /\ ~Has(out', LCD_ENABLE))
    <3>1. UNCHANGED lcdVars
      BY <2>2, <2>5
    <3>2. Now' \in Displays
      BY <2>2, <3>1, NowParts, NextParts DEF lcdVars
    <3>3. SameDisplay(Now, Now')
      BY <3>1, NowParts, NextParts DEF lcdVars, SameDisplay
    <3> QED BY <1>2, <2>2, <2>3, <2>5, <3>2, <3>3, NextParts DEF Becomes
  <2> QED BY <2>4, <2>5
<1> QED BY <1>1, <1>2

-----------------------------------------------------------------------------
(* A call in progress *)

Between == state = "IDLE" /\ sent = NoByte
Returned == state = "IDLE" /\ sent # NoByte
Starting == state \in {"START_A", "START_B", "START_C"}
Stopping == state \in {"STOP_A", "STOP_B", "STOP_C"}
\* The receiver has had its acknowledge bit.
Answered == state \in {"WACK_HI", "DONE"} \/ Stopping \/ Returned
Good == ~arbitration_lost /\ IF state = "WACK_HI" THEN receiver.ack ELSE ~rxack

Issued ==
  /\ sent # NoByte => sent = Head(todo).byte /\ cmd = Head(todo).flags
  /\ Starting => "start" \in cmd
  /\ Fresh => "start" \notin cmd
  /\ Stopping => "stop" \in cmd
  /\ result # Running => todo = <<>>

\* With the values vs the display comes to have executed the call.
Leads(vs) == Brings({Now}, vs, Synced(call))
\* The receiver takes what is being sent for an address, if for anything.
Listening ==
  /\ Starting \/ Between => ~receiver.ack
  /\ state \notin {"START_A", "START_B"} /\ ~Between /\ Active(receiver) =>
       receiver.at = "addr"
\* About to address the expander, or doing it.  During the initialisation what
\* has gone before does not matter.
AtAddress(vs) ==
  /\ Sends(todo, vs) /\ vs # <<>> /\ Leads(vs)
  /\ (vs = InitValues /\ call = InitCommands) \/ Listening
\* About to send it v, or doing it.
AtValue(v, vs) ==
  /\ todo # <<>> /\ Head(todo) = Value(v) /\ v \in Nat /\ Sends(Tail(todo), vs)
  /\ state \in {"WRITE_LOW", "WRITE_HI", "WACK_LOW"} /\ ~Fresh /\ Active(receiver) =>
       receiver.at = "data"
  /\ ~Answered => Leads(<<v>> \o vs)
  /\ Answered /\ Good => Leads(vs)
  /\ state = "DONE" \/ Returned => ~receiver.ack
Done ==
  /\ todo = <<>> /\ sent = NoByte /\ result = 0
  /\ ~receiver.ack /\ Now \in Synced(call)
Planned ==
  app = "demo" /\ clean =>
    IF result = Running THEN (\E vs : AtAddress(vs)) \/ (\E v, vs : AtValue(v, vs))
    ELSE Done

LEMMA WhichFlags ==
  /\ "start" \in Addressing.flags /\ "stop" \notin Addressing.flags
  /\ Addressing.byte = 2 * Address
  /\ \A v : "start" \notin Value(v).flags /\ "stop" \in Value(v).flags /\ Value(v).byte = v
<1>1. /\ "start" \in {"start", "write"} /\ "stop" \notin {"start", "write"}
      /\ "start" \notin {"stop", "write"} /\ "stop" \in {"stop", "write"}
  OBVIOUS
<1> QED BY <1>1 DEF Addressing, Value

LEMMA BringsFrom ==
  ASSUME NEW P, NEW vs, NEW Q, Brings(P, vs, Q), NEW d \in P
  PROVE  Brings({d}, vs, Q)
BY DEF Brings

LEMMA InitLeads ==
  ASSUME Now \in Displays, call = InitCommands
  PROVE  Leads(InitValues)
BY InitBrings, BringsFrom DEF Leads

LEMMA NotDuring ==
  ASSUME I2cInv, NEW pull \in BOOLEAN, NEW accepts, Ticked(pull, accepts)
  PROVE  /\ sent # NoByte /\ sent' = sent /\ todo' = todo /\ call' = call /\ app' = app
         /\ result' = result /\ clean' = clean /\ found' = found /\ made' = made
         /\ ~Between /\ ~Returned
         /\ \/ START_A \/ START_B \/ START_C(sent) \/ WRITE_LOW \/ WRITE_HI
            \/ WACK_LOW \/ WACK_HI \/ STOP_A \/ STOP_B \/ STOP_C \/ DONE
<1>1. state # "IDLE"
  BY DEF Ticked, Tick, START_A, START_B, START_C, WRITE_LOW, WRITE_HI,
         WACK_LOW, WACK_HI, STOP_A, STOP_B, STOP_C, DONE
<1> QED BY <1>1 DEF Ticked, Tick, callVars, I2cInv, I2cTypes, Between, Returned

LEMMA IssuedTick ==
  ASSUME I2cInv, Issued, NEW pull \in BOOLEAN, NEW accepts, Ticked(pull, accepts)
  PROVE  Issued'
<1>1. /\ sent # NoByte /\ sent' = sent /\ todo' = todo /\ result' = result
      /\ \/ START_A \/ START_B \/ START_C(sent) \/ WRITE_LOW \/ WRITE_HI
         \/ WACK_LOW \/ WACK_HI \/ STOP_A \/ STOP_B \/ STOP_C \/ DONE
  BY NotDuring
<1>2. /\ cmd' = cmd
      /\ Starting' => Starting
      /\ ~Fresh'
      /\ Stopping' => "stop" \in cmd
  <2>1. CASE START_A \/ START_B \/ START_C(sent)
    BY <2>1, StartMoves DEF Starting, Stopping, Fresh
  <2>2. CASE WRITE_LOW
    BY <2>2, LowMoves DEF Starting, Stopping, Fresh
  <2>3. CASE WRITE_HI
    BY <2>3, HighMoves DEF Starting, Stopping
  <2>4. CASE WACK_LOW
    BY <2>4, AckMoves DEF Starting, Stopping, Fresh
  <2>5. CASE WACK_HI
    BY <2>5, AnswerMoves DEF Starting, Stopping, Fresh
  <2>6. CASE STOP_A \/ STOP_B \/ STOP_C \/ DONE
    BY <2>6, StopMoves DEF Starting, Stopping, Fresh, Issued
  <2> QED BY <1>1, <2>1, <2>2, <2>3, <2>4, <2>5, <2>6
<1> QED BY <1>1, <1>2 DEF Issued

LEMMA ListeningTick ==
  ASSUME I2cInv, Issued, Listening, "start" \in cmd, "stop" \notin cmd,
         NEW pull \in BOOLEAN, NEW accepts, Ticked(pull, accepts)
  PROVE  /\ Listening'
         /\ ~receiver'.ack \/ receiver.ack \/ receiver.at # "data"
<1>1. /\ sent # NoByte /\ sent' = sent /\ ~Between /\ ~Between'
      /\ \/ START_A \/ START_B \/ START_C(sent) \/ WRITE_LOW \/ WRITE_HI
         \/ WACK_LOW \/ WACK_HI \/ STOP_A \/ STOP_B \/ STOP_C \/ DONE
  BY NotDuring DEF Between
<1>2. "addr" # "data"
  OBVIOUS
<1>3. CASE START_A \/ START_B \/ START_C(sent)
  BY <1>1, <1>3, StartMoves DEF Listening, Starting, Active
<1>4. CASE WRITE_LOW
  BY <1>1, <1>4, LowMoves DEF Listening, Starting, Issued, Active
<1>5. CASE WRITE_HI
  BY <1>1, <1>5, HighMoves DEF Listening, Starting, Active
<1>6. CASE WACK_LOW
  BY <1>1, <1>2, <1>6, AckMoves DEF Listening, Starting, Active
<1>7. CASE WACK_HI
  BY <1>1, <1>7, AnswerMoves DEF Listening, Starting, Active
<1>8. CASE STOP_A \/ STOP_B \/ STOP_C \/ DONE
  BY <1>1, <1>8, StopMoves DEF Listening, Starting, Issued, Stopping
<1> QED BY <1>1, <1>3, <1>4, <1>5, <1>6, <1>7, <1>8

LEMMA AddressTick ==
  ASSUME I2cInv, I2cInv', Issued, Now \in Displays, NEW vs, AtAddress(vs),
         NEW pull \in BOOLEAN, NEW accepts, BusTick(pull, accepts)
  PROVE  AtAddress(vs)' /\ Now' \in Displays
<1>1. Ticked(pull, accepts) /\ receiver \in Receivers /\ Expander
  BY DEF BusTick, Ticked, I2cInv, I2cTypes
<1>2. sent # NoByte /\ todo' = todo /\ call' = call
  BY <1>1, NotDuring
<1>3. "start" \in cmd /\ "stop" \notin cmd
  BY <1>2, SendsFirst, WhichFlags DEF AtAddress, Issued
<1>4. Now' \in Displays
  BY <1>1, ExpanderMoves
<1>5. CASE vs = InitValues /\ call = InitCommands
  <2>1. Brings({Now'}, vs, Synced(call'))
    BY <1>2, <1>4, <1>5, InitBrings, BringsFrom
  <2> QED BY <1>2, <1>4, <1>5, <2>1 DEF AtAddress, Leads
<1>6. CASE Listening
  <2>1. Listening' /\ Now' = Now
    BY <1>1, <1>3, <1>6, ListeningTick, ExpanderMoves
  <2>2. Leads(vs)'
    BY <1>2, <2>1 DEF AtAddress, Leads
  <2> QED BY <1>2, <1>4, <2>1, <2>2 DEF AtAddress
<1> QED BY <1>4, <1>5, <1>6 DEF AtAddress

LEMMA ValueTick ==
  ASSUME I2cInv, I2cInv', Issued, Now \in Displays, NEW v, NEW vs, AtValue(v, vs),
         NEW pull \in BOOLEAN, NEW accepts, BusTick(pull, accepts)
  PROVE  AtValue(v, vs)' /\ Now' \in Displays
<1>1. Ticked(pull, accepts) /\ receiver \in Receivers /\ Expander
  BY DEF BusTick, Ticked, I2cInv, I2cTypes
<1>2. /\ sent # NoByte /\ sent' = sent /\ todo' = todo /\ call' = call
      /\ ~Returned
      /\ \/ START_A \/ START_B \/ START_C(sent) \/ WRITE_LOW \/ WRITE_HI
         \/ WACK_LOW \/ WACK_HI \/ STOP_A \/ STOP_B \/ STOP_C \/ DONE
  BY <1>1, NotDuring
<1>3. "start" \notin cmd /\ "stop" \in cmd /\ sent = v /\ v \in Nat
  BY <1>2, WhichFlags DEF AtValue, Issued
<1>4. Now' \in Displays
  BY <1>1, ExpanderMoves
<1>5. /\ todo' # <<>> /\ Head(todo') = Value(v) /\ v \in Nat /\ Sends(Tail(todo'), vs)
  BY <1>2 DEF AtValue
<1>6. CASE START_A \/ START_B \/ START_C(sent)
  BY <1>1, <1>3, <1>6, StartMoves DEF Issued, Starting
<1>7. CASE WRITE_LOW
  <2>1. /\ ~Answered /\ ~Answered' /\ state' = "WRITE_HI"
    BY <1>1, <1>2, <1>7, LowMoves DEF Answered, Stopping, Returned
  <2>2. Active(receiver') => receiver'.at = "data"
    BY <1>1, <1>7, LowMoves DEF AtValue
  <2>3. Now' = Now
    BY <1>1, <1>7, LowMoves, ExpanderMoves
  <2>4. Leads(<<v>> \o vs)'
    BY <1>2, <2>1, <2>3 DEF AtValue, Leads
  <2> QED BY <1>4, <1>5, <2>1, <2>2, <2>4 DEF AtValue, Answered
<1>8. CASE WRITE_HI
  <2>1. /\ ~Answered /\ ~Answered' /\ state' \in {"WRITE_LOW", "WACK_LOW"}
    BY <1>1, <1>2, <1>8, HighMoves DEF Answered, Stopping, Returned
  <2>2. Active(receiver') => receiver'.at = "data"
    BY <1>1, <1>8, HighMoves DEF AtValue, Fresh, Active
  <2>3. Now' = Now
    BY <1>1, <1>8, HighMoves, ExpanderMoves
  <2>4. Leads(<<v>> \o vs)'
    BY <1>2, <2>1, <2>3 DEF AtValue, Leads
  <2> QED BY <1>4, <1>5, <2>1, <2>2, <2>4 DEF AtValue, Answered
<1>9. CASE WACK_LOW
  <2>1. /\ ~Answered /\ state' = "WACK_HI" /\ state = "WACK_LOW"
    BY <1>1, <1>2, <1>9, AckMoves DEF Answered, Stopping, Returned
  <2>2. ASSUME Good' PROVE Leads(vs)'
    <3>1. receiver'.ack /\ ~arbitration_lost
      BY <1>1, <1>9, <2>1, <2>2, AckMoves DEF Good
    <3>2. ~receiver.ack /\ receiver.at = "data" /\ receiver.byte = v
      BY <1>1, <1>3, <1>9, <2>1, <3>1, AckMoves DEF AtValue, Fresh
    <3>3. Becomes(Now, v, Now')
      BY <1>1, <3>1, <3>2, ExpanderMoves
    <3>4. Brings({Now}, <<v>> \o vs, Synced(call)) /\ vs \in Seq(Nat)
      BY <2>1 DEF AtValue, Leads, Sends
    <3>5. Brings({Now'}, vs, Synced(call))
      BY <1>3, <3>3, <3>4, OneValue
    <3> QED BY <1>2, <3>5 DEF Leads
  <2>3. ~Returned'
    BY <2>1 DEF Returned
  <2> QED BY <1>4, <1>5, <2>1, <2>2, <2>3 DEF AtValue, Answered
<1>10. CASE WACK_HI
  <2>1. /\ Answered /\ state' = "STOP_A" /\ state = "WACK_HI"
    BY <1>1, <1>3, <1>10, AnswerMoves DEF Answered
  <2>2. Now' = Now /\ (Good' => Good)
    BY <1>1, <1>10, <2>1, AnswerMoves, ExpanderMoves DEF Good
  <2>3. Good' => Leads(vs)'
    BY <1>2, <2>1, <2>2 DEF AtValue, Leads
  <2> QED BY <1>4, <1>5, <2>1, <2>3 DEF AtValue, Answered, Stopping, Returned
<1>11. CASE STOP_A \/ STOP_B \/ STOP_C \/ DONE
  <2>1. /\ Answered /\ Answered' /\ state # "WACK_HI" /\ state' # "WACK_HI"
        /\ state' \notin {"WRITE_LOW", "WRITE_HI", "WACK_LOW"}
    BY <1>1, <1>2, <1>11, StopMoves DEF Answered, Stopping, Returned
  <2>2. Now' = Now /\ (Good' => Good)
    BY <1>1, <1>11, <2>1, StopMoves, ExpanderMoves DEF Good
  <2>3. Good' => Leads(vs)'
    BY <1>2, <2>1, <2>2 DEF AtValue, Leads
  <2>4. state' = "DONE" \/ Returned' => ~receiver'.ack
    BY <1>1, <1>11, StopMoves DEF AtValue, Returned
  <2> QED BY <1>4, <1>5, <2>1, <2>3, <2>4 DEF AtValue
<1> QED BY <1>2, <1>6, <1>7, <1>8, <1>9, <1>10, <1>11

PlanInv == LcdInv /\ Now \in Displays /\ Issued /\ Planned

LEMMA InitValuesSent == Sends(lcd_i2c_init, InitValues) /\ InitValues # <<>>
BY InitSends, SendsEmpty, Initialises DEF Call

LEMMA InitPlanInv == LcdInit => PlanInv
<1> SUFFICES ASSUME LcdInit PROVE PlanInv
  OBVIOUS
<1>1. /\ state = "IDLE" /\ sent = NoByte /\ result = Running
      /\ out \in {0, 16 + LCD_ENABLE, 32 + LCD_ENABLE + LCD_RS}
      /\ (mode = 8 /\ half = NoHalf) \/ (mode = 4 /\ half \in {NoHalf, 0, 2, 3})
      /\ executed = <<>> /\ ~receiver.ack
  BY Empties DEF LcdInit, I2cInit
<1>2. Now \in Displays
  <2>1. out \in Nat
    BY SMT, <1>1 DEF LCD_ENABLE, LCD_RS
  <2>2. /\ mode \in {4, 8} /\ half \in Nat \cup {NoHalf} /\ (mode = 8 => half = NoHalf)
    BY SMT, <1>1
  <2>3. <<>> \in Seq(Nat) /\ Len(<<>>) <= Window
    BY SMT DEF Window
  <2> QED BY <1>1, <2>1, <2>2, <2>3, NowParts
<1>3. Issued
  BY <1>1 DEF Issued, Starting, Stopping, Fresh
<1>4. Planned
  <2>1. ASSUME app = "demo" PROVE AtAddress(InitValues)
    <3>1. todo = lcd_i2c_init /\ call = InitCommands
      BY <2>1 DEF LcdInit
    <3> QED BY <1>2, <3>1, InitValuesSent, InitLeads DEF AtAddress
  <2> QED BY <1>1, <2>1 DEF Planned
<1> QED BY <1>2, <1>3, <1>4, InitLcdInv DEF PlanInv

LEMMA ResetPlanInv == PlanInv /\ BoardReset => PlanInv'
<1> SUFFICES ASSUME PlanInv, BoardReset PROVE PlanInv'
  OBVIOUS
<1>1. LcdInv'
  BY ResetKeeps DEF PlanInv
<1>2. /\ state' = "IDLE" /\ sent' = NoByte /\ result' = Running
      /\ out' = out /\ mode' = mode /\ half' = half /\ executed' = <<>>
      /\ todo' = lcd_i2c_init /\ call' = InitCommands
  BY DEF BoardReset, I2cReset
<1>3. Now' \in Displays
  <2>1. <<>> \in Seq(Nat) /\ Len(<<>>) <= Window
    BY SMT DEF Window
  <2> QED BY <1>2, <2>1, NowParts, NextParts DEF PlanInv
<1>4. Issued'
  BY <1>2 DEF Issued, Starting, Stopping, Fresh
<1>5. AtAddress(InitValues)'
  <2>1. Brings({Now'}, InitValues, Synced(call'))
    BY <1>2, <1>3, InitBrings, BringsFrom
  <2> QED BY <1>2, <2>1, InitValuesSent DEF AtAddress, Leads
<1>6. Planned'
  BY <1>2, <1>5 DEF Planned
<1> QED BY <1>1, <1>3, <1>4, <1>6 DEF PlanInv

-----------------------------------------------------------------------------
(* A new call *)

LEMMA PushedFirst == ASSUME NEW c \in Nat PROVE Pushed(<<>>, c) = <<c>>
<1>1. Append(<<>>, c) = <<c>> /\ Len(<<c>>) = 1 /\ ~(1 > 5)
  BY SMT
<1> QED BY <1>1 DEF Pushed, Window

LEMMA DemoCommandHighs == \A c \in DemoCommands : c \div 16 # 3
<1>1. row_offsets[2] = 64 /\ row_offsets[4] = 84
  BY SMT DEF row_offsets
<1>2. /\ (IF 1 > 3 THEN 3 ELSE 1) + 1 = 2
      /\ (IF 3 > 3 THEN 3 ELSE 3) + 1 = 4
      /\ (IF 4 > 3 THEN 3 ELSE 4) + 1 = 4
  BY SMT
<1>3. /\ set_cursor(0, 1) = 128 + 0 + 64
      /\ set_cursor(0, 3) = 128 + 0 + 84
      /\ set_cursor(0, 4) = 128 + 0 + 84
  BY <1>1, <1>2 DEF set_cursor
<1>4. /\ (128 + 0 + 64) \div 16 # 3 /\ (128 + 0 + 84) \div 16 # 3
      /\ 1 \div 16 # 3 /\ 2 \div 16 # 3 /\ 8 \div 16 # 3 /\ 12 \div 16 # 3
  BY SMT
<1> QED BY <1>3, <1>4 DEF DemoCommands

LEMMA SendExecutes ==
  ASSUME NEW c \in 0..255, NEW f \in {0, 1, 8, 9}, c \div 16 # 3 \/ f \in {1, 9}
  PROVE  \E vs : /\ Sends(lcd_send(c, f), vs) /\ vs # <<>>
                 /\ Brings(Synced(<<>>), vs, Synced(<<c>>))
<1>1. PICK h : h = c \div 16
  OBVIOUS
<1>2. PICK l : l = c % 16
  OBVIOUS
<1> DEFINE vs == SendValues(h, l, f)
<1>3. /\ Sends(lcd_send(c, f), vs)
      /\ h \in 0..15 /\ l \in 0..15 /\ c = 16 * h + l
  BY SMTT(30), <1>1, <1>2, SendSends
<1>4. h = 3 => f \in {1, 9}
  BY <1>1
<1>5. Brings(Synced(<<>>), vs, Synced(Pushed(<<>>, 16 * h + l)))
  BY <1>3, <1>4, ByteExecuted
<1>6. c \in Nat /\ c \in 0..255 /\ f \in 0..9
  BY SMT
<1>7. Pushed(<<>>, 16 * h + l) = <<c>>
  BY <1>3, <1>6, PushedFirst
<1> HIDE DEF vs
<1>8. vs # <<>>
  BY <1>3, <1>6, Send, SendsEmpty DEF Call
<1> QED BY <1>3, <1>5, <1>7, <1>8

LEMMA LightExecutes ==
  ASSUME NEW v \in {0, LCD_BACKLIGHT}
  PROVE  \E vs : /\ Sends(lcd_expander_write(v), vs) /\ vs # <<>>
                 /\ Brings(Synced(<<>>), vs, Synced(<<>>))
<1> DEFINE vs == <<v>>
<1>1. v \in 0..255 /\ ~Has(v, LCD_ENABLE)
  BY SMT DEF LCD_BACKLIGHT, Has, LCD_ENABLE
<1>2. Sends(lcd_expander_write(v), vs)
  BY <1>1, ExpanderSends
<1>3. Len(vs) = 1 /\ vs[1] = v /\ 1 \in 1..1 /\ 1 - 1 = 0
  BY SMT
<1> HIDE DEF vs
<1>4. ASSUME NEW ds, ds[0] \in Synced(<<>>), Run(ds, vs)
      PROVE  ds[1] \in Synced(<<>>)
  <2>1. Becomes(ds[0], v, ds[1])
    BY <1>3, <1>4 DEF Run
  <2>2. /\ Low(ds[0]) /\ ds[0].mode = 4 /\ ds[0].half = NoHalf /\ ds[0].executed = <<>>
    BY <1>4 DEF Synced
  <2>3. ds[1] \in Displays /\ ds[1].out = v /\ SameDisplay(ds[0], ds[1])
    BY <2>1, <2>2 DEF Becomes, Low
  <2> QED BY <1>1, <2>2, <2>3 DEF Synced, Low, SameDisplay
<1>5. Brings(Synced(<<>>), vs, Synced(<<>>))
  BY <1>3, <1>4 DEF Brings
<1>6. vs # <<>>
  BY <1>1, <1>2, ExpanderWrite, SendsEmpty DEF Call
<1> QED BY <1>2, <1>5, <1>6

LEMMA NewCall ==
  ASSUME TodoInv, LcdCall
  PROVE  \E vs : Sends(todo', vs) /\ vs # <<>> /\ Brings(Synced(<<>>), vs, Synced(call'))
<1>1. ASSUME NEW c \in DemoCommands, call' = <<c>>, todo' = lcd_command(c, backlight)
      PROVE  \E vs : Sends(todo', vs) /\ vs # <<>> /\ Brings(Synced(<<>>), vs, Synced(call'))
  <2>1. c \in 0..255 /\ c \div 16 # 3
    BY DemoCommandBytes, DemoCommandHighs
  <2>2. backlight \in {0, 1, 8, 9}
    BY DEF TodoInv, LCD_BACKLIGHT
  <2> QED BY <1>1, <2>1, <2>2, SendExecutes DEF lcd_command
<1>2. ASSUME NEW c \in Chars, call' = <<c>>, todo' = lcd_i2c_putc(c, backlight)
      PROVE  \E vs : Sends(todo', vs) /\ vs # <<>> /\ Brings(Synced(<<>>), vs, Synced(call'))
  <2>1. c \in 0..255
    BY LcdAssumption
  <2>2. LCD_RS + backlight \in {1, 9}
    BY SMT DEF TodoInv, LCD_BACKLIGHT, LCD_RS
  <2>3. LCD_RS + backlight \in {0, 1, 8, 9}
    BY <2>2
  <2> QED BY <1>2, <2>1, <2>2, <2>3, SendExecutes DEF lcd_i2c_putc
<1>3. ASSUME NEW light \in {0, LCD_BACKLIGHT}, call' = <<>>, todo' = lcd_expander_write(light)
      PROVE  \E vs : Sends(todo', vs) /\ vs # <<>> /\ Brings(Synced(<<>>), vs, Synced(call'))
  BY <1>3, LightExecutes
<1> QED BY <1>1, <1>2, <1>3 DEF LcdCall

LEMMA CallPlanInv == PlanInv /\ LcdCall => PlanInv'
<1> SUFFICES ASSUME PlanInv, LcdCall PROVE PlanInv'
  OBVIOUS
<1>1. LcdInv'
  BY CallKeeps DEF PlanInv
<1>2. /\ I2cTypes /\ TodoInv /\ Issued /\ Planned /\ Now \in Displays
      /\ app = "demo" /\ result # Running /\ result' = Running
      /\ UNCHANGED <<i2cVars, app, sent, clean, out, mode, half>> /\ executed' = <<>>
  BY DEF PlanInv, LcdInv, I2cInv, LcdCall
<1>3. todo = <<>> /\ sent = NoByte /\ sent' = NoByte /\ state = "IDLE" /\ state' = "IDLE"
      /\ receiver' = receiver
  BY <1>2 DEF Issued, TodoInv, I2cTypes, i2cVars, masterVars
<1>4. Now' \in Displays
  <2>1. <<>> \in Seq(Nat) /\ Len(<<>>) <= Window
    BY SMT DEF Window
  <2> QED BY <1>2, <2>1, NowParts, NextParts
<1>5. Issued'
  BY <1>2, <1>3 DEF Issued, Starting, Stopping, Fresh
<1>6. \E vs : Sends(todo', vs) /\ vs # <<>> /\ Brings(Synced(<<>>), vs, Synced(call'))
  BY <1>2, NewCall
<1>7. ASSUME clean PROVE \E vs : AtAddress(vs)'
  <2>1. Done
    BY <1>2, <1>7 DEF Planned
  <2>2. Now' \in Synced(<<>>)
    BY <1>2, <1>4, <2>1, NowParts, NextParts DEF Done, Synced, Low
  <2>3. PICK vs : Sends(todo', vs) /\ vs # <<>> /\ Brings(Synced(<<>>), vs, Synced(call'))
    BY <1>6
  <2>4. Leads(vs)'
    BY <2>2, <2>3, BringsFrom DEF Leads
  <2>5. Listening'
    BY <1>3, <2>1 DEF Listening, Between, Done
  <2>6. AtAddress(vs)'
    BY <2>3, <2>4, <2>5 DEF AtAddress
  <2> QED BY <2>6
<1>8. Planned'
  BY <1>2, <1>7 DEF Planned
<1> QED BY <1>1, <1>4, <1>5, <1>8 DEF PlanInv

-----------------------------------------------------------------------------
(* A write begins, and returns *)

LEMMA StartPlanInv == PlanInv /\ WriteStarts => PlanInv'
<1> SUFFICES ASSUME PlanInv, WriteStarts PROVE PlanInv'
  OBVIOUS
<1>1. LcdInv'
  BY StartKeeps DEF PlanInv
<1>2. /\ I2cTypes /\ Wires /\ TodoInv /\ Issued /\ Planned /\ Now \in Displays
      /\ todo # <<>> /\ sent = NoByte /\ state = "IDLE" /\ ~scl_low
      /\ sent' = Head(todo).byte /\ cmd' = Head(todo).flags
      /\ UNCHANGED <<app, call, todo, result, clean, out, lcdVars, receiver, scl_low>>
      /\ \/ "start" \in Head(todo).flags /\ state' = "START_A"
         \/ "start" \notin Head(todo).flags /\ state' = "WRITE_LOW" /\ bit_count' = 7
  BY DEF PlanInv, LcdInv, I2cInv, WriteStarts, Command, transfer_in_progress, Go, Wires
<1>3. Now' = Now
  BY <1>2 DEF Now, lcdVars
<1>4. Issued'
  BY <1>2 DEF Issued, Starting, Stopping, Fresh
<1>5. ASSUME NEW vs, AtAddress(vs) PROVE AtAddress(vs)'
  <2>1. state' = "START_A"
    BY <1>2, <1>5, SendsFirst, WhichFlags DEF AtAddress
  <2>2. Listening => Listening'
    BY <1>2, <2>1 DEF Listening, Between
  <2> QED BY <1>2, <1>3, <1>5, <2>2 DEF AtAddress, Leads
<1>6. ASSUME NEW v, NEW vs, AtValue(v, vs) PROVE AtValue(v, vs)'
  <2>1. state' = "WRITE_LOW" /\ Fresh'
    BY <1>2, <1>6, WhichFlags DEF AtValue, Fresh
  <2>2. ~Answered
    BY <1>2 DEF Answered, Stopping, Returned
  <2>3. ~Answered' /\ ~Returned' /\ state' # "DONE"
    BY <2>1 DEF Answered, Stopping, Returned
  <2>4. Leads(<<v>> \o vs)'
    BY <1>2, <1>3, <1>6, <2>2 DEF AtValue, Leads
  <2> QED BY <1>2, <1>6, <2>1, <2>3, <2>4 DEF AtValue
<1>7. Planned'
  <2>1. result = Running
    BY <1>2 DEF Issued
  <2> QED BY <1>2, <1>5, <1>6, <2>1 DEF Planned
<1> QED BY <1>1, <1>2, <1>3, <1>4, <1>7 DEF PlanInv

LEMMA ReturnPlanInv == PlanInv /\ WriteReturns => PlanInv'
<1> SUFFICES ASSUME PlanInv, WriteReturns PROVE PlanInv'
  OBVIOUS
<1>1. LcdInv'
  BY ReturnKeeps DEF PlanInv
<1>2. /\ I2cTypes /\ TodoInv /\ Issued /\ Planned /\ Now \in Displays
      /\ sent # NoByte /\ state = "IDLE" /\ sent' = NoByte /\ todo # <<>>
      /\ UNCHANGED <<i2cVars, call, made, out, lcdVars>>
  BY DEF PlanInv, LcdInv, I2cInv, TodoInv, WriteReturns, transfer_in_progress
<1>3. state' = "IDLE" /\ receiver' = receiver /\ result = Running /\ Now' = Now /\ call' = call
  BY <1>2 DEF i2cVars, masterVars, Issued, Now, lcdVars
<1>4. /\ Between' /\ ~Starting' /\ ~Stopping' /\ ~Fresh' /\ ~Answered' /\ ~Returned'
  BY <1>2, <1>3 DEF Between, Starting, Stopping, Fresh, Answered, Returned
<1>5. Issued'
  BY <1>2, <1>3, <1>4 DEF Issued, WriteReturns
<1>6. SUFFICES ASSUME app' = "demo", clean'
               PROVE  IF result' = Running
                      THEN (\E vs : AtAddress(vs)') \/ (\E v, vs : AtValue(v, vs)')
                      ELSE Done'
  BY <1>1, <1>2, <1>3, <1>5 DEF PlanInv, Planned
<1>7. /\ app = "demo" /\ clean /\ WriteResult = 0
      /\ IF Len(todo) = 1 THEN todo' = <<>> /\ result' = 0
         ELSE todo' = Tail(todo) /\ result' = Running
  <2>1. app = "demo"
    BY <1>6 DEF WriteReturns
  <2> QED BY <1>3, <1>6, <2>1 DEF WriteReturns
<1>8. Good
  <2>1. -2 # 0 /\ -3 # 0
    BY SMT
  <2> QED BY <1>2, <1>7, <2>1 DEF Good, WriteResult
<1>9. 0 # Running
  BY SMT DEF Running
<1>10. CASE \E vs : AtAddress(vs)
  <2>1. PICK vs : AtAddress(vs)
    BY <1>10
  <2>2. /\ Len(todo) # 1 /\ Tail(todo) # <<>> /\ Head(Tail(todo)) = Value(Head(vs))
        /\ Sends(Tail(Tail(todo)), Tail(vs)) /\ Head(vs) \in Nat
        /\ vs = <<Head(vs)>> \o Tail(vs)
    <3>1. Sends(todo, vs) /\ vs # <<>>
      BY <2>1 DEF AtAddress
    <3>2. vs = <<Head(vs)>> \o Tail(vs)
      BY <3>1, FirstAndRest DEF Sends
    <3> QED BY <3>1, <3>2, SendsFirst
  <2> DEFINE v == Head(vs)  us == Tail(vs)
  <2>3. Leads(<<v>> \o us)'
    BY <1>3, <2>1, <2>2 DEF AtAddress, Leads
  <2>4. AtValue(v, us)'
    <3> HIDE DEF v, us
    <3>1. /\ todo' = Tail(todo) /\ todo' # <<>> /\ Head(todo') = Value(v) /\ v \in Nat
          /\ Sends(Tail(todo'), us)
      BY <1>7, <2>2 DEF v, us
    <3> QED BY <1>3, <1>4, <2>3, <3>1 DEF AtValue
  <2> QED BY <1>7, <2>2, <2>4
<1>11. CASE \E v, vs : AtValue(v, vs)
  <2>1. PICK v, vs : AtValue(v, vs)
    BY <1>11
  <2>2. /\ Sends(Tail(todo), vs) /\ ~receiver.ack /\ Leads(vs)
    BY <1>2, <1>8, <2>1 DEF AtValue, Answered, Returned
  <2>3. /\ todo \in Seq(Writes) /\ Tail(todo) \in Seq(Writes) /\ Len(Tail(todo)) = Len(todo) - 1
        /\ Len(todo) \in Nat
    BY <1>2, SplitSeq DEF TodoInv
  <2>4. Len(todo) = 1 <=> vs = <<>>
    <3>1. Len(todo) = 1 <=> Len(Tail(todo)) = 0
      BY SMT, <2>3
    <3>2. Len(Tail(todo)) = 0 <=> Tail(todo) = <<>>
      BY <2>3, EmptySeq
    <3> DEFINE ws == Tail(todo)
    <3>3. Sends(ws, vs)
      BY <2>2
    <3> HIDE DEF ws
    <3>4. ws = <<>> <=> vs = <<>>
      BY <3>3, SendsEmpty
    <3> QED BY <3>1, <3>2, <3>4 DEF ws
  <2>5. CASE vs = <<>>
    <3>1. Now \in Synced(call)
      BY <2>2, <2>5, NoValues DEF Leads
    <3> QED BY <1>2, <1>3, <1>7, <1>9, <2>2, <2>4, <2>5, <3>1 DEF Done
  <2>6. CASE vs # <<>>
    <3>1. Listening'
      BY <1>3, <1>4, <2>2 DEF Listening
    <3>2. AtAddress(vs)'
      BY <1>3, <1>7, <2>2, <2>4, <2>6, <3>1 DEF AtAddress, Leads
    <3> QED BY <1>7, <2>4, <2>6, <3>2
  <2> QED BY <2>5, <2>6
<1> QED BY <1>2, <1>3, <1>7, <1>10, <1>11 DEF Planned

LEMMA TickPlanInv ==
  ASSUME PlanInv, NEW pull \in BOOLEAN, NEW accepts, BusTick(pull, accepts)
  PROVE  PlanInv'
<1>1. LcdInv'
  BY TickKeeps DEF PlanInv
<1>2. /\ I2cInv /\ I2cInv' /\ Issued /\ Planned /\ Now \in Displays
      /\ Ticked(pull, accepts) /\ receiver \in Receivers /\ Expander
  BY <1>1 DEF PlanInv, LcdInv, BusTick, Ticked, I2cInv, I2cTypes
<1>3. /\ app' = app /\ clean' = clean /\ result' = result /\ todo # <<>>
  BY <1>2, NotDuring DEF PlanInv, LcdInv, TodoInv
<1>4. Issued' /\ Now' \in Displays
  BY <1>2, IssuedTick, ExpanderMoves
<1>5. Planned'
  <2>1. result = Running
    BY <1>2, <1>3 DEF Issued
  <2>2. ASSUME NEW vs, AtAddress(vs) PROVE AtAddress(vs)'
    BY <1>2, <2>2, AddressTick
  <2>3. ASSUME NEW v, NEW vs, AtValue(v, vs) PROVE AtValue(v, vs)'
    BY <1>2, <2>3, ValueTick
  <2> QED BY <1>2, <1>3, <2>1, <2>2, <2>3 DEF Planned
<1> QED BY <1>1, <1>4, <1>5 DEF PlanInv

LEMMA StepPlanInv == PlanInv /\ [LcdNext]_lcdI2cVars => PlanInv'
<1> SUFFICES ASSUME PlanInv, [LcdNext]_lcdI2cVars PROVE PlanInv'
  OBVIOUS
<1>1. CASE UNCHANGED lcdI2cVars
  <2>1. LcdInv'
    BY StepLcdInv DEF PlanInv
  <2>2. UNCHANGED <<state, cmd, scl_low, bit_count, rxack, arbitration_lost, receiver,
                    app, call, todo, sent, result, clean, out, lcdVars>>
    BY <1>1 DEF lcdI2cVars, i2cVars, masterVars, callVars
  <2>3. Now' = Now
    BY <2>2 DEF Now, lcdVars
  <2>4. Issued'
    BY <2>2 DEF PlanInv, Issued, Starting, Stopping, Fresh
  <2>5. /\ Between' = Between /\ Starting' = Starting /\ Answered' = Answered
        /\ Returned' = Returned /\ Fresh' = Fresh /\ Good' = Good
    BY <2>2 DEF Between, Starting, Answered, Stopping, Returned, Fresh, Good
  <2>6. \A vs : AtAddress(vs)' = AtAddress(vs)
    BY <2>2, <2>3, <2>5 DEF AtAddress, Leads, Listening
  <2>7. \A v, vs : AtValue(v, vs)' = AtValue(v, vs)
    BY <2>2, <2>3, <2>5 DEF AtValue, Leads
  <2>8. Done' = Done
    BY <2>2, <2>3 DEF Done
  <2>9. Planned'
    BY <2>2, <2>6, <2>7, <2>8 DEF PlanInv, Planned
  <2> QED BY <2>1, <2>3, <2>4, <2>9 DEF PlanInv
<1>2. CASE MasterTick
  BY <1>2, TickPlanInv DEF MasterTick
<1>3. CASE LcdFault
  <2>1. CASE BitDisturbed
    BY <2>1, TickPlanInv DEF BitDisturbed
  <2>2. CASE AckMissing
    BY <2>2, TickPlanInv DEF AckMissing
  <2> QED BY <1>3, <2>1, <2>2, ResetPlanInv DEF LcdFault
<1> QED BY <1>1, <1>2, <1>3, CallPlanInv, StartPlanInv, ReturnPlanInv DEF LcdNext

-----------------------------------------------------------------------------
(* Nothing disturbed *)

Answers == "start" \in cmd => sent = 2 * Address
Begins == todo = <<>> \/ "start" \in Head(todo).flags
Calm ==
  /\ ~pulled /\ ~arbitration_lost /\ result \in {0, Running} /\ clean /\ app \in {"demo", "scan"}
  /\ Starting => ~receiver.ack
  /\ Between => IF Begins THEN ~receiver.ack ELSE Active(receiver)
  /\ state \in {"START_C", "WRITE_LOW", "WRITE_HI", "WACK_LOW"} =>
       /\ Active(receiver)
       /\ ~Fresh => receiver.at = IF "start" \in cmd THEN "addr" ELSE "data"
  /\ state = "WACK_HI" => (receiver.ack <=> Answers)
  /\ Stopping \/ state = "DONE" \/ Returned => (~rxack <=> Answers)
  /\ state = "DONE" \/ Returned =>
       IF "stop" \in cmd THEN ~receiver.ack ELSE ~rxack => Active(receiver)
Scanned ==
  app = "scan" =>
    \/ todo = ScanWrites /\ found = {} /\ result = Running
    \/ todo = Tail(ScanWrites) /\ found = {} /\ result = Running
    \/ todo = Tail(Tail(ScanWrites)) /\ found = {Address} /\ result = Running
    \/ todo = <<>> /\ found = {Address} /\ result = 0
CalmInv == faults \in Nat /\ (faults = 0 => Calm /\ Scanned)

ScanWrite(a) == [byte |-> 2 * a, flags |-> {"start", "stop", "write"}]

LEMMA ScanParts ==
  /\ ScanWrites # <<>> /\ Len(ScanWrites) # 1
  /\ Head(ScanWrites) = ScanWrite(Address - 1)
  /\ Tail(ScanWrites) # <<>> /\ Len(Tail(ScanWrites)) # 1
  /\ Head(Tail(ScanWrites)) = ScanWrite(Address)
  /\ Tail(Tail(ScanWrites)) # <<>> /\ Len(Tail(Tail(ScanWrites))) = 1
  /\ Head(Tail(Tail(ScanWrites))) = ScanWrite(Address + 1)
<1>1. {"start", "stop"} \cup {"write"} = {"start", "stop", "write"}
  OBVIOUS
<1>2. \A a : scan_write(a) = <<ScanWrite(a)>>
  BY <1>1 DEF scan_write, i2c_write_cmd, ScanWrite
<1>3. ASSUME NEW x, NEW y, NEW z, NEW s, s = <<x>> \o <<y>> \o <<z>>
      PROVE  /\ s # <<>> /\ Len(s) # 1 /\ Head(s) = x
             /\ Tail(s) # <<>> /\ Len(Tail(s)) # 1 /\ Head(Tail(s)) = y
             /\ Tail(Tail(s)) # <<>> /\ Len(Tail(Tail(s))) = 1 /\ Head(Tail(Tail(s))) = z
  <2> DEFINE S == {x, y, z}  t == Tail(s)  u == Tail(t)
  <2>1. s \in Seq(S)
    BY SMT, <1>3
  <2>2. Len(s) = 3 /\ s[1] = x /\ s[2] = y /\ s[3] = z
    <3> DEFINE a == <<x>> \o <<y>>  b == <<z>>
    <3>1. a \in Seq(S) /\ b \in Seq(S)
      BY SMT
    <3>2. Len(a) = 2 /\ a[1] = x /\ a[2] = y /\ Len(b) = 1 /\ b[1] = z
      BY SMT
    <3>3. s = a \o b
      BY <1>3
    <3> HIDE DEF a, b, S
    <3>4. /\ Len(s) = 2 + 1
          /\ \A i \in 1 .. 2 + 1 : s[i] = IF i <= 2 THEN a[i] ELSE b[i - 2]
      <4>1. /\ Len(a \o b) = Len(a) + Len(b)
            /\ \A i \in 1 .. Len(a) + Len(b) :
                 (a \o b)[i] = IF i <= Len(a) THEN a[i] ELSE b[i - Len(a)]
        BY <3>1, ConcatProperties
      <4> QED BY <3>2, <3>3, <4>1, Zenon
    <3>5. 2 + 1 = 3 /\ 3 - 2 = 1 /\ 1 <= 2 /\ 2 <= 2 /\ ~(3 <= 2)
          /\ 1 \in 1 .. 2 + 1 /\ 2 \in 1 .. 2 + 1 /\ 3 \in 1 .. 2 + 1
      BY SMT
    <3>6. s[1] = a[1] /\ s[2] = a[2] /\ s[3] = b[3 - 2]
      BY <3>4, <3>5, Zenon
    <3> QED BY <3>2, <3>4, <3>5, <3>6
  <2> HIDE DEF S, t, u
  <2>3. 3 # 0 /\ 3 # 1 /\ 3 - 1 = 2 /\ 2 # 0 /\ 2 # 1 /\ 2 - 1 = 1 /\ 1 # 0
        /\ 1 + 1 = 2 /\ 2 + 1 = 3 /\ 1 \in 1..2 /\ 2 \in 1..2 /\ 1 \in 1..1
    BY SMT
  <2>4. \A r : r = <<>> => Len(r) = 0
    BY EmptySeq
  <2>5. s # <<>>
    BY <2>2, <2>3, <2>4
  <2>6. Head(s) = s[1] /\ t \in Seq(S) /\ Len(t) = 3 - 1 /\ \A i \in 1 .. 3 - 1 : t[i] = s[i+1]
    BY <2>1, <2>2, <2>5, SplitSeq DEF t
  <2>7. Len(t) = 2 /\ t[1] = s[1 + 1] /\ t[2] = s[2 + 1] /\ t # <<>>
    BY <2>3, <2>4, <2>6, Zenon
  <2>8. Head(t) = t[1] /\ u \in Seq(S) /\ Len(u) = 2 - 1 /\ \A i \in 1 .. 2 - 1 : u[i] = t[i+1]
    BY ZenonT(40), <2>6, <2>7, SplitSeq DEF u
  <2>9. Len(u) = 1 /\ u[1] = t[1 + 1] /\ u # <<>>
    BY <2>3, <2>4, <2>8, Zenon
  <2>10. Head(u) = u[1]
    BY <2>8, <2>9, SplitSeq
  <2> QED BY <2>2, <2>3, <2>5, <2>6, <2>7, <2>8, <2>9, <2>10 DEF t, u
<1> DEFINE x == ScanWrite(Address - 1)  y == ScanWrite(Address)  z == ScanWrite(Address + 1)
<1>4. ScanWrites = <<x>> \o <<y>> \o <<z>>
  BY <1>2 DEF ScanWrites
<1> HIDE DEF x, y, z
<1> QED BY <1>3, <1>4 DEF x, y, z

LEMMA ScanFlags ==
  \A a : /\ "start" \in ScanWrite(a).flags /\ "stop" \in ScanWrite(a).flags
         /\ ScanWrite(a).byte = 2 * a
BY DEF ScanWrite

LEMMA InitCalmInv == LcdInit => CalmInv
<1> SUFFICES ASSUME LcdInit PROVE CalmInv
  OBVIOUS
<1>1. /\ state = "IDLE" /\ sent = NoByte /\ result = Running /\ ~receiver.ack
      /\ ~pulled /\ ~arbitration_lost /\ clean /\ app \in {"demo", "scan"} /\ found = {}
  BY Empties DEF LcdInit, I2cInit
<1>2. Begins
  BY Initialises, Scans DEF LcdInit, Begins, Call
<1>3. Calm
  BY <1>1, <1>2 DEF Calm, Starting, Stopping, Between, Returned
<1>4. Scanned
  BY <1>1 DEF Scanned, LcdInit
<1>5. faults \in Nat
  BY SMT DEF LcdInit
<1> QED BY <1>3, <1>4, <1>5 DEF CalmInv

LEMMA CalmTick ==
  ASSUME I2cInv, I2cInv', Issued, Calm, Ticked(FALSE, TRUE)
  PROVE  Calm'
<1>1. /\ sent # NoByte /\ sent' = sent /\ todo' = todo /\ app' = app
      /\ result' = result /\ clean' = clean
      /\ ~Between /\ ~Returned /\ ~Between'
      /\ \/ START_A \/ START_B \/ START_C(sent) \/ WRITE_LOW \/ WRITE_HI
         \/ WACK_LOW \/ WACK_HI \/ STOP_A \/ STOP_B \/ STOP_C \/ DONE
  BY NotDuring DEF Between
<1>2. result' \in {0, Running} /\ clean' /\ app' \in {"demo", "scan"}
  BY <1>1 DEF Calm
<1>3. CASE START_A \/ START_B \/ START_C(sent)
  <2>1. /\ ~pulled' /\ ~arbitration_lost' /\ cmd' = cmd /\ "start" \in cmd /\ ~receiver.ack
        /\ ~Fresh'
    BY <1>3, StartMoves DEF Calm, Issued, Starting, Fresh
  <2>2. CASE state = "START_A"
    <3>1. state' = "START_B" /\ receiver' = receiver
      BY <1>3, <2>2, StartMoves
    <3> QED BY <1>1, <1>2, <2>1, <3>1 DEF Calm, Starting, Stopping, Returned
  <2>3. CASE state = "START_B"
    <3>1. state' = "START_C" /\ receiver'.at = "addr" /\ ~receiver'.ack
      BY <1>3, <2>1, <2>3, StartMoves
    <3> QED BY <1>1, <1>2, <2>1, <3>1 DEF Calm, Starting, Stopping, Returned, Active
  <2>4. CASE state = "START_C"
    <3>1. state' = "WRITE_LOW" /\ receiver' = receiver
      BY <1>3, <2>1, <2>4, StartMoves
    <3>2. Active(receiver) /\ receiver.at = "addr"
      BY <2>1, <2>4 DEF Calm, Fresh
    <3> QED BY <1>1, <1>2, <2>1, <3>1, <3>2 DEF Calm, Starting, Stopping, Returned
  <2> QED BY <1>3, <2>2, <2>3, <2>4, StartMoves
<1>4. CASE WRITE_LOW
  <2>1. /\ ~pulled' /\ ~arbitration_lost' /\ cmd' = cmd /\ state = "WRITE_LOW"
        /\ state' = "WRITE_HI" /\ ~Fresh' /\ Active(receiver)
    BY <1>4, LowMoves DEF Calm, Fresh
  <2>2. receiver'.at = IF "start" \in cmd THEN "addr" ELSE "data"
    BY <1>4, <2>1, LowMoves DEF Calm, Issued
  <2>3. Active(receiver')
    BY <2>2 DEF Active
  <2> QED BY <1>1, <1>2, <2>1, <2>2, <2>3 DEF Calm, Starting, Stopping, Returned
<1>5. CASE WRITE_HI
  <2>1. /\ ~pulled' /\ ~arbitration_lost' /\ cmd' = cmd /\ state = "WRITE_HI"
        /\ state' \in {"WRITE_LOW", "WACK_LOW"} /\ ~Fresh' /\ receiver'.at = receiver.at
        /\ Active(receiver) /\ ~Fresh
    BY <1>5, HighMoves DEF Calm, Fresh
  <2>2. receiver'.at = IF "start" \in cmd THEN "addr" ELSE "data"
    BY <2>1 DEF Calm
  <2>3. Active(receiver')
    BY <2>2 DEF Active
  <2> QED BY <1>1, <1>2, <2>1, <2>2, <2>3 DEF Calm, Starting, Stopping, Returned
<1>6. CASE WACK_LOW
  <2>1. /\ ~pulled' /\ ~arbitration_lost' /\ ~arbitration_lost /\ cmd' = cmd
        /\ state = "WACK_LOW" /\ state' = "WACK_HI" /\ Active(receiver) /\ ~Fresh
    BY <1>6, AckMoves DEF Calm, Fresh
  <2>2. receiver.byte = sent /\ (receiver'.ack <=> Wanted(receiver))
    BY <1>6, <2>1, AckMoves
  <2>3. receiver.at = IF "start" \in cmd THEN "addr" ELSE "data"
    BY <2>1 DEF Calm
  <2>4. receiver'.ack <=> Answers
    BY <2>2, <2>3 DEF Wanted, Answers
  <2>5. Answers' = Answers
    BY <1>1, <2>1 DEF Answers
  <2> QED BY <1>1, <1>2, <2>1, <2>4, <2>5 DEF Calm, Starting, Stopping, Returned
<1>7. CASE WACK_HI
  <2>1. /\ ~pulled' /\ ~arbitration_lost' /\ cmd' = cmd /\ state = "WACK_HI"
        /\ state' = IF "stop" \in cmd THEN "STOP_A" ELSE "DONE"
        /\ (rxack' <=> ~receiver.ack) /\ (receiver.ack => Active(receiver'))
    BY <1>7, AnswerMoves DEF Calm
  <2>2. receiver.ack <=> Answers
    BY <2>1 DEF Calm
  <2>3. Answers' = Answers
    BY <1>1, <2>1 DEF Answers
  <2> QED BY <1>1, <1>2, <2>1, <2>2, <2>3 DEF Calm, Starting, Stopping, Returned
<1>8. CASE STOP_A \/ STOP_B \/ STOP_C \/ DONE
  <2>1. /\ ~pulled' /\ ~arbitration_lost' /\ cmd' = cmd /\ rxack' = rxack
        /\ state' \in {"STOP_B", "STOP_C", "DONE", "IDLE"}
        /\ Stopping \/ state = "DONE"
    BY <1>8, StopMoves DEF Calm, Stopping
  <2>2. ~rxack <=> Answers
    BY <2>1 DEF Calm
  <2>3. Answers' = Answers
    BY <1>1, <2>1 DEF Answers
  <2>4. state' = "DONE" \/ Returned' =>
          IF "stop" \in cmd THEN ~receiver'.ack ELSE ~rxack => Active(receiver')
    BY <1>8, StopMoves DEF Calm, Issued, Stopping, Returned
  <2> QED BY <1>1, <1>2, <2>1, <2>2, <2>3, <2>4 DEF Calm, Starting
<1> QED BY <1>1, <1>3, <1>4, <1>5, <1>6, <1>7, <1>8

LEMMA CalmCall ==
  ASSUME PlanInv, Calm, Scanned, LcdCall
  PROVE  Calm' /\ Scanned'
<1>1. /\ I2cTypes /\ TodoInv /\ Issued /\ Planned
      /\ app = "demo" /\ result # Running /\ result' = Running /\ clean
      /\ UNCHANGED <<i2cVars, app, sent, clean>>
  BY DEF PlanInv, LcdInv, I2cInv, LcdCall, Calm
<1>2. Done
  BY <1>1 DEF Planned
<1>3. /\ sent' = NoByte /\ state' = "IDLE" /\ receiver' = receiver
      /\ pulled' = pulled /\ arbitration_lost' = arbitration_lost
  BY <1>1, <1>2 DEF Done, I2cTypes, i2cVars, masterVars
<1>4. Begins'
  BY <1>1, NewCall, SendsFirst, WhichFlags DEF Begins
<1>5. ~Starting' /\ ~Stopping' /\ ~Returned' /\ ~receiver'.ack
  BY <1>2, <1>3 DEF Done, Starting, Stopping, Returned
<1>6. ~pulled /\ ~arbitration_lost
  BY DEF Calm
<1> QED BY <1>1, <1>3, <1>4, <1>5, <1>6 DEF Calm, Scanned

LEMMA CalmStart ==
  ASSUME PlanInv, Calm, Scanned, WriteStarts
  PROVE  Calm' /\ Scanned'
<1>1. /\ Wires /\ todo # <<>> /\ sent = NoByte /\ state = "IDLE" /\ ~scl_low /\ Between
      /\ sent' # NoByte
      /\ UNCHANGED <<app, todo, result, clean, found, receiver, pulled, scl_low>>
      /\ ~arbitration_lost'
      /\ \/ "start" \in Head(todo).flags /\ state' = "START_A"
         \/ "start" \notin Head(todo).flags /\ state' = "WRITE_LOW" /\ bit_count' = 7
  <2>0. todo \in Seq(Writes) /\ todo # <<>> /\ sent' = Head(todo).byte
    BY DEF PlanInv, LcdInv, TodoInv, WriteStarts
  <2>1. Head(todo) \in Writes /\ Head(todo).byte \in 0..255 /\ sent' = Head(todo).byte
    <3> DEFINE w == Head(todo)
    <3>1. w \in Writes /\ sent' = w.byte
      BY <2>0, SplitSeq
    <3> HIDE DEF w
    <3>2. w.byte \in 0..255
      BY <3>1 DEF Writes
    <3> QED BY <3>1, <3>2 DEF w
  <2>2. sent' # NoByte
    BY SMT, <2>1 DEF NoByte
  <2> QED BY <2>2 DEF PlanInv, LcdInv, I2cInv, WriteStarts, Command, transfer_in_progress,
                      Go, Wires, Between
<1>2. Scanned'
  BY <1>1 DEF Scanned
<1>3. CASE "start" \in Head(todo).flags
  <2>1. ~receiver.ack
    BY <1>1, <1>3 DEF Calm, Begins
  <2> QED BY <1>1, <1>2, <1>3, <2>1 DEF Calm, Starting, Stopping, Between, Returned
<1>4. CASE "start" \notin Head(todo).flags
  <2>1. Active(receiver) /\ Fresh'
    BY <1>1, <1>4 DEF Calm, Begins, Fresh
  <2> QED BY <1>1, <1>2, <1>4, <2>1 DEF Calm, Starting, Stopping, Between, Returned
<1> QED BY <1>3, <1>4

LEMMA CalmReturn ==
  ASSUME PlanInv, Calm, Scanned, WriteReturns
  PROVE  Calm' /\ Scanned'
<1>1. /\ I2cTypes /\ TodoInv /\ Issued /\ Planned
      /\ sent # NoByte /\ state = "IDLE" /\ sent' = NoByte /\ todo # <<>> /\ result = Running
      /\ UNCHANGED i2cVars /\ sent = Head(todo).byte /\ cmd = Head(todo).flags
      /\ todo' = <<>> \/ todo' = Tail(todo)
  BY DEF PlanInv, LcdInv, I2cInv, TodoInv, WriteReturns, transfer_in_progress, Issued
<1>2. /\ state' = "IDLE" /\ receiver' = receiver /\ pulled' = pulled
      /\ arbitration_lost' = arbitration_lost
  BY <1>1 DEF i2cVars, masterVars
<1>3. /\ ~pulled /\ ~arbitration_lost /\ clean /\ app \in {"demo", "scan"} /\ Returned
      /\ (~rxack <=> Answers)
      /\ IF "stop" \in cmd THEN ~receiver.ack ELSE ~rxack => Active(receiver)
  BY <1>1 DEF Calm, Returned
<1>4. ~Starting' /\ ~Stopping' /\ ~Returned' /\ Between'
  BY <1>1, <1>2 DEF Starting, Stopping, Returned, Between
<1>5. (WriteResult = 0) <=> Answers
  <2>1. -3 # 0
    BY SMT
  <2> QED BY <1>3, <2>1 DEF WriteResult
<1>6. SUFFICES /\ result' \in {0, Running} /\ clean' /\ app' = app
               /\ IF Begins' THEN ~receiver.ack ELSE Active(receiver)
               /\ Scanned'
  BY <1>1, <1>2, <1>3, <1>4 DEF Calm
<1>7. CASE app = "demo" /\ \E vs : AtAddress(vs)
  <2>1. PICK vs : AtAddress(vs)
    BY <1>7
  <2>2. /\ Head(todo) = Addressing /\ Len(todo) # 1
        /\ Tail(todo) # <<>> /\ Head(Tail(todo)) = Value(Head(vs))
    BY <2>1, SendsFirst DEF AtAddress
  <2>3. Answers /\ "stop" \notin cmd
    BY <1>1, <2>2, WhichFlags DEF Answers
  <2>4. todo' = Tail(todo) /\ result' = result /\ clean' /\ app' = app
    BY <1>3, <1>5, <1>7, <2>2, <2>3 DEF WriteReturns
  <2>5. ~Begins'
    BY <2>2, <2>4, WhichFlags DEF Begins
  <2> QED BY <1>1, <1>3, <1>7, <2>3, <2>4, <2>5 DEF Scanned
<1>8. CASE app = "demo" /\ \E v, vs : AtValue(v, vs)
  <2>1. PICK v, vs : AtValue(v, vs)
    BY <1>8
  <2>2. Head(todo) = Value(v) /\ Sends(Tail(todo), vs)
    BY <2>1 DEF AtValue
  <2>3. Answers /\ "stop" \in cmd
    BY <1>1, <2>2, WhichFlags DEF Answers
  <2>4. result' \in {0, Running} /\ clean' /\ app' = app
    BY <1>1, <1>3, <1>5, <1>8, <2>3 DEF WriteReturns
  <2>5. Begins'
    <3> DEFINE ws == Tail(todo)
    <3>1. Sends(ws, vs) /\ (todo' = <<>> \/ todo' = ws)
      BY <1>1, <2>2
    <3> HIDE DEF ws
    <3>2. ws # <<>> => "start" \in Head(ws).flags
      BY <3>1, SendsEmpty, SendsFirst, WhichFlags
    <3> QED BY <3>1, <3>2 DEF Begins
  <2> QED BY <1>3, <1>8, <2>3, <2>4, <2>5 DEF Scanned
<1>9. CASE app = "scan"
  <2>1. /\ clean' /\ app' = app
        /\ IF Len(todo) = 1 THEN todo' = <<>> /\ result' = 0
           ELSE todo' = Tail(todo) /\ result' = result
        /\ found' = IF Answers THEN found \cup {sent \div 2} ELSE found
    BY <1>3, <1>5, <1>9 DEF WriteReturns
  <2>2. /\ 2 * (Address - 1) # 2 * Address /\ 2 * (Address + 1) # 2 * Address
        /\ (2 * Address) \div 2 = Address
    BY SMT, LcdAssumption
  <2>3. 0 # Running
    BY SMT DEF Running
  <2>4. CASE todo = ScanWrites
    <3>1. ~Answers /\ "stop" \in cmd
      BY <1>1, <2>2, <2>4, ScanParts, ScanFlags DEF Answers
    <3>2. todo' = Tail(ScanWrites) /\ result' = Running /\ found' = {}
      BY <1>1, <1>9, <2>1, <2>3, <2>4, <3>1, ScanParts DEF Scanned
    <3>3. Begins'
      BY <3>2, ScanParts, ScanFlags DEF Begins
    <3> QED BY <1>3, <2>1, <3>1, <3>2, <3>3 DEF Scanned
  <2>5. CASE todo = Tail(ScanWrites)
    <3>1. Answers /\ "stop" \in cmd /\ sent = 2 * Address
      BY <1>1, <2>5, ScanParts, ScanFlags DEF Answers
    <3>2. todo' = Tail(Tail(ScanWrites)) /\ result' = Running /\ found' = {Address}
      <4>1. found = {}
        BY <1>1, <1>9, <2>3, <2>5, ScanParts DEF Scanned
      <4> QED BY <1>1, <2>1, <2>2, <2>5, <3>1, <4>1, ScanParts
    <3>3. Begins'
      BY <3>2, ScanParts, ScanFlags DEF Begins
    <3> QED BY <1>3, <2>1, <3>1, <3>2, <3>3 DEF Scanned
  <2>6. CASE todo = Tail(Tail(ScanWrites))
    <3>1. ~Answers /\ "stop" \in cmd
      BY <1>1, <2>2, <2>6, ScanParts, ScanFlags DEF Answers
    <3>2. todo' = <<>> /\ result' = 0 /\ found' = {Address}
      <4>1. found = {Address}
        BY <1>1, <1>9, <2>3, <2>6, ScanParts DEF Scanned
      <4> QED BY <1>1, <2>1, <2>6, <3>1, <4>1, ScanParts
    <3>3. Begins'
      BY <3>2 DEF Begins
    <3> QED BY <1>3, <2>1, <3>1, <3>2, <3>3 DEF Scanned
  <2> QED BY <1>1, <1>9, <2>4, <2>5, <2>6 DEF Scanned
<1> QED BY <1>1, <1>3, <1>7, <1>8, <1>9 DEF Planned

LEMMA StepCalmInv == PlanInv /\ PlanInv' /\ CalmInv /\ [LcdNext]_lcdI2cVars => CalmInv'
<1> SUFFICES ASSUME PlanInv, PlanInv', CalmInv, [LcdNext]_lcdI2cVars PROVE CalmInv'
  OBVIOUS
<1>1. CASE UNCHANGED lcdI2cVars
  <2>1. UNCHANGED <<state, cmd, scl_low, bit_count, rxack, arbitration_lost, receiver, pulled,
                    app, todo, sent, result, clean, found, faults>>
    BY <1>1 DEF lcdI2cVars, i2cVars, masterVars, callVars
  <2>2. /\ Between' = Between /\ Starting' = Starting /\ Stopping' = Stopping
        /\ Returned' = Returned /\ Fresh' = Fresh /\ Answers' = Answers /\ Begins' = Begins
    BY <2>1 DEF Between, Starting, Stopping, Returned, Fresh, Answers, Begins
  <2>3. Calm' = Calm /\ Scanned' = Scanned
    BY <2>1, <2>2 DEF Calm, Scanned
  <2> QED BY <2>1, <2>3 DEF CalmInv
<1>2. CASE LcdCall
  BY <1>2, CalmCall DEF CalmInv, LcdCall
<1>3. CASE WriteStarts
  BY <1>3, CalmStart DEF CalmInv, WriteStarts
<1>4. CASE WriteReturns
  BY <1>4, CalmReturn DEF CalmInv, WriteReturns
<1>5. CASE MasterTick
  <2>1. Ticked(FALSE, TRUE) /\ faults' = faults /\ I2cInv /\ I2cInv' /\ Issued
    BY <1>5 DEF MasterTick, BusTick, Ticked, PlanInv, LcdInv
  <2>2. todo' = todo /\ app' = app /\ result' = result /\ found' = found
    BY <2>1, NotDuring
  <2>3. Scanned => Scanned'
    BY <2>2 DEF Scanned
  <2> QED BY <2>1, <2>3, CalmTick DEF CalmInv
<1>6. CASE LcdFault
  <2>1. faults' = faults + 1
    BY <1>6 DEF LcdFault
  <2>2. faults' \in Nat /\ faults' # 0
    BY SMT, <2>1 DEF CalmInv
  <2> QED BY <2>2 DEF CalmInv
<1> QED BY <1>1, <1>2, <1>3, <1>4, <1>5, <1>6 DEF LcdNext

\* lcd_i2c.c:68, 55, with the display and its expander in any state: for every
\* receiver address, every list of characters, every number of calls and every
\* number and place of disturbed bits, missing acknowledges and resets, an
\* initialisation that has returned 0 has left the display with four bits and in
\* step, and so has each call that returns 0 after it, having executed exactly
\* its bytes; and with nothing disturbed no call of full_demo fails and the scan
\* finds the receiver, and only it.
THEOREM DisplayInSync == LcdSpec => []LcdInSync
<1>1. PlanInv /\ CalmInv => LcdInSync
  <2>1. 0 # Running
    BY SMT DEF Running
  <2>2. ASSUME PlanInv, app = "demo", result = 0, clean
        PROVE  mode = 4 /\ half = NoHalf /\ executed = call
    <3>1. Done
      BY <2>1, <2>2 DEF PlanInv, Planned
    <3> QED BY <3>1, NowParts DEF Done, Synced
  <2>3. ASSUME CalmInv, faults = 0
        PROVE  /\ result \in {0, Running}
               /\ app = "scan" /\ result = 0 => found = {Address}
    BY <2>1, <2>3 DEF CalmInv, Calm, Scanned
  <2> QED BY <2>2, <2>3 DEF LcdInSync
<1> QED BY <1>1, InitPlanInv, StepPlanInv, InitCalmInv, StepCalmInv, PTL DEF LcdSpec

-----------------------------------------------------------------------------
\* A behaviour of the firmware is one of each of its parts: the other two stay
\* where they started.
LEMMA Parts ==
  /\ Init => LcdInit /\ UartInit /\ DemoInit
  /\ [Next]_vars =>
       [LcdNext]_lcdI2cVars /\ [UartNext]_uartVars /\ [DemoNext]_demoVars
<1>1. Init => LcdInit /\ UartInit /\ DemoInit
  BY DEF Init
<1>2. ASSUME [Next]_vars
      PROVE  [LcdNext]_lcdI2cVars /\ [UartNext]_uartVars /\ [DemoNext]_demoVars
  <2>1. CASE UNCHANGED vars
    BY <2>1 DEF vars
  <2>2. CASE Next
    BY <2>2 DEF Next
  <2> QED BY <1>2, <2>1, <2>2
<1> QED BY <1>1, <1>2

\* main.c:370, 424, 472: between events the flags tell the truth about the
\* buffers, whichever calls have failed or given wrong bytes, and the mark of a
\* successful decapsulation is that of an agreement and of a rejection.
THEOREM FlagsAreTrue == Spec => []FlagsTell
<1>1. Init => DemoInv
  BY Parts, InitDemoInv
<1>2. DemoInv /\ [Next]_vars => DemoInv'
  BY Parts, StepDemoInv
<1>3. DemoInv => FlagsTell
  <2> SUFFICES ASSUME DemoInv, calls = <<>>
               PROVE  /\ have_keypair => pk = "ref" /\ sk = "ref"
                      /\ have_capsule => ct = "ref" /\ ss_enc = "ref"
                      /\ gpio = "DECAPS" => ss_dec = ss_enc /\ ss_bad = "rejected"
    BY DEF FlagsTell
  <2>1. ~Rejecting /\ calls # <<"decaps_bad">>
    BY ListsDiffer DEF Rejecting
  <2> QED BY <2>1 DEF DemoInv
<1> QED BY <1>1, <1>2, <1>3, PTL DEF Spec

\* What is proved of a part alone holds of the firmware.
THEOREM FirmwareIsItsParts == Spec => LcdSpec /\ UartSpec
<1>1. [Next]_vars => [LcdNext]_lcdI2cVars /\ [UartNext]_uartVars
  BY Parts
<1>2. Init => LcdInit /\ UartInit
  BY Parts
<1> QED BY <1>1, <1>2, PTL DEF Spec, LcdSpec, UartSpec
=============================================================================
