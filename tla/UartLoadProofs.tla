--------------------------- MODULE UartLoadProofs ---------------------------
(***************************************************************************)
(* The bootloader writes only the loadable regions, for every word size,   *)
(* every choice of the regions, every file, and any number of attempts and *)
(* faults.                                                                 *)
(***************************************************************************)
EXTENDS UartLoad, SequenceTheorems, WellFoundedInduction, TLAPS

(***************************************************************************)
(* Induction over the natural numbers, for sets.                           *)
(***************************************************************************)
LEMMA Least ==
  ASSUME NEW T, T \subseteq Nat, T # {}
  PROVE  \E n \in T : \A m \in T : n <= m
<1> DEFINE R == OpToRel(<, Nat)
<1>1. IsWellFoundedOn(R, Nat)
  BY Zenon, NatLessThanWellFounded
<1> HIDE DEF R
<1>2. PICK n \in T : \A m \in T : ~ (<<m, n>> \in R)
  BY <1>1, WFMin
<1> USE DEF R
<1>3. \A m \in T : ~(m < n)
  BY <1>2 DEF OpToRel
<1> QED
  BY <1>3, SMT

LEMMA SetInduction ==
  ASSUME NEW S, 0 \in S, \A n \in Nat : n \in S => n + 1 \in S
  PROVE  Nat \subseteq S
<1> SUFFICES ASSUME Nat \ S # {} PROVE FALSE
  OBVIOUS
<1>1. PICK n \in Nat \ S : \A m \in Nat \ S : n <= m
  BY Least
<1>2. n - 1 \in Nat /\ n - 1 \notin S
  BY <1>1, SMT
<1> QED
  BY <1>1, <1>2, SMT

(***************************************************************************)
(* The recursive functions: they exist, hence satisfy their equations.     *)
(***************************************************************************)
LEMMA PowersExist ==
  ASSUME NEW N \in Nat
  PROVE  \E p : p = [n \in 0 .. N |-> IF n = 0 THEN 1 ELSE 256 * p[n-1]]
<1> DEFINE Is(p, k) == p = [n \in 0 .. k |-> IF n = 0 THEN 1 ELSE 256 * p[n-1]]
           S == {k \in Nat : \E p : Is(p, k)}
<1>1. 0 \in S
  <2> DEFINE p == [n \in 0 .. 0 |-> 1]
  <2>1. Is(p, 0)
    BY SMT
  <2> QED
    BY <2>1
<1>2. ASSUME NEW k \in Nat, k \in S
      PROVE  k + 1 \in S
  <2>1. PICK p : Is(p, k)
    BY <1>2
  <2> DEFINE q == [n \in 0 .. k + 1 |-> IF n = 0 THEN 1 ELSE 256 * p[n-1]]
  <2>2. \A n \in 0 .. k : q[n] = p[n]
    BY <2>1, SMT
  <2>3. \A n \in 0 .. k + 1 : n # 0 => n - 1 \in 0 .. k
    BY SMT
  <2>4. Is(q, k + 1)
    BY <2>2, <2>3
  <2>5. k + 1 \in Nat
    BY SMT
  <2> HIDE DEF Is
  <2> QED
    BY <2>4, <2>5
<1> HIDE DEF S
<1>3. N \in S
  BY <1>1, <1>2, SetInduction
<1> QED
  BY <1>3 DEF S

LEMMA PowerEquation ==
  WordBytes \in Nat =>
    Power = [n \in 0 .. WordBytes |-> IF n = 0 THEN 1 ELSE 256 * Power[n-1]]
BY PowersExist, Zenon DEF Power

LEMMA SumsExist ==
  ASSUME NEW N \in Nat, NEW s
  PROVE  \E t : t = [i \in 0 .. N |-> IF i = 0 THEN 0 ELSE t[i-1] + s[i]]
<1> DEFINE Is(t, k) == t = [i \in 0 .. k |-> IF i = 0 THEN 0 ELSE t[i-1] + s[i]]
           S == {k \in Nat : \E t : Is(t, k)}
<1>1. 0 \in S
  <2> DEFINE t == [i \in 0 .. 0 |-> 0]
  <2>1. Is(t, 0)
    BY SMT
  <2> QED
    BY <2>1
<1>2. ASSUME NEW k \in Nat, k \in S
      PROVE  k + 1 \in S
  <2>1. PICK t : Is(t, k)
    BY <1>2
  <2> DEFINE u == [i \in 0 .. k + 1 |-> IF i = 0 THEN 0 ELSE t[i-1] + s[i]]
  <2>2. \A i \in 0 .. k : u[i] = t[i]
    BY <2>1, SMT
  <2>3. \A i \in 0 .. k + 1 : i # 0 => i - 1 \in 0 .. k
    BY SMT
  <2>4. Is(u, k + 1)
    BY <2>2, <2>3
  <2>5. k + 1 \in Nat
    BY SMT
  <2> HIDE DEF Is
  <2> QED
    BY <2>4, <2>5
<1> HIDE DEF S
<1>3. N \in S
  BY <1>1, <1>2, SetInduction
<1> QED
  BY <1>3 DEF S

LEMMA TotalEquation ==
  ASSUME NEW s, Len(s) \in Nat
  PROVE  \E t : /\ t = [i \in 0 .. Len(s) |-> IF i = 0 THEN 0 ELSE t[i-1] + s[i]]
                /\ Total(s) = t[Len(s)]
<1> DEFINE t == CHOOSE t : t = [i \in 0 .. Len(s) |-> IF i = 0 THEN 0 ELSE t[i-1] + s[i]]
<1>1. t = [i \in 0 .. Len(s) |-> IF i = 0 THEN 0 ELSE t[i-1] + s[i]]
  BY SumsExist, Zenon
<1>2. Total(s) = t[Len(s)]
  BY Zenon DEF Total
<1> QED
  BY <1>1, <1>2, Zenon

(***************************************************************************)
(* Numbers of several bytes.                                               *)
(***************************************************************************)
Byte == 0 .. 255

LEMMA ByteBounds == \A b \in Byte : b \in Int /\ 0 <= b /\ b <= 255 /\ b >= 0
BY DEF Byte

LEMMA Sizes == /\ HalfBytes \in Nat /\ HalfBytes >= 1
               /\ WordBytes \in Nat /\ WordBytes = HalfBytes + HalfBytes
BY RegionsAssumption DEF WordBytes

LEMMA Powers ==
  /\ Power[0] = 1
  /\ \A n \in 0 .. WordBytes : Power[n] \in Nat /\ Power[n] >= 1
  /\ \A n \in 1 .. WordBytes : Power[n] = 256 * Power[n-1]
<1>1. Power = [n \in 0 .. WordBytes |-> IF n = 0 THEN 1 ELSE 256 * Power[n-1]]
  BY PowerEquation, Sizes
<1>2. Power[0] = 1 /\ \A n \in 1 .. WordBytes : Power[n] = 256 * Power[n-1]
  <2>1. 0 \in 0 .. WordBytes /\ \A n \in 1 .. WordBytes : n \in 0 .. WordBytes /\ n # 0
    BY Sizes
  <2> QED
    BY <1>1, <2>1, Zenon
<1> DEFINE S == {n \in Nat : n \in 0 .. WordBytes => Power[n] \in Nat /\ Power[n] >= 1}
<1>3. 0 \in S
  BY <1>2
<1>4. ASSUME NEW n \in Nat, n \in S
      PROVE  n + 1 \in S
  BY <1>2, <1>4, Sizes
<1> HIDE DEF S
<1>5. Nat \subseteq S
  BY <1>3, <1>4, SetInduction
<1>6. \A n \in 0 .. WordBytes : Power[n] \in Nat /\ Power[n] >= 1
  BY <1>5 DEF S
<1> QED
  BY <1>2, <1>6

LEMMA ProductOfHalves == Word = Power[HalfBytes] * Power[HalfBytes]
<1> DEFINE h == Power[HalfBytes]
           S == {n \in Nat : n \in 0 .. HalfBytes => Power[HalfBytes + n] = h * Power[n]}
<1>1. h \in Nat
  BY Powers, Sizes
<1>2. 0 \in S
  BY <1>1, Powers, Sizes
<1>3. ASSUME NEW n \in Nat, n \in S
      PROVE  n + 1 \in S
  <2> SUFFICES ASSUME n + 1 \in 0 .. HalfBytes
               PROVE  Power[HalfBytes + (n + 1)] = h * Power[n + 1]
    OBVIOUS
  <2>1. Power[HalfBytes + n] = h * Power[n]
    <3>1. n \in 0 .. HalfBytes
      BY Sizes
    <3> HIDE DEF h
    <3> QED
      BY <1>3, <3>1
  <2>2. /\ Power[HalfBytes + (n + 1)] = 256 * Power[HalfBytes + n]
        /\ Power[n + 1] = 256 * Power[n] /\ Power[n] \in Nat
    <3>1. /\ HalfBytes + (n + 1) \in 1 .. WordBytes /\ n + 1 \in 1 .. WordBytes
          /\ n \in 0 .. WordBytes
          /\ (HalfBytes + (n + 1)) - 1 = HalfBytes + n /\ (n + 1) - 1 = n
      BY Sizes
    <3> QED
      BY <3>1, Powers, ZenonT(60)
  <2> HIDE DEF h
  <2>3. \A p \in Nat : 256 * (h * p) = h * (256 * p)
    BY <1>1
  <2> QED
    BY <2>1, <2>2, <2>3
<1> HIDE DEF S
<1>4. HalfBytes \in S
  BY <1>2, <1>3, SetInduction, Sizes
<1>5. HalfBytes \in 0 .. HalfBytes /\ HalfBytes + HalfBytes = WordBytes
  BY Sizes
<1> QED
  BY <1>4, <1>5 DEF S, Word

LEMMA DigitBound ==
  ASSUME NEW b \in Byte, NEW p \in Nat
  PROVE  b * p \in Nat /\ b * p <= 255 * p
<1>1. /\ b \in Nat /\ 255 - b \in Nat
  BY DEF Byte
<1>2. \A x, y \in Nat : x * y \in Nat
  OBVIOUS
<1>3. b * p \in Nat /\ (255 - b) * p \in Nat
  BY <1>1, <1>2
<1>4. (255 - b) * p = 255 * p - b * p
  BY <1>1
<1> QED
  BY <1>1, <1>3, <1>4

\* A sum of digits with the weights w, if each step stays below the bound.
LEMMA WeightedSum ==
  ASSUME NEW n \in Nat, NEW d, d \in [1 .. n -> Int], NEW u, u \in [0 .. n -> Int],
         u[0] >= 0,
         \A i \in 1 .. n : d[i] >= 0 /\ u[i-1] + d[i] <= u[i]
  PROVE  Total(d) \in Nat /\ Total(d) <= u[n]
<1>1. d \in Seq(Int) /\ Len(d) = n
  BY LenProperties, SeqDef
<1>2. PICK t : /\ t = [i \in 0 .. n |-> IF i = 0 THEN 0 ELSE t[i-1] + d[i]]
               /\ Total(d) = t[n]
  BY <1>1, TotalEquation
<1> DEFINE S == {i \in Nat : i \in 0 .. n => t[i] \in Nat /\ t[i] <= u[i]}
<1>3. 0 \in S
  BY <1>2
<1>4. ASSUME NEW i \in Nat, i \in S
      PROVE  i + 1 \in S
  <2> SUFFICES ASSUME i + 1 \in 0 .. n
               PROVE  t[i + 1] \in Nat /\ t[i + 1] <= u[i + 1]
    OBVIOUS
  <2>1. i \in 0 .. n /\ i + 1 \in 1 .. n /\ (i + 1) - 1 = i /\ i + 1 # 0
    OBVIOUS
  <2>2. t[i + 1] = t[i] + d[i + 1]
    BY <1>2, <2>1
  <2>3. t[i] \in Nat /\ t[i] <= u[i]
    BY <1>4, <2>1
  <2>4. u[i] \in Int /\ u[i + 1] \in Int /\ d[i + 1] \in Int
        /\ d[i + 1] >= 0 /\ u[i] + d[i + 1] <= u[i + 1]
    BY <2>1
  <2> QED
    BY SMTT(30), <2>2, <2>3, <2>4
<1> HIDE DEF S
<1>5. n \in S
  BY <1>3, <1>4, SetInduction
<1>6. n \in 0 .. n
  OBVIOUS
<1> QED
  BY <1>2, <1>5, <1>6 DEF S

LEMMA LittleEndianBound ==
  ASSUME NEW s \in Seq(Byte), Len(s) <= WordBytes
  PROVE  LittleEndian(s) \in Nat /\ LittleEndian(s) < Power[Len(s)]
<1> DEFINE n == Len(s)
           d == [i \in DOMAIN s |-> s[i] * Power[i-1]]
           u == [i \in 0 .. n |-> Power[i] - 1]
<1>1. n \in Nat /\ DOMAIN s = 1 .. n /\ \A i \in 1 .. n : s[i] \in Byte
  BY LenProperties, ElementOfSeq
<1>2. \A i \in 1 .. n : /\ i \in 1 .. WordBytes /\ i - 1 \in 0 .. WordBytes
                        /\ i - 1 \in 0 .. n /\ i \in 0 .. n
  BY <1>1, Sizes
<1>3. \A i \in 0 .. n : i \in 0 .. WordBytes
  BY <1>1, Sizes
<1>4. \A i \in 1 .. n : /\ s[i] * Power[i-1] \in Nat
                        /\ s[i] * Power[i-1] <= 255 * Power[i-1]
                        /\ Power[i] = 256 * Power[i-1] /\ Power[i-1] \in Nat
  <2> TAKE i \in 1 .. n
  <2>1. Power[i-1] \in Nat /\ Power[i] = 256 * Power[i-1]
    BY <1>2, Powers
  <2>2. s[i] \in Byte
    BY <1>1
  <2>3. \A b \in Byte, p \in Nat : b * p \in Nat /\ b * p <= 255 * p
    BY DigitBound
  <2>4. \A p \in Nat : s[i] * p \in Nat /\ s[i] * p <= 255 * p
    BY <2>2, <2>3, Zenon
  <2>5. Power[i-1] \in Nat
    BY <2>1
  <2>6. s[i] * Power[i-1] \in Nat
    BY <2>5, <2>4
  <2>7. s[i] * Power[i-1] <= 255 * Power[i-1]
    BY <2>5, <2>4
  <2> QED
    BY <2>1, <2>6, <2>7
<1>5. d \in [1 .. n -> Int] /\ \A i \in 1 .. n : d[i] >= 0
  BY <1>1, <1>4
<1>6. u \in [0 .. n -> Int] /\ u[0] >= 0 /\ u[n] = Power[n] - 1 /\ Power[n] \in Nat
  BY <1>1, <1>3, Powers
<1>7. \A i \in 1 .. n : u[i-1] + d[i] <= u[i]
  BY <1>1, <1>2, <1>4
<1> HIDE DEF u
<1>8. Total(d) \in Nat /\ Total(d) <= u[n]
  BY <1>1, <1>5, <1>6, <1>7, WeightedSum
<1> QED
  BY <1>6, <1>8 DEF LittleEndian

LEMMA BigEndianBound ==
  ASSUME NEW s \in Seq(Byte), Len(s) <= WordBytes
  PROVE  BigEndian(s) \in Nat /\ BigEndian(s) < Power[Len(s)]
<1> DEFINE n == Len(s)
           d == [i \in DOMAIN s |-> s[i] * Power[Len(s) - i]]
           u == [i \in 0 .. n |-> Power[n] - Power[n - i]]
<1>1. n \in Nat /\ DOMAIN s = 1 .. n /\ \A i \in 1 .. n : s[i] \in Byte
  BY LenProperties, ElementOfSeq
<1>2. \A i \in 1 .. n : /\ n - i + 1 \in 1 .. WordBytes /\ n - i \in 0 .. WordBytes
                        /\ i - 1 \in 0 .. n /\ i \in 0 .. n
                        /\ n - (i - 1) = n - i + 1 /\ (n - i + 1) - 1 = n - i
  BY <1>1, Sizes
<1>3. n \in 0 .. WordBytes /\ \A i \in 0 .. n : n - i \in 0 .. WordBytes
  BY <1>1, Sizes
<1>4. \A i \in 1 .. n : /\ s[i] * Power[n - i] \in Nat
                        /\ s[i] * Power[n - i] <= 255 * Power[n - i]
                        /\ Power[n - (i - 1)] = 256 * Power[n - i]
                        /\ Power[n - i] \in Nat
  <2> TAKE i \in 1 .. n
  <2>1. Power[n - i] \in Nat /\ Power[n - (i - 1)] = 256 * Power[n - i]
    BY <1>2, Powers
  <2>2. s[i] \in Byte
    BY <1>1
  <2>3. \A b \in Byte, p \in Nat : b * p \in Nat /\ b * p <= 255 * p
    BY DigitBound
  <2>4. \A p \in Nat : s[i] * p \in Nat /\ s[i] * p <= 255 * p
    BY <2>2, <2>3, Zenon
  <2>5. Power[n - i] \in Nat
    BY <2>1
  <2>6. s[i] * Power[n - i] \in Nat
    BY <2>5, <2>4
  <2>7. s[i] * Power[n - i] <= 255 * Power[n - i]
    BY <2>5, <2>4
  <2> QED
    BY <2>1, <2>6, <2>7
<1>5. d \in [1 .. n -> Int] /\ \A i \in 1 .. n : d[i] >= 0
  BY <1>1, <1>4
<1>6. u \in [0 .. n -> Int] /\ u[0] >= 0 /\ u[n] = Power[n] - 1 /\ Power[n] \in Nat
  BY <1>1, <1>3, Powers
<1>7. \A i \in 1 .. n : u[i-1] + d[i] <= u[i]
  BY SMTT(30), <1>1, <1>2, <1>3, <1>4, Powers
<1> HIDE DEF u
<1>8. Total(d) \in Nat /\ Total(d) <= u[n]
  BY <1>1, <1>5, <1>6, <1>7, WeightedSum
<1> QED
  BY <1>6, <1>8 DEF BigEndian

-----------------------------------------------------------------------------
(* The inductive invariant. *)

Loadable == (ImemBase .. BootEnd - 1) \cup (SramBase .. SramEnd - 1)
Streams == [upper : Nat, entry : Nat, entry_seen : BOOLEAN,
            first_addr : Nat, first_data_seen : BOOLEAN]

LoadTypes ==
  /\ rx \in Seq(Byte) /\ left \in Seq(Byte) /\ file \in Files
  /\ buf \in Seq(Byte) /\ hi \in {NoDigit, -1} \cup 0 .. 15
  /\ ihex \in Streams

\* The range of a packet has been checked before its first byte is taken, and
\* a HEX file's upper address leaves room for the address of a record.
Checked ==
  /\ pc = "header" => Len(buf) < 4 * WordBytes
  /\ pc = "payload" => /\ pkt.dst \in Nat /\ pkt.dst < Word
                       /\ pkt.len \in Nat /\ pkt.len < Word
                       /\ range_valid(pkt.dst, pkt.len) /\ Len(buf) < pkt.len
  /\ ihex.upper <= (Power[HalfBytes] - 1) * Power[HalfBytes]

LoadInv == LoadTypes /\ Checked /\ LoadableOnly

LEMMA WordSize == Word \in Nat /\ Word >= 256 /\ SramEnd < Word
<1>1. WordBytes \in 1 .. WordBytes /\ WordBytes - 1 \in 0 .. WordBytes
  BY Sizes
<1>2. Word = 256 * Power[WordBytes - 1] /\ Power[WordBytes - 1] \in Nat
      /\ Power[WordBytes - 1] >= 1
  BY <1>1, Powers, Zenon DEF Word
<1> QED
  BY <1>2, RegionsAssumption

LEMMA WrapsOnce ==
  ASSUME NEW x \in Nat, x < 2 * Word
  PROVE  x % Word = IF x < Word THEN x ELSE x - Word
BY WordSize

\* The check of a range admits no address outside the regions, though its end is
\* computed modulo the word size.
LEMMA ValidRange ==
  ASSUME NEW addr \in Nat, addr < Word, NEW len \in Nat, len < Word,
         range_valid(addr, len), NEW i \in 0 .. len - 1
  PROVE  (addr + i) % Word \in Loadable
<1>1. len >= 1 /\ i \in Nat /\ i <= len - 1
  OBVIOUS
<1> DEFINE end == (addr + len - 1) % Word
<1>2. /\ end >= addr
      /\ \/ addr >= ImemBase /\ end < BootEnd
         \/ addr >= SramBase /\ end < SramEnd
  BY <1>1 DEF range_valid
<1> DEFINE x == addr + len - 1
<1>3. x \in Nat /\ x < 2 * Word /\ end = x % Word
  BY <1>1, WordSize
<1> HIDE DEF end
<1>4. addr + len - 1 < Word /\ end = addr + len - 1
  <2> HIDE DEF x
  <2>1. end = IF x < Word THEN x ELSE x - Word
    BY <1>3, WrapsOnce
  <2> USE DEF x
  <2> QED
    BY <1>1, <1>2, <2>1, WordSize
<1>5. addr + i \in Nat /\ addr + i < Word
  BY <1>1, <1>4, WordSize
<1>6. (addr + i) % Word = addr + i
  BY <1>5, WrapsOnce, WordSize
<1> QED
  BY <1>1, <1>2, <1>4, <1>5, <1>6, RegionsAssumption DEF Loadable

\* The check that write_payload_byte repeats for each byte (main.c:99), with the
\* errors 0x12 and 0x26, cannot fail behind the check of the whole range: the
\* model leaves it out.
THEOREM ByteCheckIsRedundant ==
  ASSUME NEW addr \in Nat, addr < Word, NEW len \in Nat, len < Word,
         range_valid(addr, len), NEW i \in 0 .. len - 1
  PROVE  range_valid((addr + i) % Word, 1)
<1> DEFINE a == (addr + i) % Word
<1>1. a \in Loadable
  BY ValidRange
<1> HIDE DEF a
<1>2. a \in Nat /\ a < Word /\ a + 1 - 1 = a
  BY <1>1, RegionsAssumption, WordSize DEF Loadable
<1>3. (a + 1 - 1) % Word = a
  BY <1>2, WrapsOnce, WordSize
<1>4. \/ a >= ImemBase /\ a < BootEnd
      \/ a >= SramBase /\ a < SramEnd
  BY <1>1, <1>2, RegionsAssumption DEF Loadable
<1>5. range_valid(a, 1)
  BY <1>2, <1>3, <1>4 DEF range_valid
<1> QED
  BY <1>5 DEF a

LEMMA StoredDomain ==
  ASSUME NEW addr, NEW bytes
  PROVE  DOMAIN Stored(addr, bytes)
           = {(addr + i - 1) % Word : i \in DOMAIN bytes} \cup DOMAIN mem
BY DEF Stored

\* A step of the board with which nothing of a packet is under way.
LEMMA Rests ==
  ASSUME LoadInv, rx' \in Seq(Byte), left' \in Seq(Byte), file' \in Files,
         buf' = <<>>, hi' = NoDigit, pc' # "payload", LoadableOnly',
         ihex' \in Streams, ihex'.upper <= (Power[HalfBytes] - 1) * Power[HalfBytes]
  PROVE  LoadInv'
<1>1. buf' \in Seq(Byte) /\ Len(buf') = 0
  BY EmptySeq
<1> QED
  BY <1>1, Sizes DEF LoadInv, LoadTypes, Checked

\* A step in which the program takes no byte.
LEMMA Waits ==
  ASSUME LoadInv, rx' \in Seq(Byte), left' \in Seq(Byte), file' \in Files,
         UNCHANGED <<pc, locals, mem>>
  PROVE  LoadInv'
BY DEF LoadInv, LoadTypes, Checked, LoadableOnly, locals

LEMMA NoUpper == 0 <= (Power[HalfBytes] - 1) * Power[HalfBytes]
<1> DEFINE p == Power[HalfBytes]
<1>1. HalfBytes \in 0 .. WordBytes
  BY Sizes
<1>2. p \in Nat /\ p >= 1
  BY <1>1, Powers
<1>3. p - 1 \in Nat
  BY <1>2
<1>4. \A x, y \in Nat : 0 <= x * y
  OBVIOUS
<1> QED
  BY <1>2, <1>3, <1>4

LEMMA LoadInvInit == Init => LoadInv
<1> SUFFICES ASSUME Init PROVE LoadInv
  OBVIOUS
<1>1. <<>> \in Seq(Byte) /\ Len(<<>>) = 0
  BY EmptySeq
<1>4. 0 <= (Power[HalfBytes] - 1) * Power[HalfBytes]
  BY NoUpper
<1>5. ihex \in Streams /\ ihex.upper = 0
  BY DEF Init, BootInit, NoStream, Streams
<1>6. DOMAIN mem = {}
  BY DEF Init, BootInit
<1> QED
  BY <1>1, <1>4, <1>5, <1>6
  DEF Init, BootInit, LoadInv, LoadTypes, Checked, LoadableOnly, NoDigit

-----------------------------------------------------------------------------
(* The bootloader *)

LEMMA NoDigits == NoDigit \in {NoDigit, -1} \cup 0 .. 15
OBVIOUS

\* What a byte leads to when nothing is written.
LEMMA ReportKeeps ==
  ASSUME LoadInv, NEW code, report_error(code),
         rx' \in Seq(Byte), left' \in Seq(Byte), file' \in Files
  PROVE  LoadInv'
<1>1. /\ buf' = <<>> /\ hi' = NoDigit /\ pc' = "print"
      /\ ihex' = ihex /\ mem' = mem
  BY DEF report_error, To
<1> QED
  BY <1>1, Rests DEF LoadInv, LoadTypes, Checked, LoadableOnly

LEMMA JumpKeeps ==
  ASSUME LoadInv, NEW message, NEW entry, jump_to(message, entry), mem' = mem,
         rx' \in Seq(Byte), left' \in Seq(Byte), file' \in Files
  PROVE  LoadInv'
<1>1. /\ buf' = <<>> /\ hi' = NoDigit /\ pc' = "jump"
      /\ ihex' = ihex /\ mem' = mem
  BY DEF jump_to, To
<1> QED
  BY <1>1, Rests DEF LoadInv, LoadTypes, Checked, LoadableOnly

LEMMA FinishKeeps ==
  ASSUME LoadInv, NEW p, NEW payload, Finish(p, payload),
         rx' \in Seq(Byte), left' \in Seq(Byte), file' \in Files
  PROVE  LoadInv'
BY ReportKeeps, JumpKeeps DEF Finish

LEMMA ToKeeps ==
  ASSUME LoadInv, NEW next, next # "payload", To(next), ihex' = ihex, mem' = mem,
         rx' \in Seq(Byte), left' \in Seq(Byte), file' \in Files
  PROVE  LoadInv'
<1>1. buf' = <<>> /\ hi' = NoDigit /\ pc' = next
  BY DEF To
<1> QED
  BY <1>1, Rests DEF LoadInv, LoadTypes, Checked, LoadableOnly

\* A byte of a packet's or a record's current part.
LEMMA CollectKeeps ==
  ASSUME LoadInv, NEW c \in Byte, buf' = Append(buf, c), pc' = pc,
         pc = "header" => Len(buf) + 1 < 4 * WordBytes, pc # "payload",
         hi' \in {NoDigit, -1} \cup 0 .. 15, ihex' = ihex, mem' = mem,
         rx' \in Seq(Byte), left' \in Seq(Byte), file' \in Files
  PROVE  LoadInv'
<1>1. buf' \in Seq(Byte) /\ Len(buf') = Len(buf) + 1
  BY AppendProperties DEF LoadInv, LoadTypes
<1> QED
  BY <1>1 DEF LoadInv, LoadTypes, Checked, LoadableOnly

LEMMA MainKeeps ==
  ASSUME LoadInv, NEW c \in Byte, BootMain(c),
         rx' \in Seq(Byte), left' \in Seq(Byte), file' \in Files
  PROVE  LoadInv'
<1>1. CASE UNCHANGED <<tx, pc, locals, target, mem>>
  BY <1>1, Waits
<1>2. CASE To("magic") /\ UNCHANGED <<tx, pkt, ihex, target, mem>>
  BY <1>2, ToKeeps
<1>3. CASE To("hex") /\ ihex' = NoStream /\ mem' = mem
  <2>1. /\ buf' = <<>> /\ hi' = NoDigit /\ pc' = "hex"
        /\ ihex' \in Streams /\ ihex'.upper = 0
    BY <1>3 DEF To, NoStream, Streams
  <2>2. 0 <= (Power[HalfBytes] - 1) * Power[HalfBytes]
    BY NoUpper
  <2> QED
    BY <1>3, <2>1, <2>2, Rests DEF LoadInv, LoadableOnly
<1>4. CASE report_error(1)
  BY <1>4, ReportKeeps
<1> QED
  BY <1>1, <1>2, <1>3, <1>4 DEF BootMain

LEMMA MagicKeeps ==
  ASSUME LoadInv, NEW c \in Byte, BootMagic(c),
         rx' \in Seq(Byte), left' \in Seq(Byte), file' \in Files
  PROVE  LoadInv'
<1>1. CASE report_error(16)
  BY <1>1, ReportKeeps
<1>2. CASE /\ buf' = Append(buf, c) /\ UNCHANGED <<pc, hi>>
           /\ UNCHANGED <<tx, pkt, ihex, target, mem>>
  <2>1. pc # "header" /\ pc # "payload" /\ pc' = pc
        /\ hi' \in {NoDigit, -1} \cup 0 .. 15
    BY <1>2 DEF BootMagic, LoadInv, LoadTypes
  <2> QED
    BY <1>2, <2>1, CollectKeeps
<1>3. CASE To("header") /\ UNCHANGED <<tx, pkt, ihex, target, mem>>
  BY <1>3, ToKeeps
<1> QED
  BY <1>1, <1>2, <1>3 DEF BootMagic

\* A word of the header.
LEMMA HeaderWord ==
  ASSUME NEW s \in Seq(Byte), Len(s) = 4 * WordBytes, NEW i \in 0 .. 3
  PROVE  /\ LittleEndian(SubSeq(s, i * WordBytes + 1, (i + 1) * WordBytes)) \in Nat
         /\ LittleEndian(SubSeq(s, i * WordBytes + 1, (i + 1) * WordBytes)) < Word
<1> DEFINE m == i * WordBytes + 1
           n == (i + 1) * WordBytes
<1>1. m \in Int /\ n \in Int /\ m <= n /\ n - m + 1 = WordBytes /\ m >= 1 /\ n <= Len(s)
  BY Sizes
<1> HIDE DEF m, n
<1>2. \A k \in m .. n : s[k] \in Byte
  BY <1>1, ElementOfSeq, LenProperties
<1>3. SubSeq(s, m, n) \in Seq(Byte) /\ Len(SubSeq(s, m, n)) = WordBytes
  BY <1>1, <1>2, SubSeqProperties
<1>4. LittleEndian(SubSeq(s, m, n)) \in Nat /\ LittleEndian(SubSeq(s, m, n)) < Word
  <2>1. WordBytes <= WordBytes
    BY Sizes
  <2> QED
    BY <1>3, <2>1, LittleEndianBound DEF Word
<1> QED
  BY <1>4 DEF m, n

LEMMA HeaderKeeps ==
  ASSUME LoadInv, NEW c \in Byte, BootHeader(c),
         rx' \in Seq(Byte), left' \in Seq(Byte), file' \in Files
  PROVE  LoadInv'
<1> DEFINE all == Append(buf, c)
           word(i) == LittleEndian(SubSeq(all, i * WordBytes + 1, (i + 1) * WordBytes))
           p == [dst |-> word(0), len |-> word(1), entry |-> word(2),
                 expected_sum |-> word(3)]
<1>1. /\ pc = "header" /\ buf \in Seq(Byte) /\ Len(buf) \in Nat
      /\ all \in Seq(Byte) /\ Len(all) = Len(buf) + 1 /\ Len(buf) < 4 * WordBytes
      /\ hi \in {NoDigit, -1} \cup 0 .. 15
  BY AppendProperties, LenProperties DEF LoadInv, LoadTypes, Checked, BootHeader
<1>2. CASE Len(all) < 4 * WordBytes
  <2>1. buf' = all /\ UNCHANGED <<tx, pc, hi, pkt, ihex, target, mem>>
    BY <1>1, <1>2 DEF BootHeader
  <2> QED
    BY <1>1, <1>2, <2>1, CollectKeeps
<1>3. CASE Len(all) = 4 * WordBytes
  <2>1. \A i \in 0 .. 3 : word(i) \in Nat /\ word(i) < Word
    BY <1>1, <1>3, HeaderWord
  <2>2. p.dst \in Nat /\ p.dst < Word /\ p.len \in Nat /\ p.len < Word
    BY <2>1
  <2> HIDE DEF word
  <2>3. ~(Len(all) < 4 * WordBytes)
    BY <1>1, <1>3, Sizes
  <2>4. \/ report_error(17)
        \/ range_valid(p.dst, p.len) /\ p.len = 0 /\ Finish(p, <<>>)
        \/ /\ range_valid(p.dst, p.len) /\ p.len # 0
           /\ To("payload") /\ pkt' = p /\ UNCHANGED <<tx, ihex, target, mem>>
    BY <1>3, <2>3, Zenon DEF BootHeader, word
  <2> HIDE DEF p
  <2>5. CASE report_error(17)
    BY <2>5, ReportKeeps
  <2>6. CASE Finish(p, <<>>)
    BY <2>6, FinishKeeps
  <2>7. CASE /\ range_valid(p.dst, p.len) /\ p.len # 0
             /\ To("payload") /\ pkt' = p /\ UNCHANGED <<tx, ihex, target, mem>>
    <3>1. /\ buf' = <<>> /\ hi' = NoDigit /\ pc' = "payload" /\ ihex' = ihex /\ mem' = mem
          /\ pkt' = p
      BY <2>7 DEF To
    <3>2. buf' \in Seq(Byte) /\ Len(buf') = 0
      BY <3>1, EmptySeq
    <3>3. Len(buf') < pkt'.len
      BY <2>2, <2>7, <3>1, <3>2
    <3>4. range_valid(pkt'.dst, pkt'.len) /\ Power' = Power /\ Word' = Word
      BY <2>7, <3>1
    <3>5. Checked'
      BY <2>2, <3>1, <3>3, <3>4 DEF Checked, LoadInv
    <3> QED
      BY <3>1, <3>2, <3>5 DEF LoadInv, LoadTypes, LoadableOnly
  <2> QED
    BY <2>4, <2>5, <2>6, <2>7
<1> QED
  BY <1>1, <1>2, <1>3, Sizes

LEMMA PayloadKeeps ==
  ASSUME LoadInv, NEW c \in Byte, BootPayload(c),
         rx' \in Seq(Byte), left' \in Seq(Byte), file' \in Files
  PROVE  LoadInv'
<1>1. /\ pc = "payload" /\ buf \in Seq(Byte) /\ Len(buf) \in Nat /\ Len(buf) < pkt.len
      /\ pkt.dst \in Nat /\ pkt.dst < Word /\ pkt.len \in Nat /\ pkt.len < Word
      /\ range_valid(pkt.dst, pkt.len)
  BY LenProperties DEF BootPayload, LoadInv, LoadTypes, Checked
<1>2. /\ mem' = Stored(pkt.dst + Len(buf), <<c>>) /\ buf' = Append(buf, c)
      /\ pc' = IF Len(buf) + 1 = pkt.len THEN "sum" ELSE "payload"
      /\ hi' = hi /\ pkt' = pkt /\ ihex' = ihex
  BY <1>1 DEF BootPayload
<1>3. buf' \in Seq(Byte) /\ Len(buf') = Len(buf) + 1
  BY <1>1, <1>2, AppendProperties
<1>4. DOMAIN mem' \subseteq {(pkt.dst + Len(buf)) % Word} \cup DOMAIN mem
  <2>1. DOMAIN <<c>> = {1}
    BY SMT
  <2> DEFINE A == pkt.dst + Len(buf)
  <2>2. A \in Int /\ A + 1 - 1 = A
    BY <1>1
  <2>3. mem' = Stored(A, <<c>>)
    BY <1>2
  <2> HIDE DEF A
  <2>4. DOMAIN mem' = {(A + i - 1) % Word : i \in DOMAIN <<c>>} \cup DOMAIN mem
    BY <2>3, StoredDomain
  <2>5. {(A + i - 1) % Word : i \in DOMAIN <<c>>} = {A % Word}
    BY <2>1, <2>2
  <2> QED
    BY <2>4, <2>5 DEF A
<1>5. (pkt.dst + Len(buf)) % Word \in Loadable
  <2>1. Len(buf) \in 0 .. pkt.len - 1
    BY <1>1
  <2> QED
    BY <1>1, <2>1, ValidRange
<1>6. LoadableOnly'
  BY <1>4, <1>5 DEF LoadInv, LoadableOnly, Loadable
<1>7. Checked'
  BY <1>1, <1>2, <1>3 DEF Checked, LoadInv
<1> QED
  BY <1>2, <1>3, <1>6, <1>7 DEF LoadInv, LoadTypes

LEMMA ColonKeeps ==
  ASSUME LoadInv, NEW c \in Byte, BootColon(c),
         rx' \in Seq(Byte), left' \in Seq(Byte), file' \in Files
  PROVE  LoadInv'
<1>1. CASE UNCHANGED <<tx, pc, locals, target, mem>>
  BY <1>1, Waits
<1>2. CASE To("hex") /\ UNCHANGED <<tx, pkt, ihex, target, mem>>
  BY <1>2, ToKeeps
<1>3. CASE report_error(32)
  BY <1>3, ReportKeeps
<1> QED
  BY <1>1, <1>2, <1>3 DEF BootColon

\* Length, address and type, data, checksum.
Complete(r) == Len(r) >= 1 /\ Len(r) = HalfBytes + 3 + r[1]

LEMMA RecordParts ==
  ASSUME LoadInv, NEW r \in Seq(Byte), Complete(r)
  PROVE  /\ r[1] \in Byte
         /\ RecordAddr(r) \in Nat /\ RecordAddr(r) < Word
         /\ RecordData(r) \in Seq(Byte) /\ Len(RecordData(r)) = r[1]
<1>1. /\ Len(r) \in Nat /\ DOMAIN r = 1 .. Len(r)
      /\ \A i \in 1 .. Len(r) : r[i] \in Byte
      /\ Len(r) >= 1 /\ Len(r) = HalfBytes + 3 + r[1]
  BY LenProperties, ElementOfSeq DEF Complete
<1>2. r[1] \in Byte
  BY <1>1
<1>3. BigEndian(SubSeq(r, 2, HalfBytes + 1)) \in Nat
      /\ BigEndian(SubSeq(r, 2, HalfBytes + 1)) < Power[HalfBytes]
  <2>1. /\ 2 \in Int /\ HalfBytes + 1 \in Int
        /\ \A i \in 2 .. HalfBytes + 1 : r[i] \in Byte
    <3>1. r[1] >= 0 /\ r[1] \in Int
      BY <1>2, ByteBounds, Zenon
    <3>2. \A i \in 2 .. HalfBytes + 1 : i \in 1 .. Len(r)
      BY <1>1, <3>1, Sizes
    <3> QED
      BY <1>1, <3>2, Sizes
  <2>2. SubSeq(r, 2, HalfBytes + 1) \in Seq(Byte)
        /\ Len(SubSeq(r, 2, HalfBytes + 1)) = HalfBytes
    BY <2>1, SubSeqProperties, Sizes
  <2>3. HalfBytes <= WordBytes
    BY Sizes
  <2> QED
    BY <2>2, <2>3, BigEndianBound
<1>4. RecordAddr(r) \in Nat /\ RecordAddr(r) < Word
  <2> DEFINE h == Power[HalfBytes]
             u == ihex.upper
             x == BigEndian(SubSeq(r, 2, HalfBytes + 1))
  <2>1. u \in Nat /\ u <= (h - 1) * h /\ x \in Nat /\ x < h /\ Word = h * h
    BY <1>3, ProductOfHalves DEF LoadInv, LoadTypes, Checked, Streams
  <2>2. h \in Nat
    BY Powers, Sizes
  <2>3. RecordAddr(r) = u + x
    BY DEF RecordAddr
  <2> HIDE DEF h, u, x
  <2>4. (h - 1) * h = h * h - h /\ h * h \in Int
    BY <2>2
  <2> QED
    BY <2>1, <2>2, <2>3, <2>4
<1>5. RecordData(r) \in Seq(Byte) /\ Len(RecordData(r)) = r[1]
  <2> DEFINE m == HalfBytes + 3
             n == HalfBytes + 2 + r[1]
  <2>1. /\ m \in Int /\ n \in Int /\ \A i \in m .. n : r[i] \in Byte
        /\ (IF m <= n THEN n - m + 1 ELSE 0) = r[1]
    <3>1. r[1] >= 0 /\ r[1] \in Int
      BY <1>2, ByteBounds, Zenon
    <3>2. m \in Int /\ n \in Int /\ (IF m <= n THEN n - m + 1 ELSE 0) = r[1]
      BY <3>1, Sizes
    <3>3. \A i \in m .. n : i \in 1 .. Len(r)
      BY <1>1, <3>1, Sizes
    <3> HIDE DEF m, n
    <3> QED
      BY <1>1, <3>2, <3>3
  <2> HIDE DEF m, n
  <2>2. SubSeq(r, m, n) \in Seq(Byte) /\ Len(SubSeq(r, m, n)) = r[1]
    BY <2>1, SubSeqProperties
  <2> QED
    BY <2>2 DEF m, n, RecordData
<1> QED
  BY <1>2, <1>4, <1>5

\* What the records but the last change of the locals.
LEMMA RecordsOK ==
  ASSUME LoadInv, NEW r \in Seq(Byte), Complete(r), RecordError(r) = 0
  PROVE  Records(r) \in Streams
         /\ Records(r).upper <= (Power[HalfBytes] - 1) * Power[HalfBytes]
<1>1. ihex \in Streams /\ ihex.upper <= (Power[HalfBytes] - 1) * Power[HalfBytes]
  BY DEF LoadInv, LoadTypes, Checked
<1>2. RecordAddr(r) \in Nat /\ RecordData(r) \in Seq(Byte) /\ Len(RecordData(r)) = r[1]
  BY RecordParts
<1>3. CASE RecordType(r) = 0
  <2>1. Records(r) = [ihex EXCEPT !.first_data_seen = TRUE,
                                  !.first_addr = IF ihex.first_data_seen THEN @
                                                 ELSE RecordAddr(r)]
    BY <1>3 DEF Records
  <2> QED
    BY <1>1, <1>2, <2>1 DEF Streams
<1>4. CASE RecordType(r) = 4
  <2> DEFINE x == BigEndian(RecordData(r))
             h == Power[HalfBytes]
  <2>1. r[1] = HalfBytes
    BY <1>4 DEF RecordError
  <2>2. x \in Nat /\ x < h /\ h \in Nat
    BY <1>2, <2>1, BigEndianBound, Powers, Sizes
  <2>3. Records(r) = [ihex EXCEPT !.upper = x * h]
    BY <1>4 DEF Records
  <2> HIDE DEF x, h
  <2>4. x * h \in Nat /\ x * h <= (h - 1) * h
    <3>1. \A a, b \in Nat : a * b \in Nat
      OBVIOUS
    <3>2. x \in Nat /\ (h - 1) - x \in Nat /\ h \in Nat
      BY <2>2
    <3>3. x * h \in Nat /\ ((h - 1) - x) * h \in Nat
      BY <3>1, <3>2
    <3>4. ((h - 1) - x) * h = (h - 1) * h - x * h
      BY <2>2
    <3>5. (h - 1) * h \in Int
      BY <2>2
    <3> QED
      BY <3>3, <3>4, <3>5
  <2>5. Records(r) \in Streams /\ Records(r).upper = x * h
    BY <1>1, <2>3, <2>4 DEF Streams
  <2> QED
    BY <2>4, <2>5 DEF h
<1>5. CASE RecordType(r) = 5
  <2>1. Len(RecordData(r)) = WordBytes
    BY <1>2, <1>5 DEF RecordError
  <2>2. BigEndian(RecordData(r)) \in Nat
    BY <1>2, <2>1, BigEndianBound, Sizes
  <2>3. Records(r) = [ihex EXCEPT !.entry = BigEndian(RecordData(r)), !.entry_seen = TRUE]
    BY <1>5 DEF Records
  <2> QED
    BY <1>1, <2>2, <2>3 DEF Streams
<1>6. CASE RecordType(r) \notin {0, 4, 5}
  <2>1. Records(r) = ihex
    BY <1>6 DEF Records
  <2> QED
    BY <1>1, <2>1
<1> QED
  BY <1>3, <1>4, <1>5, <1>6

LEMMA RecordKeeps ==
  ASSUME LoadInv, NEW r \in Seq(Byte), Complete(r), Record(r),
         rx' \in Seq(Byte), left' \in Seq(Byte), file' \in Files
  PROVE  LoadInv'
<1>1. CASE report_error(RecordError(r))
  BY <1>1, ReportKeeps
<1>2. CASE jump_to("OK", EntryAddr) /\ mem' = mem
  BY <1>2, JumpKeeps
<1>3. CASE /\ RecordError(r) = 0 /\ RecordType(r) # 1
           /\ mem' = IF RecordType(r) = 0 THEN Stored(RecordAddr(r), RecordData(r)) ELSE mem
           /\ ihex' = Records(r)
           /\ To("colon") /\ UNCHANGED <<tx, pkt, target>>
  <2>1. LoadableOnly'
    <3>1. CASE RecordType(r) # 0
      BY <1>3, <3>1 DEF LoadInv, LoadableOnly
    <3>2. CASE RecordType(r) = 0
      <4> DEFINE A == RecordAddr(r)
                 D == RecordData(r)
      <4>1. range_valid(A, r[1])
        BY <1>3, <3>2 DEF RecordError
      <4>2. /\ A \in Nat /\ A < Word /\ D \in Seq(Byte) /\ Len(D) = r[1] /\ r[1] \in Byte
            /\ DOMAIN D = 1 .. r[1]
        BY RecordParts, LenProperties
      <4>3. r[1] \in Nat /\ r[1] < Word
        <5>1. r[1] \in Int /\ 0 <= r[1] /\ r[1] <= 255
          BY <4>2, ByteBounds, Zenon
        <5> QED
          BY <5>1, WordSize
      <4>4. mem' = Stored(A, D)
        BY <1>3, <3>2
      <4> HIDE DEF A, D
      <4>5. DOMAIN mem' = {(A + i - 1) % Word : i \in 1 .. r[1]} \cup DOMAIN mem
        BY <4>2, <4>4, StoredDomain
      <4>6. ASSUME NEW i \in 1 .. r[1]
            PROVE  (A + i - 1) % Word \in Loadable
        <5>1. i - 1 \in 0 .. r[1] - 1 /\ A + i - 1 = A + (i - 1)
          BY <4>2, <4>3
        <5> QED
          BY <4>1, <4>2, <4>3, <5>1, ValidRange
      <4> QED
        BY <4>5, <4>6 DEF LoadInv, LoadableOnly, Loadable
    <3> QED
      BY <3>1, <3>2
  <2>2. /\ buf' = <<>> /\ hi' = NoDigit /\ pc' = "colon"
        /\ ihex' \in Streams /\ ihex'.upper <= (Power[HalfBytes] - 1) * Power[HalfBytes]
    BY <1>3, RecordsOK DEF To
  <2> QED
    BY <2>1, <2>2, Rests
<1> QED
  BY <1>1, <1>2, <1>3 DEF Record

LEMMA HexKeeps ==
  ASSUME LoadInv, NEW c \in Byte, BootHex(c),
         rx' \in Seq(Byte), left' \in Seq(Byte), file' \in Files
  PROVE  LoadInv'
<1> DEFINE lo == hex_nibble(c)
           all == Append(buf, 16 * hi + lo)
<1>1. pc = "hex" /\ hi \in {NoDigit, -1} \cup 0 .. 15 /\ buf \in Seq(Byte)
  BY DEF BootHex, LoadInv, LoadTypes
<1>2. lo \in {-1} \cup 0 .. 15
  BY DEF hex_nibble, Byte
<1>3. CASE hi' = lo /\ UNCHANGED <<tx, pc, buf, pkt, ihex, target, mem>>
  <2>1. hi' \in {NoDigit, -1} \cup 0 .. 15
    BY <1>2, <1>3
  <2> HIDE DEF lo
  <2> QED
    BY <1>1, <1>3, <2>1 DEF LoadInv, LoadTypes, Checked, LoadableOnly
<1>4. CASE report_error(DigitError(Len(buf) + 1))
  BY <1>4, ReportKeeps
<1>5. CASE /\ hi >= 0 /\ lo >= 0
           /\ IF Len(all) = HalfBytes + 3 + all[1] THEN Record(all)
              ELSE /\ buf' = all /\ hi' = NoDigit
                   /\ UNCHANGED <<tx, pc, pkt, ihex, target, mem>>
  <2>1. 16 * hi + lo \in Byte
    <3>1. hi \in 0 .. 15
      BY <1>1, <1>5 DEF NoDigit
    <3>2. lo \in 0 .. 15
      BY <1>2, <1>5
    <3> HIDE DEF lo
    <3> QED
      BY <3>1, <3>2 DEF Byte
  <2>2. all \in Seq(Byte)
    BY <1>1, <2>1, AppendProperties
  <2>3. CASE Len(all) = HalfBytes + 3 + all[1] /\ Record(all)
    <3>1. Len(all) >= 1
      BY <1>1, <2>1, AppendProperties, LenProperties
    <3> HIDE DEF all
    <3> QED
      BY <2>2, <2>3, <3>1, RecordKeeps DEF Complete
  <2>4. CASE buf' = all /\ hi' = NoDigit /\ UNCHANGED <<tx, pc, pkt, ihex, target, mem>>
    <3> HIDE DEF lo
    <3> QED
      BY <1>1, <2>1, <2>4, CollectKeeps, NoDigits
  <2> QED
    BY <1>5, <2>3, <2>4
<1> QED
  BY <1>1, <1>3, <1>4, <1>5, Zenon DEF BootHex

LEMMA BoardStep == LoadInv /\ Board => LoadInv'
<1> SUFFICES ASSUME LoadInv, Board PROVE LoadInv'
  OBVIOUS
<1>1. /\ rx \in Seq(Byte) /\ left \in Seq(Byte) /\ file \in Files
      /\ left' = left /\ file' = file
  BY DEF LoadInv, LoadTypes, Board, loadVars
<1>2. CASE BootStart
  <2>1. rx' \in Seq(Byte)
    BY <1>2, EmptySeq DEF BootStart
  <2>2. To("main") /\ ihex' = ihex /\ mem' = mem
    BY <1>2 DEF BootStart
  <2> QED
    BY <1>1, <2>1, <2>2, ToKeeps
<1>3. CASE BootPrinted \/ BootJump
  <2>1. rx' = rx /\ (To("main") \/ To("firmware")) /\ ihex' = ihex /\ mem' = mem
    BY <1>3 DEF BootPrinted, BootJump
  <2> QED
    BY <1>1, <2>1, ToKeeps
<1>4. CASE BootSum
  <2>1. rx' = rx /\ Finish(pkt, buf)
    BY <1>4 DEF BootSum
  <2> QED
    BY <1>1, <2>1, FinishKeeps
<1>5. CASE BootByte
  <2> DEFINE c == Head(rx)
  <2>1. rx # <<>> /\ rx' = Tail(rx)
        /\ (BootMain(c) \/ BootMagic(c) \/ BootHeader(c) \/ BootPayload(c)
               \/ BootColon(c) \/ BootHex(c))
    BY <1>5 DEF BootByte
  <2>2. c \in Byte /\ rx' \in Seq(Byte)
    BY <1>1, <2>1, HeadTailProperties
  <2> HIDE DEF c
  <2> QED
    BY <1>1, <2>1, <2>2, MainKeeps, MagicKeeps, HeaderKeeps, PayloadKeeps, ColonKeeps,
       HexKeeps
<1>6. CASE FirmwareReads
  <2>1. rx' \in Seq(Byte) /\ UNCHANGED <<pc, locals, mem>>
    BY <1>1, <1>6, HeadTailProperties DEF FirmwareReads
  <2> QED
    BY <1>1, <2>1, Waits
<1> QED
  BY <1>2, <1>3, <1>4, <1>5, <1>6 DEF Board, BootNext

-----------------------------------------------------------------------------
(* The loader, the line and the user *)

LEMMA ArrivesKeeps ==
  ASSUME LoadInv, NEW c \in Byte, Arrives(c)
  PROVE  rx' \in Seq(Byte) /\ UNCHANGED <<pc, locals, mem>>
BY AppendProperties DEF Arrives, LoadInv, LoadTypes

\* What a step of the loader does to the board and to what it still has to send.
LEMMA LoaderMoves ==
  ASSUME LoadInv, Loader \/ LoaderStart \/ LineLoses \/ LineGarbles \/ UserStops
  PROVE  /\ rx' \in Seq(Byte) /\ UNCHANGED <<pc, locals, mem>>
         /\ left' \in Seq(Byte) /\ file' = file
<1>1. /\ rx \in Seq(Byte) /\ left \in Seq(Byte) /\ file \in Files
      /\ <<>> \in Seq(Byte) /\ Question \in Byte /\ file.data \in Seq(Byte)
  BY EmptySeq, FilesAssumption DEF LoadInv, LoadTypes, Question, Byte
<1>2. left # <<>> => Head(left) \in Byte /\ Tail(left) \in Seq(Byte)
  BY <1>1, HeadTailProperties
<1>3. CASE LoaderReads \/ LoaderReady
  BY <1>1, <1>3 DEF LoaderReads, LoaderReady, Reads, Goto
<1>4. CASE LoaderProbe
  <2>1. Arrives(Question) /\ left' = left /\ file' = file
    BY <1>4 DEF LoaderProbe, Goto
  <2> QED
    BY <1>1, <2>1, ArrivesKeeps
<1>5. CASE LoaderSend
  <2>1. /\ left # <<>> /\ left' = Tail(left) /\ file' = file
        /\ Arrives(Head(left)) \/ Overrun
    BY <1>5 DEF LoaderSend
  <2>2. CASE Arrives(Head(left))
    BY <1>2, <2>1, <2>2, ArrivesKeeps
  <2>3. CASE Overrun
    BY <1>1, <1>2, <2>1, <2>3 DEF Overrun, bootVars
  <2> QED
    BY <2>1, <2>2, <2>3
<1>6. CASE LoaderFlush
  BY <1>1, <1>6 DEF LoaderFlush, Goto, bootVars
<1>7. CASE LoaderNoAnswer \/ LoaderGivesUp
  BY <1>1, <1>7 DEF LoaderNoAnswer, LoaderGivesUp, Exit, bootVars
<1>8. CASE LoaderAnswered
  BY <1>1, <1>8 DEF LoaderAnswered, Reads, Exit
<1>9. CASE LoaderStart
  BY <1>1, <1>9 DEF LoaderStart
<1>10. CASE LineLoses
  BY <1>1, <1>2, <1>10 DEF LineLoses, bootVars
<1>11. CASE LineGarbles
  <2> DEFINE c == Head(left)
             d == IF c % 2 = 0 THEN c + 1 ELSE c - 1
  <2>1. left # <<>> /\ left' = Tail(left) /\ file' = file /\ Arrives(d)
    BY <1>11 DEF LineGarbles
  <2>2. c \in Byte
    BY <1>2, <2>1
  <2> HIDE DEF c
  <2>3. d \in Byte
    BY <2>2 DEF Byte
  <2> HIDE DEF d
  <2> QED
    BY <1>2, <2>1, <2>3, ArrivesKeeps
<1>12. CASE UserStops
  BY <1>1, <1>12 DEF UserStops, bootVars
<1> QED
  BY <1>3, <1>4, <1>5, <1>6, <1>7, <1>8, <1>9, <1>10, <1>11, <1>12 DEF Loader

LEMMA ResetStep == LoadInv /\ Reset => LoadInv'
<1> SUFFICES ASSUME LoadInv, Reset PROVE LoadInv'
  OBVIOUS
<1>1. /\ rx' = <<>> /\ left' = left /\ file' = file /\ buf' = <<>> /\ hi' = NoDigit
      /\ pc' = "start" /\ ihex' = NoStream /\ mem' = mem
  BY DEF Reset
<1>2. ihex' \in Streams /\ ihex'.upper = 0 /\ rx' \in Seq(Byte)
  BY <1>1, EmptySeq DEF NoStream, Streams
<1>3. LoadableOnly' /\ left \in Seq(Byte) /\ file \in Files
  BY <1>1 DEF LoadInv, LoadTypes, LoadableOnly
<1> QED
  BY <1>1, <1>2, <1>3, NoUpper, Rests

LEMMA LoadInvStep == LoadInv /\ [Next]_vars => LoadInv'
<1>1. LoadInv /\ (Loader \/ LoaderStart \/ LineLoses \/ LineGarbles \/ UserStops) => LoadInv'
  BY LoaderMoves, Waits DEF LoadInv, LoadTypes
<1>2. LoadInv /\ UNCHANGED vars => LoadInv'
  BY DEF LoadInv, LoadTypes, Checked, LoadableOnly, vars, bootVars, loadVars, locals
<1> QED
  BY <1>1, <1>2, BoardStep, ResetStep DEF Next

\* Only IMEM behind the loader and SRAM are ever written (main.c:81, 91), whatever
\* arrives: headers that lost a byte, garbled records, a probe that becomes payload,
\* and addresses at which the end of a range wraps around.
THEOREM OnlyLoadableWritten == Spec => []LoadableOnly
<1>1. LoadInv => LoadableOnly
  BY DEF LoadInv
<1> QED
  BY <1>1, LoadInvInit, LoadInvStep, PTL DEF Spec
=============================================================================
