--------------------------- MODULE Checksum_proofs ---------------------------
(***************************************************************************)
(* For every frame, of any length and content: the program's byte-wise     *)
(* checksum is the one the sender computes bit by bit, and damage to two   *)
(* neighbouring bytes, or to the checksum, is never missed, unless it made *)
(* of the message id another known one with another byte of its own.       *)
(***************************************************************************)
EXTENDS Checksum, TLAPS

-----------------------------------------------------------------------------
(* Bits *)

LEMMA XorBits ==
  ASSUME NEW a, NEW b, NEW k
  PROVE  k \in Xor(a, b) <=> ~(k \in a <=> k \in b)
BY DEF Xor

LEMMA ShiftBits ==
  ASSUME NEW w \in Nat, NEW a, NEW n \in Int, NEW k \in 0..(w - 1)
  PROVE  k \in Shift(w, a, n) <=> k - n \in a
BY DEF Shift

LEMMA XorClosed ==
  ASSUME NEW a, NEW b
  PROVE  /\ a \in Byte /\ b \in Byte => Xor(a, b) \in Byte
         /\ a \in Word /\ b \in Word => Xor(a, b) \in Word
<1>1. ASSUME a \in Byte, b \in Byte PROVE Xor(a, b) \in Byte
  BY <1>1 DEF Xor, Byte
<1>2. ASSUME a \in Word, b \in Word PROVE Xor(a, b) \in Word
  BY <1>2 DEF Xor, Word
<1> QED
  BY <1>1, <1>2

LEMMA SameBits ==
  ASSUME NEW a \in Word, NEW b \in Word, \A k \in 0..15 : k \in a <=> k \in b
  PROVE  a = b
BY DEF Word

LEMMA ShiftClosed ==
  ASSUME NEW a, NEW n
  PROVE  Shift(16, a, n) \in Word /\ Shift(8, a, n) \in Byte
BY DEF Shift, Word, Byte

LEMMA FoldedBits ==
  ASSUME NEW t \in Byte
  PROVE  /\ Folded(t) \in Byte
         /\ \A k \in 0..3 : k \in Folded(t) <=> k \in t
         /\ \A k \in 4..7 : k \in Folded(t) <=> ~(k \in t <=> k - 4 \in t)
<1>1. Shift(8, t, 4) \in Byte
  BY DEF Shift, Byte
<1>2. \A k \in 0..7 : k \in Shift(8, t, 4) <=> k - 4 \in t
  BY DEF Shift
<1>3. \A k \in 0..3 : k - 4 \notin t
  BY DEF Byte
<1>4. Folded(t) \in Byte
  BY <1>1 DEF Folded, Xor, Byte
<1>5. \A k \in 0..7 : k \in Folded(t) <=> ~(k \in t <=> k \in Shift(8, t, 4))
  BY XorBits DEF Folded
<1> QED
  BY <1>2, <1>3, <1>4, <1>5

(* The bits of the register after a byte: its high byte moves down, and the *)
(* folded byte is added to it in three places.                             *)
LEMMA AccumulatedBits ==
  ASSUME NEW b \in Byte, NEW r \in Word, NEW u, u = Folded(Xor(b, r \cap 0..7))
  PROVE  /\ u \in Byte
         /\ crc_accumulate(b, r) \in Word
         /\ \A k \in 0..15 :
              k \in crc_accumulate(b, r) <=>
                ~(~(k + 8 \in r <=> k - 8 \in u) <=> ~(k - 3 \in u <=> k + 4 \in u))
<1>1. Xor(b, r \cap 0..7) \in Byte
  BY DEF Xor, Byte
<1>2. u \in Byte
  BY <1>1, FoldedBits
<1>3. /\ Shift(16, r, -8) \in Word /\ Shift(16, u, 8) \in Word
      /\ Shift(16, u, 3) \in Word /\ Shift(16, u, -4) \in Word
  BY DEF Shift, Word
<1>4. crc_accumulate(b, r) =
        Xor(Xor(Shift(16, r, -8), Shift(16, u, 8)),
            Xor(Shift(16, u, 3), Shift(16, u, -4)))
  BY DEF crc_accumulate
<1>5. crc_accumulate(b, r) \in Word
  BY <1>3, <1>4, XorClosed
<1>6. ASSUME NEW k \in 0..15
      PROVE  k \in crc_accumulate(b, r) <=>
               ~(~(k + 8 \in r <=> k - 8 \in u) <=> ~(k - 3 \in u <=> k + 4 \in u))
  <2>1. /\ k \in Shift(16, r, -8) <=> k + 8 \in r
        /\ k \in Shift(16, u, 8) <=> k - 8 \in u
        /\ k \in Shift(16, u, 3) <=> k - 3 \in u
        /\ k \in Shift(16, u, -4) <=> k + 4 \in u
    BY DEF Shift
  <2>2. k \in Xor(Shift(16, r, -8), Shift(16, u, 8))
          <=> ~(k \in Shift(16, r, -8) <=> k \in Shift(16, u, 8))
    BY XorBits
  <2>3. k \in Xor(Shift(16, u, 3), Shift(16, u, -4))
          <=> ~(k \in Shift(16, u, 3) <=> k \in Shift(16, u, -4))
    BY XorBits
  <2>4. k \in crc_accumulate(b, r) <=>
          ~(k \in Xor(Shift(16, r, -8), Shift(16, u, 8))
              <=> k \in Xor(Shift(16, u, 3), Shift(16, u, -4)))
    BY <1>4, XorBits
  <2> QED
    BY <2>1, <2>2, <2>3, <2>4
<1> QED
  BY <1>2, <1>5, <1>6

LEMMA AccumulatedWord ==
  ASSUME NEW b \in Byte, NEW r \in Word
  PROVE  crc_accumulate(b, r) \in Word
<1> DEFINE u == Folded(Xor(b, r \cap 0..7))
<1>1. u = Folded(Xor(b, r \cap 0..7))
  OBVIOUS
<1> HIDE DEF u
<1> QED
  BY <1>1, AccumulatedBits

(* The high byte of the result tells which byte was added to the register.  *)
LEMMA HighByteTells ==
  ASSUME NEW b \in Byte, NEW c \in Byte, NEW r \in Word, NEW q \in Word,
         \A k \in 8..15 : k \in crc_accumulate(b, r) <=> k \in crc_accumulate(c, q)
  PROVE  Xor(b, r \cap 0..7) = Xor(c, q \cap 0..7)
<1> DEFINE t == Xor(b, r \cap 0..7)
           s == Xor(c, q \cap 0..7)
           u == Folded(t)
           v == Folded(s)
<1>1. t \in Byte /\ s \in Byte
  BY XorClosed DEF Byte
<1>2. /\ u \in Byte /\ v \in Byte
      /\ \A k \in 0..15 :
           k \in crc_accumulate(b, r) <=>
             ~(~(k + 8 \in r <=> k - 8 \in u) <=> ~(k - 3 \in u <=> k + 4 \in u))
      /\ \A k \in 0..15 :
           k \in crc_accumulate(c, q) <=>
             ~(~(k + 8 \in q <=> k - 8 \in v) <=> ~(k - 3 \in v <=> k + 4 \in v))
  BY AccumulatedBits
<1>3. /\ \A k \in 0..3 : k \in u <=> k \in t
      /\ \A k \in 4..7 : k \in u <=> ~(k \in t <=> k - 4 \in t)
      /\ \A k \in 0..3 : k \in v <=> k \in s
      /\ \A k \in 4..7 : k \in v <=> ~(k \in s <=> k - 4 \in s)
  BY <1>1, FoldedBits
<1> HIDE DEF t, s, u, v
<1>4. ASSUME NEW k \in 8..15
      PROVE  ~(k - 8 \in u <=> k - 3 \in u) <=> ~(k - 8 \in v <=> k - 3 \in v)
  <2>1. k + 8 \notin r /\ k + 8 \notin q
    BY DEF Word
  <2>2. k + 4 \notin u /\ k + 4 \notin v
    BY <1>2 DEF Byte
  <2> QED
    BY <1>2, <2>1, <2>2
<1>5. \A k \in 3..7 : k \in u <=> k \in v
  <2> SUFFICES ASSUME NEW k \in 3..7 PROVE k \in u <=> k \in v
    OBVIOUS
  <2>1. k + 5 \notin u /\ k + 5 \notin v
    BY <1>2 DEF Byte
  <2>2. ~(k \in u <=> k + 5 \in u) <=> ~(k \in v <=> k + 5 \in v)
    <3>1. k + 8 \in 8..15 /\ (k + 8) - 8 = k /\ (k + 8) - 3 = k + 5
      OBVIOUS
    <3> QED
      BY <1>4, <3>1
  <2> QED
    BY <2>1, <2>2
<1>6. \A k \in 0..2 : k \in u <=> k \in v
  <2> SUFFICES ASSUME NEW k \in 0..2 PROVE k \in u <=> k \in v
    OBVIOUS
  <2>1. k + 5 \in u <=> k + 5 \in v
    BY <1>5
  <2>2. ~(k \in u <=> k + 5 \in u) <=> ~(k \in v <=> k + 5 \in v)
    <3>1. k + 8 \in 8..15 /\ (k + 8) - 8 = k /\ (k + 8) - 3 = k + 5
      OBVIOUS
    <3> QED
      BY <1>4, <3>1
  <2> QED
    BY <2>1, <2>2
<1>7. \A k \in 0..3 : k \in t <=> k \in s
  BY <1>3, <1>5, <1>6
<1>8. \A k \in 4..7 : k \in t <=> k \in s
  <2> SUFFICES ASSUME NEW k \in 4..7 PROVE k \in t <=> k \in s
    OBVIOUS
  <2>1. k - 4 \in t <=> k - 4 \in s
    BY <1>7
  <2> QED
    BY <1>3, <1>5, <2>1
<1>9. \A k \in 0..7 : k \in t <=> k \in s
  BY <1>7, <1>8
<1>10. t = s
  BY <1>1, <1>9 DEF Byte
<1> QED
  BY <1>10 DEF t, s

(* The register and the byte added to it, but for what the two share, can   *)
(* be told from the result.                                                *)
LEMMA ResultTells ==
  ASSUME NEW b \in Byte, NEW c \in Byte, NEW r \in Word, NEW q \in Word,
         crc_accumulate(b, r) = crc_accumulate(c, q)
  PROVE  /\ Xor(b, r \cap 0..7) = Xor(c, q \cap 0..7)
         /\ \A k \in 8..15 : k \in r <=> k \in q
<1>1. Xor(b, r \cap 0..7) = Xor(c, q \cap 0..7)
  BY HighByteTells
<1> DEFINE u == Folded(Xor(b, r \cap 0..7))
<1>2. /\ u \in Byte
      /\ \A k \in 0..15 :
           k \in crc_accumulate(b, r) <=>
             ~(~(k + 8 \in r <=> k - 8 \in u) <=> ~(k - 3 \in u <=> k + 4 \in u))
      /\ \A k \in 0..15 :
           k \in crc_accumulate(c, q) <=>
             ~(~(k + 8 \in q <=> k - 8 \in u) <=> ~(k - 3 \in u <=> k + 4 \in u))
  BY <1>1, AccumulatedBits
<1> HIDE DEF u
<1>3. ASSUME NEW k \in 0..7 PROVE k + 8 \in r <=> k + 8 \in q
  BY <1>2
<1>4. ASSUME NEW k \in 8..15 PROVE k \in r <=> k \in q
  <2>1. k - 8 \in 0..7 /\ (k - 8) + 8 = k
    OBVIOUS
  <2> QED
    BY <1>3, <2>1
<1> QED
  BY <1>1, <1>4

LEMMA XorCancels ==
  ASSUME NEW a, NEW b, NEW c
  PROVE  /\ Xor(a, b) = Xor(a, c) => b = c
         /\ Xor(b, a) = Xor(c, a) => b = c
         /\ Xor(a, b) = a <=> b = {}
<1>1. ASSUME Xor(a, b) = Xor(a, c) PROVE b = c
  BY <1>1 DEF Xor
<1>2. ASSUME Xor(b, a) = Xor(c, a) PROVE b = c
  BY <1>2 DEF Xor
<1>3. Xor(a, b) = a <=> b = {}
  BY DEF Xor
<1> QED
  BY <1>1, <1>2, <1>3

(* A byte that is the same keeps different registers different. *)
LEMMA SameByteKeepsDifference ==
  ASSUME NEW b \in Byte, NEW r \in Word, NEW q \in Word,
         crc_accumulate(b, r) = crc_accumulate(b, q)
  PROVE  r = q
<1>1. /\ Xor(b, r \cap 0..7) = Xor(b, q \cap 0..7)
      /\ \A k \in 8..15 : k \in r <=> k \in q
  BY ResultTells
<1>2. r \cap 0..7 = q \cap 0..7
  BY <1>1, XorCancels
<1>3. \A k \in 0..15 : k \in r <=> k \in q
  BY <1>1, <1>2
<1> QED
  BY <1>3, SameBits

-----------------------------------------------------------------------------
(* The sender's checksum *)

(* What is left of r0 after n of the eight divisions, where bit j of u says *)
(* whether the polynomial was subtracted in division j.                    *)
Divided(n, r0, u, r) ==
  \A k \in 0..15 :
    k \in r <=>
      ~(~(k + n \in r0 <=> k + n - 16 \in u)
          <=> ~((k <= 3 /\ k + n - 4 \in u) <=> (k <= 10 /\ k + n - 11 \in u)))

LEMMA DivideBits ==
  ASSUME NEW r \in Word
  PROVE  /\ Divide(r) \in Word
         /\ \A k \in 0..15 :
              k \in Divide(r) <=> ~(k + 1 \in r <=> (0 \in r /\ k \in {3, 10, 15}))
<1> DEFINE p == IF 0 \in r THEN {3, 10, 15} ELSE {}
<1>1. p \in Word
  BY DEF Word
<1>2. Divide(r) = Xor(Shift(16, r, -1), p)
  BY DEF Divide
<1>3. Divide(r) \in Word
  BY <1>1, <1>2, XorClosed, ShiftClosed
<1>4. ASSUME NEW k \in 0..15
      PROVE  k \in Divide(r) <=> ~(k + 1 \in r <=> (0 \in r /\ k \in {3, 10, 15}))
  <2>1. k \in Shift(16, r, -1) <=> k + 1 \in r
    BY DEF Shift
  <2>2. k \in Divide(r) <=> ~(k \in Shift(16, r, -1) <=> k \in p)
    BY <1>2, XorBits
  <2> QED
    BY <2>1, <2>2
<1> QED
  BY <1>3, <1>4

LEMMA DivisionStep ==
  ASSUME NEW n \in 0..7, NEW r0 \in Word, NEW r \in Word,
         NEW u, u = Folded(r0 \cap 0..7), Divided(n, r0, u, r)
  PROVE  Divide(r) \in Word /\ Divided(n + 1, r0, u, Divide(r))
<1>1. /\ u \in Byte
      /\ \A k \in 0..3 : k \in u <=> k \in r0
      /\ \A k \in 4..7 : k \in u <=> ~(k \in r0 <=> k - 4 \in r0)
  <2>1. r0 \cap 0..7 \in Byte
    BY DEF Byte
  <2> QED
    BY <2>1, FoldedBits
<1>2. 0 \in r <=> n \in u
  <2>1. 0 \in r <=> ~(~(n \in r0 <=> n - 16 \in u)
                        <=> ~(n - 4 \in u <=> n - 11 \in u))
    <3>1. 0 \in r <=>
            ~(~(0 + n \in r0 <=> 0 + n - 16 \in u)
                <=> ~((0 <= 3 /\ 0 + n - 4 \in u) <=> (0 <= 10 /\ 0 + n - 11 \in u)))
      BY DEF Divided
    <3>2. 0 + n = n /\ 0 <= 3 /\ 0 <= 10
      OBVIOUS
    <3> QED
      BY <3>1, <3>2
  <2>2. n - 16 \notin u /\ n - 11 \notin u
    <3>1. n - 16 \notin 0..7 /\ n - 11 \notin 0..7
      OBVIOUS
    <3> QED
      BY <1>1, <3>1 DEF Byte
  <2>3. CASE n <= 3
    <3>1. n - 4 \notin u
      BY <1>1, <2>3 DEF Byte
    <3> QED
      BY <1>1, <2>1, <2>2, <2>3, <3>1
  <2>4. CASE n >= 4
    BY <1>1, <2>1, <2>2, <2>4
  <2> QED
    BY <2>3, <2>4
<1>3. ASSUME NEW k \in 0..15
      PROVE  k \in Divide(r) <=>
               ~(~(k + (n + 1) \in r0 <=> k + (n + 1) - 16 \in u)
                   <=> ~((k <= 3 /\ k + (n + 1) - 4 \in u)
                           <=> (k <= 10 /\ k + (n + 1) - 11 \in u)))
  <2>1. k \in Divide(r) <=> ~(k + 1 \in r <=> (n \in u /\ k \in {3, 10, 15}))
    BY <1>2, DivideBits
  <2>2. CASE k <= 14
    <3>1. k + 1 \in r <=>
            ~(~((k + 1) + n \in r0 <=> (k + 1) + n - 16 \in u)
                <=> ~((k + 1 <= 3 /\ (k + 1) + n - 4 \in u)
                        <=> (k + 1 <= 10 /\ (k + 1) + n - 11 \in u)))
      BY <2>2 DEF Divided
    <3>2. /\ (k + 1) + n = k + (n + 1)
          /\ (k + 1) + n - 16 = k + (n + 1) - 16
          /\ (k + 1) + n - 4 = k + (n + 1) - 4
          /\ (k + 1) + n - 11 = k + (n + 1) - 11
          /\ k = 3 => k + (n + 1) - 4 = n
          /\ k = 10 => k + (n + 1) - 11 = n
      OBVIOUS
    <3>3. CASE k = 3
      BY <2>1, <3>1, <3>2, <3>3
    <3>4. CASE k = 10
      BY <2>1, <3>1, <3>2, <3>4
    <3>5. CASE k \notin {3, 10}
      BY <2>1, <2>2, <3>1, <3>2, <3>5
    <3> QED
      BY <3>3, <3>4, <3>5
  <2>3. CASE k = 15
    <3>1. k + 1 \notin r /\ k + (n + 1) \notin r0
      BY <2>3 DEF Word
    <3>2. k + (n + 1) - 16 = n
      BY <2>3
    <3> QED
      BY <2>1, <2>3, <3>1, <3>2
  <2> QED
    BY <2>2, <2>3
<1> QED
  BY <1>3, DivideBits DEF Divided

(* Eight divisions of the register with a byte added to it are one step of  *)
(* the byte-wise computation.                                              *)
LEMMA SameChecksum ==
  ASSUME NEW b \in Byte, NEW r \in Word
  PROVE  x25_accumulate(b, r) = crc_accumulate(b, r)
<1> DEFINE r0 == Xor(r, b)
           u == Folded(r0 \cap 0..7)
           r1 == Divide(r0)
           r2 == Divide(r1)
           r3 == Divide(r2)
           r4 == Divide(r3)
           r5 == Divide(r4)
           r6 == Divide(r5)
           r7 == Divide(r6)
           r8 == Divide(r7)
<1>1. r0 \in Word
  <2>1. b \in Word
    BY DEF Byte, Word
  <2> QED
    BY <2>1, XorClosed
<1>2. r0 \cap 0..7 = Xor(b, r \cap 0..7)
  BY DEF Xor, Byte
<1>3. u \in Byte /\ u = Folded(Xor(b, r \cap 0..7))
  <2>1. Xor(b, r \cap 0..7) \in Byte
    BY XorClosed DEF Byte
  <2> QED
    BY <1>2, <2>1, FoldedBits
<1>4. r8 = x25_accumulate(b, r)
  BY DEF x25_accumulate
<1> HIDE DEF r0, r1, r2, r3, r4, r5, r6, r7, r8, u
<1>5. Divided(0, r0, u, r0)
  <2> SUFFICES ASSUME NEW k \in 0..15
               PROVE  /\ k + 0 - 16 \notin u
                      /\ k <= 3 => k + 0 - 4 \notin u
                      /\ k <= 10 => k + 0 - 11 \notin u
                      /\ k + 0 = k
    BY DEF Divided
  <2> QED
    BY <1>3 DEF Byte
<1>6. r1 \in Word /\ Divided(1, r0, u, r1)
  BY <1>1, <1>5, DivisionStep DEF r1, u
<1>7. r2 \in Word /\ Divided(2, r0, u, r2)
  BY <1>1, <1>6, DivisionStep DEF r2, u
<1>8. r3 \in Word /\ Divided(3, r0, u, r3)
  BY <1>1, <1>7, DivisionStep DEF r3, u
<1>9. r4 \in Word /\ Divided(4, r0, u, r4)
  BY <1>1, <1>8, DivisionStep DEF r4, u
<1>10. r5 \in Word /\ Divided(5, r0, u, r5)
  BY <1>1, <1>9, DivisionStep DEF r5, u
<1>11. r6 \in Word /\ Divided(6, r0, u, r6)
  BY <1>1, <1>10, DivisionStep DEF r6, u
<1>12. r7 \in Word /\ Divided(7, r0, u, r7)
  BY <1>1, <1>11, DivisionStep DEF r7, u
<1>13. r8 \in Word /\ Divided(8, r0, u, r8)
  BY <1>1, <1>12, DivisionStep DEF r8, u
<1>14. /\ crc_accumulate(b, r) \in Word
       /\ \A k \in 0..15 :
            k \in crc_accumulate(b, r) <=>
              ~(~(k + 8 \in r <=> k - 8 \in u) <=> ~(k - 3 \in u <=> k + 4 \in u))
  BY <1>3, AccumulatedBits
<1>15. ASSUME NEW k \in 0..15
       PROVE  k \in r8 <=> k \in crc_accumulate(b, r)
  <2>1. k \in r8 <=>
          ~(~(k + 8 \in r0 <=> k + 8 - 16 \in u)
              <=> ~((k <= 3 /\ k + 8 - 4 \in u) <=> (k <= 10 /\ k + 8 - 11 \in u)))
    BY <1>13 DEF Divided
  <2>2. k + 8 \in r0 <=> k + 8 \in r
    BY DEF r0, Xor, Byte
  <2>3. /\ k + 8 - 16 = k - 8 /\ k + 8 - 4 = k + 4 /\ k + 8 - 11 = k - 3
        /\ k + 4 \in u => k <= 3
        /\ k - 3 \in u => k <= 10
    BY <1>3 DEF Byte
  <2> QED
    BY <1>14, <2>1, <2>2, <2>3
<1> QED
  BY <1>4, <1>13, <1>14, <1>15, SameBits

-----------------------------------------------------------------------------
(* The two registers *)

(* All damage to the bytes is in byte k and the one after it. *)
Confined(k) == \A j \in DOMAIN sent : j # k /\ j # k + 1 => damage[j] = {}

SameHighByte == \A k \in 8..15 : k \in crc <=> k \in sent_crc

(* The registers agree before the damage; a first damaged byte shows in the *)
(* high byte, which the second cannot undo; after the damage they differ.  *)
Tracks(k) ==
  /\ i <= k => crc = sent_crc
  /\ i = k + 1 =>
       IF damage[k] = {} THEN crc = sent_crc ELSE ~SameHighByte
  /\ i > k + 1 /\ (i <= Len(sent) + 1 \/ ~Misread) =>
       (crc = sent_crc <=> damage = Intact(sent))

ChecksumTypeOK ==
  /\ sent \in Frames
  /\ damage \in [DOMAIN sent -> Byte]
  /\ crc_damage \in Word
  /\ i \in 1..(Len(sent) + 2)
  /\ sent_crc \in Word /\ crc \in Word

IInv ==
  /\ ChecksumTypeOK
  /\ crc_damage = {} \/ damage = Intact(sent)
  /\ \E k \in 1..Len(sent) : Confined(k) /\ Tracks(k)
  /\ verdict = "unknown" => frame_msgid(Received) \notin Known
  /\ verdict \in {"valid", "invalid"} =>
       /\ i = Len(sent) + 2
       /\ verdict = "valid" <=> crc = Xor(sent_crc, crc_damage)

LEMMA BurstsConfined ==
  ASSUME NEW f \in Seq(Byte), Len(f) >= 1, NEW d \in Bursts(f)
  PROVE  /\ d \in [DOMAIN f -> Byte]
         /\ \E k \in 1..Len(f) : \A j \in DOMAIN f : j # k /\ j # k + 1 => d[j] = {}
<1>1. /\ Len(f) \in Nat /\ DOMAIN f = 1..Len(f)
      /\ Intact(f) \in [DOMAIN f -> Byte]
      /\ \A j \in DOMAIN f : Intact(f)[j] = {}
  BY DEF Intact, Byte
<1>2. CASE d = Intact(f)
  BY <1>1, <1>2
<1>3. ASSUME NEW k \in 2..Len(f), NEW b \in Flips, d = [Intact(f) EXCEPT ![k] = b]
      PROVE  /\ d \in [DOMAIN f -> Byte]
             /\ \E m \in 1..Len(f) : \A j \in DOMAIN f : j # m /\ j # m + 1 => d[j] = {}
  <2>1. k \in 1..Len(f)
    BY <1>1
  <2>2. \A j \in DOMAIN f : j # k => d[j] = {}
    BY <1>1, <1>3
  <2> QED
    BY <1>1, <1>3, <2>1, <2>2, ChecksumAssumption
<1>4. ASSUME NEW k \in 2..(Len(f) - 1), NEW b \in Flips \X Flips,
             d = [Intact(f) EXCEPT ![k] = b[1], ![k + 1] = b[2]]
      PROVE  /\ d \in [DOMAIN f -> Byte]
             /\ \E m \in 1..Len(f) : \A j \in DOMAIN f : j # m /\ j # m + 1 => d[j] = {}
  <2>1. k \in 1..Len(f) /\ k + 1 \in 1..Len(f)
    BY <1>1
  <2>2. \A j \in DOMAIN f : j # k /\ j # k + 1 => d[j] = {}
    BY <1>1, <1>4
  <2>3. b[1] \in Byte /\ b[2] \in Byte
    BY ChecksumAssumption
  <2>4. d \in [DOMAIN f -> Byte]
    BY <1>1, <1>4, <2>3
  <2> QED
    BY <2>1, <2>2, <2>4
<1> QED
  BY <1>2, <1>3, <1>4 DEF Bursts

LEMMA FramesLong ==
  ASSUME NEW f \in Frames
  PROVE  /\ f \in Seq(Byte) /\ Len(f) \in Nat /\ Len(f) >= 9
         /\ DOMAIN f = 1..Len(f)
BY ChecksumAssumption

LEMMA CrcBurstsAreWords == CrcBursts \subseteq Word
<1> SUFFICES ASSUME NEW b \in Flips \X Flips
             PROVE  Xor(b[1], Shift(16, b[2], 8)) \in Word
  BY DEF CrcBursts
<1>1. b[1] \in Word
  <2>1. b[1] \in Byte
    BY ChecksumAssumption
  <2>2. 0..7 \subseteq 0..15
    OBVIOUS
  <2> QED
    BY <2>1, <2>2 DEF Byte, Word
<1>2. Shift(16, b[2], 8) \in Word
  BY ShiftClosed
<1> QED
  BY <1>1, <1>2, XorClosed

LEMMA ChecksumInit == Init => IInv
<1> SUFFICES ASSUME Init PROVE IInv
  OBVIOUS
<1>1. sent \in Frames /\ sent \in Seq(Byte) /\ Len(sent) >= 1
      /\ DOMAIN sent = 1..Len(sent) /\ Len(sent) \in Nat
  BY FramesLong DEF Init
<1>2. damage \in Bursts(sent)
  BY DEF Init, Bursts
<1>3. PICK k \in 1..Len(sent) : Confined(k)
  BY <1>1, <1>2, BurstsConfined DEF Confined
<1>4. damage \in [DOMAIN sent -> Byte]
  BY <1>1, <1>2, BurstsConfined
<1>5. Tracks(k)
  BY <1>1 DEF Init, Tracks
<1>6. ChecksumTypeOK
  <2>1. crc_damage \in Word
    BY CrcBurstsAreWords DEF Init, Word
  <2>2. crc \in Word /\ sent_crc \in Word
    BY DEF Init, Word
  <2>3. i \in 1..(Len(sent) + 2)
    BY <1>1 DEF Init
  <2> QED
    BY <1>1, <1>4, <2>1, <2>2, <2>3 DEF ChecksumTypeOK
<1> QED
  BY <1>1, <1>3, <1>5, <1>6 DEF Init, IInv

(* Both registers after one more byte, which may be damaged *)
LEMMA BothAdvance ==
  ASSUME NEW b \in Byte, NEW d \in Byte, NEW r \in Word, NEW q \in Word
  PROVE  /\ crc_accumulate(Xor(b, d), r) \in Word
         /\ x25_accumulate(b, q) \in Word
         /\ crc_accumulate(Xor(b, d), r) = x25_accumulate(b, q) =>
              /\ d = {} => r = q
              /\ r = q => d = {}
              /\ \A k \in 8..15 : k \in r <=> k \in q
         /\ d = {} /\ r = q => crc_accumulate(Xor(b, d), r) = x25_accumulate(b, q)
         /\ r = q /\ d # {} =>
              ~ \A k \in 8..15 :
                  k \in crc_accumulate(Xor(b, d), r) <=> k \in x25_accumulate(b, q)
<1>1. Xor(b, d) \in Byte
  BY XorClosed
<1>2. x25_accumulate(b, q) = crc_accumulate(b, q)
  BY SameChecksum
<1>3. crc_accumulate(Xor(b, d), r) \in Word /\ crc_accumulate(b, q) \in Word
  BY <1>1, AccumulatedWord
<1>4. d = {} => Xor(b, d) = b
  BY XorCancels
<1>5. ASSUME r = q, d # {}
      PROVE  ~ \A k \in 8..15 :
                 k \in crc_accumulate(Xor(b, d), r) <=> k \in crc_accumulate(b, q)
  <2> SUFFICES ASSUME \A k \in 8..15 : k \in crc_accumulate(Xor(b, d), r)
                                        <=> k \in crc_accumulate(b, q)
               PROVE  FALSE
    OBVIOUS
  <2>1. Xor(Xor(b, d), r \cap 0..7) = Xor(b, q \cap 0..7)
    BY <1>1, HighByteTells
  <2>2. Xor(b, d) = b
    BY <1>5, <2>1, XorCancels
  <2> QED
    BY <1>5, <2>2, XorCancels
<1>6. ASSUME crc_accumulate(Xor(b, d), r) = crc_accumulate(b, q)
      PROVE  /\ d = {} => r = q
             /\ r = q => d = {}
             /\ \A k \in 8..15 : k \in r <=> k \in q
  <2>1. d = {} => r = q
    BY <1>4, <1>6, SameByteKeepsDifference
  <2>2. r = q => d = {}
    BY <1>5, <1>6
  <2>3. \A k \in 8..15 : k \in r <=> k \in q
    <3> DEFINE e == Xor(b, d)
    <3>1. e \in Byte /\ crc_accumulate(e, r) = crc_accumulate(b, q)
      BY <1>1, <1>6
    <3> HIDE DEF e
    <3> QED
      BY <3>1, ResultTells, ZenonT(30)
  <2> QED
    BY <2>1, <2>2, <2>3
<1> QED
  BY <1>2, <1>3, <1>4, <1>5, <1>6

LEMMA IntactMeansUndamaged ==
  ASSUME ChecksumTypeOK
  PROVE  damage = Intact(sent) <=> \A j \in DOMAIN sent : damage[j] = {}
BY DEF ChecksumTypeOK, Intact

(* Nothing that is derived from the frame and its damage changes in a step. *)
LEMMA FrameStays ==
  ASSUME UNCHANGED <<sent, damage>>
  PROVE  /\ Intact(sent)' = Intact(sent)
         /\ frame_msgid(Received)' = frame_msgid(Received)
         /\ Misread' = Misread
BY DEF Intact, Received, frame_msgid, Misread

LEMMA UndamagedIsSent ==
  ASSUME ChecksumTypeOK, damage = Intact(sent)
  PROVE  frame_msgid(Received) = frame_msgid(sent)
<1>1. sent \in Seq(Byte) /\ DOMAIN sent = 1..Len(sent) /\ Len(sent) >= 9
      /\ Len(sent) \in Nat
  BY FramesLong DEF ChecksumTypeOK
<1>2. \A j \in DOMAIN sent : Received[j] = sent[j]
  BY <1>1, XorCancels DEF Received, Intact
<1>3. 7 \in DOMAIN sent /\ 8 \in DOMAIN sent /\ 9 \in DOMAIN sent
  BY <1>1
<1> QED
  BY <1>2, <1>3 DEF frame_msgid

LEMMA SkipPreserves ==
  ASSUME IInv, Skip
  PROVE  IInv'
<1>1. UNCHANGED <<sent, damage, crc_damage, i, sent_crc, crc>>
      /\ verdict' = "unknown" /\ frame_msgid(Received) \notin Known
  BY DEF Skip
<1>2. /\ Intact(sent)' = Intact(sent) /\ Misread' = Misread
      /\ frame_msgid(Received)' = frame_msgid(Received)
  BY <1>1, FrameStays
<1>3. ChecksumTypeOK' /\ (crc_damage' = {} \/ damage' = Intact(sent)')
  BY <1>1, <1>2 DEF IInv, ChecksumTypeOK
<1>4. \A k \in 1..Len(sent) : Confined(k) /\ Tracks(k) => Confined(k)' /\ Tracks(k)'
  BY <1>1, <1>2 DEF Confined, Tracks, SameHighByte
<1> QED
  BY <1>1, <1>2, <1>3, <1>4 DEF IInv

LEMMA AccumulatePreserves ==
  ASSUME IInv, Accumulate
  PROVE  IInv'
<1>1. PICK k \in 1..Len(sent) : Confined(k) /\ Tracks(k)
  BY DEF IInv
<1>2. /\ sent \in Seq(Byte) /\ Len(sent) \in Nat /\ DOMAIN sent = 1..Len(sent)
      /\ i \in 1..Len(sent) /\ i' = i + 1
      /\ damage \in [DOMAIN sent -> Byte]
      /\ sent[i] \in Byte /\ damage[i] \in Byte
      /\ crc \in Word /\ sent_crc \in Word
      /\ crc' = crc_accumulate(Xor(sent[i], damage[i]), crc)
      /\ sent_crc' = x25_accumulate(sent[i], sent_crc)
      /\ UNCHANGED <<sent, damage, crc_damage, verdict>>
  BY FramesLong DEF IInv, ChecksumTypeOK, Accumulate, Received
<1>3. /\ crc' \in Word /\ sent_crc' \in Word
      /\ crc' = sent_crc' =>
           /\ damage[i] = {} => crc = sent_crc
           /\ crc = sent_crc => damage[i] = {}
           /\ SameHighByte
      /\ damage[i] = {} /\ crc = sent_crc => crc' = sent_crc'
      /\ crc = sent_crc /\ damage[i] # {} => ~SameHighByte'
  BY <1>2, BothAdvance DEF SameHighByte
<1>4. Confined(k)'
  BY <1>1, <1>2 DEF Confined
<1>5. damage = Intact(sent) <=> damage[k] = {} /\ (k + 1 \in DOMAIN sent => damage[k + 1] = {})
  BY <1>1, <1>2, IntactMeansUndamaged DEF IInv, Confined
<1>6. /\ Intact(sent)' = Intact(sent)
      /\ frame_msgid(Received)' = frame_msgid(Received)
  BY <1>2, FrameStays
<1>7. Tracks(k)'
  <2>1. CASE i < k
    <3>1. damage[i] = {} /\ crc = sent_crc
      BY <1>1, <1>2, <2>1 DEF Confined, Tracks
    <3>2. i' <= k /\ crc' = sent_crc'
      BY <1>2, <1>3, <2>1, <3>1
    <3> QED
      BY <1>2, <3>2 DEF Tracks
  <2>2. CASE i = k
    <3>1. crc = sent_crc
      BY <1>1, <2>2 DEF Tracks
    <3>2. i' = k + 1 /\ ~(i' <= k) /\ ~(i' > k + 1)
      BY <1>2, <2>2
    <3> QED
      BY <1>2, <1>3, <2>2, <3>1, <3>2 DEF Tracks
  <2>3. CASE i = k + 1
    <3>1. /\ damage[k] = {} => crc = sent_crc
          /\ damage[k] # {} => ~SameHighByte
      BY <1>1, <2>3 DEF Tracks
    <3>2. i' > k + 1 /\ ~(i' <= k) /\ i' # k + 1
      BY <1>2, <2>3
    <3>3. crc' = sent_crc' <=> damage = Intact(sent)
      BY <1>2, <1>3, <1>5, <2>3, <3>1
    <3> QED
      BY <1>2, <1>6, <3>2, <3>3 DEF Tracks
  <2>4. CASE i > k + 1
    <3>1. crc = sent_crc <=> damage = Intact(sent)
      BY <1>1, <1>2, <2>4 DEF Tracks
    <3>2. i' > k + 1 /\ ~(i' <= k) /\ i' # k + 1
      BY <1>2, <2>4
    <3>3. damage[i] = {}
      BY <1>1, <1>2, <2>4 DEF Confined
    <3> QED
      BY <1>2, <1>3, <1>6, <3>1, <3>2, <3>3 DEF Tracks
  <2> QED
    BY <1>2, <2>1, <2>2, <2>3, <2>4
<1>8. ChecksumTypeOK'
  BY <1>2, <1>3 DEF IInv, ChecksumTypeOK
<1>9. verdict' = verdict /\ verdict \notin {"valid", "invalid"}
  BY <1>2 DEF IInv
<1>10. crc_damage' = {} \/ damage' = Intact(sent)'
  BY <1>2, <1>6 DEF IInv
<1> QED
  BY <1>2, <1>4, <1>6, <1>7, <1>8, <1>9, <1>10 DEF IInv

LEMMA ComparePreserves ==
  ASSUME IInv, Compare
  PROVE  IInv'
<1>1. PICK k \in 1..Len(sent) : Confined(k) /\ Tracks(k)
  BY DEF IInv
<1> DEFINE e == crc_extra[frame_msgid(Received)]
           f == crc_extra[frame_msgid(sent)]
<1>2. /\ Len(sent) \in Nat /\ DOMAIN sent = 1..Len(sent)
      /\ i = Len(sent) + 1 /\ i' = i + 1
      /\ crc \in Word /\ sent_crc \in Word /\ e \in Byte /\ f \in Byte
      /\ frame_msgid(Received) \in Known
      /\ crc' = crc_accumulate(e, crc)
      /\ sent_crc' = x25_accumulate(f, sent_crc)
      /\ UNCHANGED <<sent, damage, crc_damage>>
  BY ChecksumAssumption, FramesLong DEF IInv, ChecksumTypeOK, Compare
<1>3. /\ Intact(sent)' = Intact(sent) /\ Misread' = Misread
      /\ frame_msgid(Received)' = frame_msgid(Received)
  BY <1>2, FrameStays
<1>4. ~Misread => e = f
  BY <1>2 DEF Misread
<1>5. /\ crc' \in Word /\ sent_crc' \in Word
      /\ ~Misread => (crc' = sent_crc' <=> crc = sent_crc)
  <2> HIDE DEF e, f
  <2>1. {} \in Byte /\ Xor(f, {}) = f /\ Xor(e, {}) = e
    BY DEF Byte, Xor
  <2>2. crc' \in Word
    BY <1>2, <2>1, BothAdvance
  <2> QED
    BY <1>2, <1>4, <2>1, <2>2, BothAdvance
<1>6. crc = sent_crc <=> damage = Intact(sent)
  <2>1. CASE k < Len(sent)
    BY <1>1, <1>2, <2>1 DEF Tracks
  <2>2. CASE k = Len(sent)
    <3>1. /\ damage[k] = {} => crc = sent_crc
          /\ damage[k] # {} => crc # sent_crc
      BY <1>1, <1>2, <2>2 DEF Tracks, SameHighByte
    <3>2. k + 1 \notin DOMAIN sent /\ k \in DOMAIN sent
      BY <1>2, <2>2
    <3>3. damage = Intact(sent) <=> damage[k] = {}
      BY <1>1, <3>2, IntactMeansUndamaged DEF IInv, Confined
    <3> QED
      BY <3>1, <3>3
  <2>3. k < Len(sent) \/ k = Len(sent)
    <3>1. k \in 1..Len(sent)
      OBVIOUS
    <3>2. Len(sent) \in Nat
      BY FramesLong DEF IInv, ChecksumTypeOK
    <3> QED
      BY <3>1, <3>2
  <2> QED
    BY <2>1, <2>2, <2>3
<1>7. Confined(k)' /\ Tracks(k)'
  <2>1. i' > k + 1 /\ ~(i' <= k) /\ i' # k + 1 /\ ~(i' <= Len(sent') + 1)
    BY <1>2
  <2> QED
    BY <1>1, <1>2, <1>3, <1>5, <1>6, <2>1 DEF Confined, Tracks
<1>8. ChecksumTypeOK'
  BY <1>2, <1>5 DEF IInv, ChecksumTypeOK
<1>9. /\ verdict' \in {"valid", "invalid"} /\ i' = Len(sent') + 2
      /\ verdict' = "valid" <=> crc' = Xor(sent_crc', crc_damage')
  BY <1>2 DEF Compare
<1>10. crc_damage' = {} \/ damage' = Intact(sent)'
  BY <1>2, <1>3 DEF IInv
<1> QED
  BY <1>2, <1>7, <1>8, <1>9, <1>10 DEF IInv

LEMMA ChecksumStutters ==
  ASSUME IInv, UNCHANGED vars
  PROVE  IInv'
<1>1. /\ Intact(sent)' = Intact(sent) /\ Misread' = Misread
      /\ frame_msgid(Received)' = frame_msgid(Received)
  BY FrameStays DEF vars
<1>2. ChecksumTypeOK'
  BY DEF IInv, ChecksumTypeOK, vars
<1>3. \A k \in 1..Len(sent) : Confined(k) /\ Tracks(k) => Confined(k)' /\ Tracks(k)'
  BY <1>1 DEF vars, Confined, Tracks, SameHighByte
<1> QED
  BY <1>1, <1>2, <1>3 DEF IInv, vars

(* Whatever the frame, its length and its message: the byte-wise checksum   *)
(* is the sender's, so that no frame of a known message is refused that    *)
(* arrived as it was sent; and damage to one byte, to two neighbouring     *)
(* ones or to the checksum itself is never missed, unless it made of the   *)
(* message id another known one with another byte of its own.              *)
THEOREM CorruptionIsDetected == Spec => []CorruptionDetected
<1>1. Init => IInv
  BY ChecksumInit
<1>2. IInv /\ [Next]_vars => IInv'
  BY SkipPreserves, AccumulatePreserves, ComparePreserves, ChecksumStutters DEF Next
<1>3. IInv => CorruptionDetected
  <2> SUFFICES ASSUME IInv PROVE CorruptionDetected
    OBVIOUS
  <2>1. CASE verdict = "unknown"
    <3>1. damage = Intact(sent) => frame_msgid(sent) \notin Known
      BY <2>1, UndamagedIsSent DEF IInv
    <3> QED
      BY <2>1, <3>1 DEF CorruptionDetected, Damaged
  <2>2. CASE verdict \in {"valid", "invalid"}
    <3>1. PICK k \in 1..Len(sent) : Confined(k) /\ Tracks(k)
      BY DEF IInv
    <3>2. i > k + 1
      BY <2>2, FramesLong DEF IInv, ChecksumTypeOK
    <3>3. ~Misread => (crc = sent_crc <=> damage = Intact(sent))
      BY <3>1, <3>2 DEF Tracks
    <3>4. verdict = "valid" <=> crc = Xor(sent_crc, crc_damage)
      BY <2>2 DEF IInv
    <3>5. Xor(sent_crc, crc_damage) = sent_crc <=> crc_damage = {}
      BY XorCancels
    <3>6. damage = Intact(sent) => ~Misread
      BY UndamagedIsSent DEF IInv, Misread
    <3> QED
      BY <2>2, <3>3, <3>4, <3>5, <3>6 DEF IInv, Damaged, CorruptionDetected
  <2> QED
    BY <2>1, <2>2 DEF CorruptionDetected
<1> QED
  BY <1>1, <1>2, <1>3, PTL DEF Spec
=============================================================================
