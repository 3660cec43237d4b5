----------------------------- MODULE WireProofs -----------------------------
(***************************************************************************)
(* What the wire format guarantees, for every frame and every byte.        *)
(***************************************************************************)
EXTENDS WireFormat, FiniteSetTheorems, TLAPS

OddBytes(bytes, w) == {i \in DOMAIN bytes : (bytes[i] \div w) % 2 = 1}

\* The parity of a bit is the parity of a natural number.
LEMMA ParityType ==
    ASSUME NEW bytes \in Seq(Byte), NEW w
    PROVE  /\ IsFiniteSet(OddBytes(bytes, w))
           /\ Cardinality(OddBytes(bytes, w)) \in Nat
           /\ Parity(bytes, w) = Cardinality(OddBytes(bytes, w)) % 2
           /\ Parity(bytes, w) \in Int
           /\ 0 <= Parity(bytes, w) /\ Parity(bytes, w) <= 1
<1>1. IsFiniteSet(1 .. Len(bytes))
  BY FS_Interval
<1>2. IsFiniteSet(OddBytes(bytes, w))
  BY <1>1, FS_Subset DEF OddBytes
<1>3. Cardinality(OddBytes(bytes, w)) \in Nat
  BY <1>2, FS_CardinalityType
<1>4. Parity(bytes, w) = Cardinality(OddBytes(bytes, w)) % 2
  BY DEF Parity, OddBytes
<1> QED
  BY <1>2, <1>3, <1>4

\* Two different bytes differ in some bit.
LEMMA SomeBitDiffers ==
    ASSUME NEW x \in Byte, NEW y \in Byte, x # y
    PROVE  \E w \in {1, 2, 4, 8, 16, 32, 64, 128} :
              (x \div w) % 2 # (y \div w) % 2
<1> DEFINE Bit(v, w) == (v \div w) % 2
           Sum(v) == Bit(v, 1) + 2 * Bit(v, 2) + 4 * Bit(v, 4) + 8 * Bit(v, 8)
                     + 16 * Bit(v, 16) + 32 * Bit(v, 32) + 64 * Bit(v, 64)
                     + 128 * Bit(v, 128)
<1>1. ASSUME NEW v \in Int, 0 <= v, v < 256
      PROVE  v = Sum(v)
  BY <1>1, SMT
<1>2. x = Sum(x) /\ y = Sum(y)
  BY <1>1 DEF Byte
<1>3. ASSUME \A w \in {1, 2, 4, 8, 16, 32, 64, 128} : Bit(x, w) = Bit(y, w)
      PROVE  FALSE
  <2>1. Sum(x) = Sum(y)
    BY <1>3
  <2> QED
    BY <2>1, <1>2
<1> QED
  BY <1>3

\* A checksum fits in a byte.
LEMMA ChecksumType ==
    ASSUME NEW bytes \in Seq(Byte)
    PROVE  proto_compute_checksum(bytes) \in Byte
<1> DEFINE p1 == Parity(bytes, 1)   p2 == Parity(bytes, 2)
           p3 == Parity(bytes, 4)   p4 == Parity(bytes, 8)
           p5 == Parity(bytes, 16)  p6 == Parity(bytes, 32)
           p7 == Parity(bytes, 64)  p8 == Parity(bytes, 128)
           Bit(p) == p \in Int /\ 0 <= p /\ p <= 1
<1>1. Bit(p1) /\ Bit(p2) /\ Bit(p3) /\ Bit(p4)
  BY ParityType
<1>2. Bit(p5) /\ Bit(p6) /\ Bit(p7) /\ Bit(p8)
  BY ParityType
<1>3. proto_compute_checksum(bytes)
        = p1 + 2 * p2 + 4 * p3 + 8 * p4 + 16 * p5 + 32 * p6 + 64 * p7 + 128 * p8
  BY DEF proto_compute_checksum
<1> HIDE DEF p1, p2, p3, p4, p5, p6, p7, p8
<1>4. p1 + 2 * p2 + 4 * p3 + 8 * p4 + 16 * p5 + 32 * p6 + 64 * p7 + 128 * p8
        \in 0 .. 255
  BY <1>1, <1>2
<1> QED
  BY <1>3, <1>4 DEF Byte

\* A checksum determines the parity of every bit.
LEMMA ChecksumDetermines ==
    ASSUME NEW a \in Seq(Byte), NEW b \in Seq(Byte),
           proto_compute_checksum(a) = proto_compute_checksum(b),
           NEW w \in {1, 2, 4, 8, 16, 32, 64, 128}
    PROVE  Parity(a, w) = Parity(b, w)
<1> DEFINE p1 == Parity(a, 1)   p2 == Parity(a, 2)
           p3 == Parity(a, 4)   p4 == Parity(a, 8)
           p5 == Parity(a, 16)  p6 == Parity(a, 32)
           p7 == Parity(a, 64)  p8 == Parity(a, 128)
           q1 == Parity(b, 1)   q2 == Parity(b, 2)
           q3 == Parity(b, 4)   q4 == Parity(b, 8)
           q5 == Parity(b, 16)  q6 == Parity(b, 32)
           q7 == Parity(b, 64)  q8 == Parity(b, 128)
           Bit(p) == p \in Int /\ 0 <= p /\ p <= 1
<1>1. Bit(p1) /\ Bit(p2) /\ Bit(p3) /\ Bit(p4)
  BY ParityType
<1>2. Bit(p5) /\ Bit(p6) /\ Bit(p7) /\ Bit(p8)
  BY ParityType
<1>3. Bit(q1) /\ Bit(q2) /\ Bit(q3) /\ Bit(q4)
  BY ParityType
<1>4. Bit(q5) /\ Bit(q6) /\ Bit(q7) /\ Bit(q8)
  BY ParityType
<1>5. p1 + 2 * p2 + 4 * p3 + 8 * p4 + 16 * p5 + 32 * p6 + 64 * p7 + 128 * p8
    = q1 + 2 * q2 + 4 * q3 + 8 * q4 + 16 * q5 + 32 * q6 + 64 * q7 + 128 * q8
  BY DEF proto_compute_checksum
<1> HIDE DEF p1, p2, p3, p4, p5, p6, p7, p8, q1, q2, q3, q4, q5, q6, q7, q8
<1>6. /\ p1 = q1 /\ p2 = q2 /\ p3 = q3 /\ p4 = q4
      /\ p5 = q5 /\ p6 = q6 /\ p7 = q7 /\ p8 = q8
  BY <1>1, <1>2, <1>3, <1>4, <1>5, SMT
<1> QED
  BY <1>6 DEF p1, p2, p3, p4, p5, p6, p7, p8, q1, q2, q3, q4, q5, q6, q7, q8

(***************************************************************************)
(* A nonce survives its journey through the payload: bytes_to_u32 inverts  *)
(* u32_to_bytes for every 32-bit value, so the nonces that Node compares   *)
(* are the nonces that were drawn.                                         *)
(***************************************************************************)
THEOREM NonceSurvives ==
    ASSUME NEW v \in Int, 0 <= v, v < 4294967296
    PROVE  /\ u32_to_bytes(v) \in Seq(Byte)
           /\ bytes_to_u32(u32_to_bytes(v)) = v
<1> DEFINE b1 == v \div 16777216
           b2 == (v \div 65536) % 256
           b3 == (v \div 256) % 256
           b4 == v % 256
           s == <<b1, b2, b3, b4>>
<1>1. /\ b1 \in Int /\ 0 <= b1 /\ b1 <= 255
      /\ b2 \in Int /\ 0 <= b2 /\ b2 <= 255
      /\ b3 \in Int /\ 0 <= b3 /\ b3 <= 255
      /\ b4 \in Int /\ 0 <= b4 /\ b4 <= 255
  BY SMT
<1>2. v = 16777216 * b1 + 65536 * b2 + 256 * b3 + b4
  BY SMT
<1>3. u32_to_bytes(v) = s
  BY SMT DEF u32_to_bytes
<1> HIDE DEF b1, b2, b3, b4
<1>4. b1 \in Byte /\ b2 \in Byte /\ b3 \in Byte /\ b4 \in Byte
  BY <1>1, SMT DEF Byte
<1>5. bytes_to_u32(s) = 16777216 * b1 + 65536 * b2 + 256 * b3 + b4
  BY SMT DEF bytes_to_u32
<1>6. s \in Seq(Byte)
  BY <1>4, SMT
<1> HIDE DEF s
<1> QED
  BY <1>2, <1>3, <1>5, <1>6, SMT

LEMMA ByteIsInt ==
    ASSUME NEW v \in Byte
    PROVE  v \in Int
  BY DEF Byte

\* Equal length and equal elements make equal sequences.
LEMMA SameSequence ==
    ASSUME NEW s \in Seq(Byte), NEW t \in Seq(Byte), Len(s) = Len(t),
           \A k \in 1 .. Len(s) : s[k] = t[k]
    PROVE  s = t
  OBVIOUS

\* One more byte in which a bit is set changes the parity of that bit.
LEMMA ParityOfOneMore ==
    ASSUME NEW small \in Seq(Byte), NEW big \in Seq(Byte), NEW w, NEW j,
           OddBytes(big, w) = OddBytes(small, w) \cup {j},
           j \notin OddBytes(small, w)
    PROVE  Parity(big, w) # Parity(small, w)
<1> DEFINE n == Cardinality(OddBytes(small, w))
           m == Cardinality(OddBytes(big, w))
<1>1. /\ IsFiniteSet(OddBytes(small, w))
      /\ n \in Nat
      /\ Parity(small, w) = n % 2
      /\ Parity(big, w) = m % 2
  BY ParityType
<1>2. m = n + 1
  BY <1>1, FS_AddElement
<1> HIDE DEF n, m
<1>3. (n + 1) % 2 # n % 2
  BY <1>1
<1> QED
  BY <1>1, <1>2, <1>3

\* Changing one byte changes the parity of some bit.
LEMMA ParityFlips ==
    ASSUME NEW c \in Seq(Byte), NEW j \in 1 .. Len(c), NEW x \in Byte, x # c[j]
    PROVE  \E w \in {1, 2, 4, 8, 16, 32, 64, 128} :
              Parity([c EXCEPT ![j] = x], w) # Parity(c, w)
<1> DEFINE d == [c EXCEPT ![j] = x]
<1>1. c[j] \in Byte
  OBVIOUS
<1>2. PICK w \in {1, 2, 4, 8, 16, 32, 64, 128} :
             (x \div w) % 2 # (c[j] \div w) % 2
  BY <1>1, SomeBitDiffers
<1> DEFINE Odd(v) == (v \div w) % 2 = 1
<1>3. /\ d \in Seq(Byte) /\ DOMAIN d = DOMAIN c /\ d[j] = x /\ j \in DOMAIN c
      /\ \A i \in DOMAIN c : i # j => d[i] = c[i]
  OBVIOUS
<1>4. Odd(x) <=> ~Odd(c[j])
  <2>1. \A v \in Int : (v \div w) % 2 \in {0, 1}
    <3>1. \A v \in Int : v \div w \in Int
      OBVIOUS
    <3>2. \A v \in Int : v % 2 \in {0, 1}
      OBVIOUS
    <3> QED
      BY <3>1, <3>2
  <2>2. x \in Int /\ c[j] \in Int
    BY <1>1, ByteIsInt
  <2> QED
    BY <1>2, <2>1, <2>2
<1>5. /\ OddBytes(c, w) = {i \in DOMAIN c : Odd(c[i])}
      /\ OddBytes(d, w) = {i \in DOMAIN d : Odd(d[i])}
  BY DEF OddBytes
<1> HIDE DEF d, Odd
<1>6. CASE Odd(x)
  <2>1. OddBytes(d, w) = OddBytes(c, w) \cup {j} /\ j \notin OddBytes(c, w)
    BY <1>3, <1>4, <1>5, <1>6
  <2>2. Parity(d, w) # Parity(c, w)
    BY <1>3, <2>1, ParityOfOneMore
  <2> QED
    BY <2>2 DEF d
<1>7. CASE Odd(c[j])
  <2>1. OddBytes(c, w) = OddBytes(d, w) \cup {j} /\ j \notin OddBytes(d, w)
    BY <1>3, <1>4, <1>5, <1>7
  <2>2. Parity(c, w) # Parity(d, w)
    BY <1>3, <2>1, ParityOfOneMore
  <2> QED
    BY <2>2 DEF d
<1> QED
  BY <1>4, <1>6, <1>7

(***************************************************************************)
(* proto_is_valid rejects a frame in which any one byte was changed, SOF   *)
(* and length apart: those two also change which bytes bus_recv takes for  *)
(* the frame.  Together with WholeFramesInOrder this is as much protection *)
(* as the checksum gives.                                                  *)
(***************************************************************************)
THEOREM OneBadByteIsRejected ==
    ASSUME NEW b \in Seq(Byte), Len(b) > HEADER, proto_is_valid(b),
           NEW i \in 1 .. Len(b), i \notin {1, HEADER},
           NEW x \in Byte, x # b[i]
    PROVE  ~proto_is_valid([b EXCEPT ![i] = x])
<1> DEFINE n == Len(b)
           d == [b EXCEPT ![i] = x]
           c == SubSeq(b, 2, n - 1)
           e == SubSeq(d, 2, n - 1)
           j == i - 1
<1>1. /\ n \in Nat /\ n > 4 /\ i \in Nat /\ 2 <= i /\ i <= n
      /\ d \in Seq(Byte) /\ Len(d) = n /\ d[i] = x
      /\ \A k \in 1 .. n : k # i => d[k] = b[k]
  BY DEF HEADER
<1> HIDE DEF d
<1>2. /\ c \in Seq(Byte) /\ Len(c) = n - 2 /\ \A k \in 1 .. (n - 2) : c[k] = b[k + 1]
      /\ e \in Seq(Byte) /\ Len(e) = n - 2 /\ \A k \in 1 .. (n - 2) : e[k] = d[k + 1]
  BY <1>1
<1>3. proto_compute_checksum(c) = b[n]
  BY DEF proto_is_valid
<1>4. SUFFICES ASSUME proto_compute_checksum(e) = d[n]
               PROVE  FALSE
  BY <1>1 DEF proto_is_valid, d
<1> HIDE DEF n, c, e
<1>5. CASE i = n
  <2>1. ASSUME NEW k \in 1 .. Len(c)
        PROVE  e[k] = c[k]
    <3>1. k + 1 \in 1 .. n /\ k + 1 # i
      BY <1>1, <1>2, <1>5
    <3> QED
      BY <1>1, <1>2, <3>1
  <2>2. e = c
    BY <1>2, <2>1, SameSequence
  <2> QED
    BY <1>1, <1>3, <1>4, <1>5, <2>2
<1>6. CASE i # n
  <2>1. j \in 1 .. Len(c) /\ c[j] = b[i] /\ e[j] = x
    BY <1>1, <1>2, <1>6
  <2>2. ASSUME NEW k \in 1 .. Len(c), k # j
        PROVE  e[k] = c[k]
    <3>1. k + 1 \in 1 .. n /\ k + 1 # i
      BY <1>1, <1>2, <2>2
    <3> QED
      BY <1>1, <1>2, <3>1
  <2> HIDE DEF j
  <2>3. [c EXCEPT ![j] = x] \in Seq(Byte) /\ Len([c EXCEPT ![j] = x]) = Len(c)
    BY <1>2, <2>1
  <2>4. \A k \in 1 .. Len(e) : e[k] = [c EXCEPT ![j] = x][k]
    BY <1>2, <2>1, <2>2
  <2>5. e = [c EXCEPT ![j] = x]
    BY <1>2, <2>3, <2>4, SameSequence
  <2>6. proto_compute_checksum(e) = proto_compute_checksum(c)
    BY <1>1, <1>3, <1>4, <1>6
  <2>7. PICK w \in {1, 2, 4, 8, 16, 32, 64, 128} : Parity(e, w) # Parity(c, w)
    <3>1. x # c[j] /\ c \in Seq(Byte) /\ j \in 1 .. Len(c)
      BY <1>2, <2>1
    <3>2. \E w \in {1, 2, 4, 8, 16, 32, 64, 128} :
            Parity([c EXCEPT ![j] = x], w) # Parity(c, w)
      BY <3>1, ParityFlips, ZenonT(40)
    <3> QED
      BY <2>5, <3>2
  <2> QED
    BY <1>2, <2>6, <2>7, ChecksumDetermines
<1> QED
  BY <1>5, <1>6

(***************************************************************************)
(* What bus_send writes for a frame, bus_recv takes for that frame and     *)
(* nothing else: the bytes are a complete, valid frame that decodes to it. *)
(***************************************************************************)
THEOREM FramesSurvive ==
    ASSUME NEW f \in WireFrame, Len(f.payload) <= MAX_PAYLOAD_SIZE
    PROVE  LET b == proto_finalize(f)
           IN  /\ b \in Seq(Byte)
               /\ Len(b) > HEADER /\ b[1] = SOF
               /\ Len(b) = HEADER + b[HEADER] + 1
               /\ proto_is_valid(b)
               /\ Decoded(b) = f
<1> DEFINE p == f.payload
           n == Len(p)
           c == Covered(f)
           k == proto_compute_checksum(c)
           b == proto_finalize(f)
<1>1. /\ f.type \in Byte /\ f.source \in Byte /\ p \in Seq(Byte)
      /\ f = [type |-> f.type, source |-> f.source, payload |-> p]
  BY DEF WireFrame
<1>2. n \in Nat /\ n <= 8 /\ n \in Byte
  <2>1. n \in Nat /\ n <= 8
    BY <1>1 DEF MAX_PAYLOAD_SIZE
  <2> HIDE DEF n
  <2> QED
    BY <2>1, SMT DEF Byte
<1>3. c = <<f.type, f.source, n>> \o p
  BY <1>2 DEF Covered, MAX_PAYLOAD_SIZE
<1> HIDE DEF n
<1>4. /\ c \in Seq(Byte) /\ Len(c) = n + 3
      /\ c[1] = f.type /\ c[2] = f.source /\ c[3] = n
  BY <1>1, <1>2, <1>3 DEF n
<1>5. \A i \in 1 .. n : c[i + 3] = p[i]
  BY <1>1, <1>2, <1>3 DEF n
<1>6. k \in Byte
  BY <1>4, ChecksumType
<1>7. b = <<SOF>> \o c \o <<k>>
  BY DEF proto_finalize
<1> HIDE DEF p, c, k, b
<1>8. SOF \in Byte
  BY DEF SOF, Byte
<1>9. /\ b \in Seq(Byte) /\ Len(b) = n + 5
      /\ b[1] = SOF /\ b[2] = c[1] /\ b[3] = c[2] /\ b[4] = c[3]
      /\ b[n + 5] = k
  BY <1>2, <1>4, <1>6, <1>7, <1>8
<1>10. ASSUME NEW i \in 1 .. (n + 3)
       PROVE  b[i + 1] = c[i]
  BY <1>2, <1>4, <1>6, <1>7, <1>8
<1>11. SubSeq(b, 2, Len(b) - 1) = c
  <2> DEFINE s == SubSeq(b, 2, Len(b) - 1)
  <2>1. s \in Seq(Byte) /\ Len(s) = n + 3 /\ \A i \in 1 .. (n + 3) : s[i] = b[i + 1]
    BY <1>2, <1>9
  <2> HIDE DEF s
  <2>2. s = c
    BY <1>4, <1>10, <2>1, SameSequence
  <2> QED
    BY <2>2 DEF s
<1>12. SubSeq(b, 5, n + 4) = p
  <2> DEFINE s == SubSeq(b, 5, n + 4)
  <2>1. s \in Seq(Byte) /\ Len(s) = n /\ \A i \in 1 .. n : s[i] = b[i + 4]
    BY <1>2, <1>9
  <2> HIDE DEF s
  <2>2. ASSUME NEW i \in 1 .. n
        PROVE  s[i] = p[i]
    <3>1. i + 3 \in 1 .. (n + 3) /\ (i + 3) + 1 = i + 4
      BY <1>2
    <3>2. b[i + 4] = c[i + 3]
      BY <1>10, <3>1
    <3> QED
      BY <1>5, <2>1, <3>2
  <2>3. Len(p) = n
    BY DEF n, p
  <2>4. s = p
    BY <1>1, <2>1, <2>2, <2>3, SameSequence DEF p
  <2> QED
    BY <2>4 DEF s
<1>13. Len(b) > HEADER /\ Len(b) = HEADER + b[HEADER] + 1
  BY <1>2, <1>4, <1>9 DEF HEADER
<1>14. proto_is_valid(b)
  BY <1>2, <1>4, <1>9, <1>11 DEF proto_is_valid, HEADER, MAX_PAYLOAD_SIZE, k
<1>15. Decoded(b) = f
  <2>1. HEADER + 1 = 5 /\ HEADER + b[HEADER] = n + 4
    BY <1>2, <1>4, <1>9 DEF HEADER
  <2>2. Decoded(b) = [type |-> b[2], source |-> b[3], payload |-> SubSeq(b, 5, n + 4)]
    BY <2>1 DEF Decoded
  <2> QED
    BY <1>1, <1>4, <1>9, <1>12, <2>2 DEF p
<1> QED
  BY <1>9, <1>13, <1>14, <1>15 DEF b
=============================================================================
