---------------------------- MODULE Codec_proofs ----------------------------
(***************************************************************************)
(* The integers of the files read back as they were written, for bytes of  *)
(* eight bits, and Python's decoders give what C++'s give on any bytes.    *)
(* Nothing is recursive: each number of bytes is a case, and each case is  *)
(* arithmetic.  Steps on big numbers name SMT, the prover that reads them. *)
(***************************************************************************)
EXTENDS Codec, SequenceTheorems, TLAPS

-----------------------------------------------------------------------------
(* Numbers of eight bits. *)

\* The numbers of two, three and four bytes.
LEMMA Powers ==
  ASSUME Byte = 256
  PROVE  W2 = 65536 /\ W3 = 16777216 /\ W4 = 4294967296
BY SMT DEF W2, W3, W4

\* What one to five bytes of a latecon integer hold.
LEMMA Rooms ==
  ASSUME Byte = 256
  PROVE  /\ Room(1) = 128
         /\ Room(2) = 16384
         /\ Room(3) = 2097152
         /\ Room(4) = 268435456
         /\ Room(5) = 4294967296
<1>1. Room(1) = 128  BY SMT DEF Room
<1>2. Room(2) = 16384  BY SMT, Powers DEF Room
<1>3. Room(3) = 2097152  BY SMT, Powers DEF Room
<1>4. Room(4) = 268435456  BY SMT, Powers DEF Room
<1>5. Room(5) = 4294967296  BY SMT, Powers DEF Room
<1> QED BY SMT, <1>1, <1>2, <1>3, <1>4, <1>5

\* The bits of a first byte, from the high one, by its value.
LEMMA FirstByte ==
  ASSUME Byte = 256, NEW x \in Bytes
  PROVE  /\ Bit(x, 2) = 0 <=> x < 128
         /\ x >= 128 => (Bit(x, 4) = 0 <=> x < 192)
         /\ x >= 192 => (Bit(x, 8) = 0 <=> x < 224)
         /\ x >= 224 => (Bit(x, 16) = 0 <=> x < 240)
         /\ x >= 240 => (Bit(x, 32) = 0 <=> x < 248)
BY SMT DEF Bit, Bytes

\* Of the bytes a latecon integer starts by, each says its size; 0xF8 and more say none.
LEMMA Sizes ==
  ASSUME Byte = 256, NEW x \in Bytes
  PROVE  /\ x < 128 => LatSize(x) = 1
         /\ x >= 128 /\ x < 192 => LatSize(x) = 2
         /\ x >= 192 /\ x < 224 => LatSize(x) = 3
         /\ x >= 224 /\ x < 240 => LatSize(x) = 4
         /\ x >= 240 /\ x < 248 => LatSize(x) = 5
         /\ x >= 248 => LatSize(x) = 0
BY SMT, FirstByte DEF LatSize, Bytes

-----------------------------------------------------------------------------
(* Numbers cut in bytes, and bytes in sequences. *)

\* A number cut in two bytes, put together.
LEMMA Join2 ==
  ASSUME NEW n \in Nat
  PROVE  (n \div 256) * 256 + (n % 256) = n
BY SMT

\* In three.
LEMMA Join3 ==
  ASSUME NEW n \in Nat
  PROVE  (n \div 65536) * 65536 + (((n \div 256) % 256) * 256 + (n % 256)) = n
BY SMT

\* In four.
LEMMA Join4 ==
  ASSUME NEW n \in Nat
  PROVE  (n \div 16777216) * 16777216
           + ((((n \div 65536) % 256) * 256 + ((n \div 256) % 256)) * 256 + (n % 256)) = n
BY SMT

\* What starts by the k bytes of an integer decodes as that integer, of k bytes.
LEMMA LatRead ==
  ASSUME Byte = 256, NEW k \in 1..5, NEW n \in Nat, n < Room(k),
         NEW b \in Seq(Bytes), Len(b) >= k, \A i \in 1..k : b[i] = Lat(n, k)[i]
  PROVE  LatSize(b[1]) = k /\ LatBits(b, k) = n
<1>0. \A i \in 1..k : b[i] \in Bytes
  BY SMT
<1>1. CASE k = 1
  <2>1. b[1] = n
    BY SMT, <1>1 DEF Lat
  <2>2. n < 128
    BY SMT, <1>1, Rooms
  <2>3. LatSize(b[1]) = 1
    BY SMT, <1>0, <1>1, <2>1, <2>2, Sizes
  <2>4. LatBits(b, 1) = n % 128
    BY SMT, <2>1 DEF LatBits
  <2> QED BY SMT, <1>1, <2>2, <2>3, <2>4
<1>2. CASE k = 2
  <2>1. b[1] = 128 + n \div 256 /\ b[2] = n % 256
    BY SMT, <1>2 DEF Lat
  <2>0. n < 16384
    BY SMT, <1>2, Rooms
  <2>2. n \div 256 \in 0..63
    BY SMT, <2>0
  <2>3. LatSize(b[1]) = 2
    BY SMT, <1>0, <1>2, <2>1, <2>2, Sizes
  <2>4. LatBits(b, 2) = ((128 + n \div 256) % 64) * 256 + (n % 256)
    BY SMT, <2>1 DEF LatBits
  <2>5. (128 + n \div 256) % 64 = n \div 256
    BY SMT, <2>2
  <2> QED BY SMT, <1>2, <2>3, <2>4, <2>5, Join2
<1>3. CASE k = 3
  <2>1. b[1] = 192 + n \div 65536 /\ b[2] = (n \div 256) % 256 /\ b[3] = n % 256
    BY SMT, <1>3, Powers DEF Lat
  <2>2. n \div 65536 \in 0..31
    BY SMT, <1>3, Rooms
  <2>3. LatSize(b[1]) = 3
    BY SMT, <1>0, <1>3, <2>1, <2>2, Sizes
  <2>4. LatBits(b, 3) = ((192 + n \div 65536) % 32) * 65536
                          + (((n \div 256) % 256) * 256 + (n % 256))
    BY SMT, <2>1, Powers DEF LatBits, OfBE2
  <2>5. (192 + n \div 65536) % 32 = n \div 65536
    BY SMT, <2>2
  <2> QED BY SMT, <1>3, <2>3, <2>4, <2>5, Join3
<1>4. CASE k = 4
  <2>1. /\ b[1] = 224 + n \div 16777216 /\ b[2] = (n \div 65536) % 256
        /\ b[3] = (n \div 256) % 256 /\ b[4] = n % 256
    BY SMT, <1>4, Powers DEF Lat
  <2>2. n \div 16777216 \in 0..15
    BY SMT, <1>4, Rooms
  <2>3. LatSize(b[1]) = 4
    BY SMT, <1>0, <1>4, <2>1, <2>2, Sizes
  <2>4. LatBits(b, 4) = ((224 + n \div 16777216) % 16) * 16777216
          + ((((n \div 65536) % 256) * 256 + ((n \div 256) % 256)) * 256 + (n % 256))
    BY SMT, <2>1, Powers DEF LatBits, OfBE3
  <2>5. (224 + n \div 16777216) % 16 = n \div 16777216
    BY SMT, <2>2
  <2> QED BY SMT, <1>4, <2>3, <2>4, <2>5, Join4
<1>5. CASE k = 5
  <2>1. /\ b[1] = 240 /\ b[2] = n \div 16777216 /\ b[3] = (n \div 65536) % 256
        /\ b[4] = (n \div 256) % 256 /\ b[5] = n % 256
    <3>1. BE4(n) = <<n \div 16777216, (n \div 65536) % 256, (n \div 256) % 256, n % 256>>
      BY SMT, Powers DEF BE4
    <3>2. Lat(n, k) = <<240>> \o BE4(n)
      BY SMT, <1>5 DEF Lat
    <3>3. /\ Lat(n, k)[1] = 240 /\ Lat(n, k)[2] = n \div 16777216
          /\ Lat(n, k)[3] = (n \div 65536) % 256
          /\ Lat(n, k)[4] = (n \div 256) % 256 /\ Lat(n, k)[5] = n % 256
      BY SMT, <3>1, <3>2
    <3> QED BY SMT, <1>5, <3>3
  <2>3. LatSize(b[1]) = 5
    <3>1. b[1] \in Bytes
      BY <1>0, <1>5
    <3>2. b[1] = 240
      BY <2>1
    <3> QED BY SMT, <3>1, <3>2, Sizes
  <2>4. LatBits(b, 5) = (((n \div 16777216) * 256 + ((n \div 65536) % 256)) * 256
                           + ((n \div 256) % 256)) * 256 + (n % 256)
    BY SMT, <2>1 DEF LatBits, OfBE3, OfBE4
  <2>5. LatBits(b, 5) = n
    BY SMT, <2>4, Join4
  <2> QED BY SMT, <1>5, <2>3, <2>5
<1> QED BY SMT, <1>1, <1>2, <1>3, <1>4, <1>5

\* A sequence starts by the one it was appended to.
LEMMA Begins ==
  ASSUME NEW S, NEW s \in Seq(S), NEW t \in Seq(S)
  PROVE  /\ s \o t \in Seq(S)
         /\ Len(s \o t) = Len(s) + Len(t)
         /\ \A i \in 1..Len(s) : (s \o t)[i] = s[i]
BY SMT

\* A byte before a sequence.
LEMMA Prepended ==
  ASSUME NEW S, NEW x \in S, NEW s \in Seq(S)
  PROVE  <<x>> \o s \in Seq(S) /\ Len(<<x>> \o s) = 1 + Len(s)
BY SMT

\* A sequence with another first byte.
LEMMA Replaced ==
  ASSUME NEW S, NEW s \in Seq(S), NEW x \in S, Len(s) >= 1, NEW r, r = [s EXCEPT ![1] = x]
  PROVE  /\ r \in Seq(S)
         /\ Len(r) = Len(s)
         /\ \A i \in 1..Len(s) : r[i] = IF i = 1 THEN x ELSE s[i]
<1>1. 1 \in 1..Len(s)
  BY SMT
<1> QED BY <1>1, ExceptSeq

\* A byte, as a number.
LEMMA ByteRange ==
  ASSUME Byte = 256, NEW x \in Bytes
  PROVE  x \in Nat /\ x < 256
BY SMT DEF Bytes

\* Two bytes hold less than 65536.
LEMMA Pairs ==
  ASSUME NEW x \in Nat, NEW y \in Nat, x < 256, y < 256
  PROVE  x * 256 + y \in Nat /\ x * 256 + y < 65536
BY SMT

\* k bytes are written.
LEMMA Shapes ==
  ASSUME Byte = 256, NEW k \in 1..5, NEW n \in Nat, n < Room(k)
  PROVE  Lat(n, k) \in Seq(Bytes) /\ Len(Lat(n, k)) = k
<1>1. CASE k = 1
  <2>1. n \in Bytes
    BY SMT, <1>1, Rooms DEF Bytes
  <2> QED BY SMT, <1>1, <2>1 DEF Lat
<1>2. CASE k = 2
  <2>0. n < 16384
    BY SMT, <1>2, Rooms
  <2>1. 128 + n \div 256 \in Bytes /\ n % 256 \in Bytes
    BY SMT, <2>0 DEF Bytes
  <2> QED BY SMT, <1>2, <2>1 DEF Lat
<1>3. CASE k = 3
  <2>0. n < 2097152
    BY SMT, <1>3, Rooms
  <2>1. 192 + n \div 65536 \in Bytes /\ (n \div 256) % 256 \in Bytes /\ n % 256 \in Bytes
    BY SMT, <2>0 DEF Bytes
  <2> QED BY SMT, <1>3, <2>1, Powers DEF Lat
<1>4. CASE k = 4
  <2>0. n < 268435456
    BY SMT, <1>4, Rooms
  <2>1. /\ 224 + n \div 16777216 \in Bytes /\ (n \div 65536) % 256 \in Bytes
        /\ (n \div 256) % 256 \in Bytes /\ n % 256 \in Bytes
    BY SMT, <2>0 DEF Bytes
  <2> QED BY SMT, <1>4, <2>1, Powers DEF Lat
<1>5. CASE k = 5
  <2>0. n < 4294967296
    BY SMT, <1>5, Rooms
  <2>1. /\ 240 \in Bytes /\ n \div 16777216 \in Bytes /\ (n \div 65536) % 256 \in Bytes
        /\ (n \div 256) % 256 \in Bytes /\ n % 256 \in Bytes
    BY SMT, <2>0 DEF Bytes
  <2>2. BE4(n) \in Seq(Bytes) /\ Len(BE4(n)) = 4
    BY SMT, <2>1, Powers DEF BE4
  <2>3. Lat(n, 5) = <<240>> \o BE4(n)
    BY SMT DEF Lat
  <2> DEFINE first == 240
  <2>4. first \in Bytes
    BY SMT DEF Bytes
  <2> HIDE DEF first
  <2> DEFINE w == <<first>> \o BE4(n)
  <2>5. w \in Seq(Bytes) /\ Len(w) = 1 + Len(BE4(n))
    BY Zenon, <2>2, <2>4, Prepended
  <2> HIDE DEF w
  <2>6. Lat(n, 5) \in Seq(Bytes) /\ Len(Lat(n, 5)) = 5
    <3>1. Len(w) = 5
      BY SMT, <2>2, <2>5
    <3>2. Lat(n, 5) = w
      BY <2>3 DEF w, first
    <3> QED BY <2>5, <3>1, <3>2
  <2> QED BY <1>5, <2>6
<1> QED BY SMT, <1>1, <1>2, <1>3, <1>4, <1>5

\* An unsigned integer goes in the bytes chosen for it.
LEMMA UnsignedSize ==
  ASSUME Byte = 256, NEW n \in Nat, n < W4
  PROVE  LatSizeOf(n) \in 1..5 /\ n < Room(LatSizeOf(n))
<1> HIDE DEF Room
<1>1. n < Room(5)
  BY SMT, Powers, Rooms
<1> QED BY SMT, <1>1, Rooms DEF LatSizeOf

\* What putUIntLat wrote, getUIntLat reads back, and goes past exactly its bytes,
\* whatever follows.
THEOREM UnsignedReadBack ==
  ASSUME Byte = 256, NEW n \in Nat, n < W4, NEW rest \in Seq(Bytes)
  PROVE  GetUIntLat(PutUIntLat(n) \o rest) = Got(n, Len(PutUIntLat(n)))
<1> DEFINE k == LatSizeOf(n)
           s == Lat(n, k)
           b == s \o rest
<1>1. k \in 1..5 /\ n < Room(k)
  BY UnsignedSize
<1>2. s \in Seq(Bytes) /\ Len(s) = k
  BY <1>1, Shapes
<1>3. PutUIntLat(n) = s
  BY DEF PutUIntLat
<1> HIDE DEF k, s
<1>4. b \in Seq(Bytes) /\ Len(b) >= k /\ \A i \in 1..k : b[i] = s[i]
  BY SMT, <1>1, <1>2, Begins
<1>5. LatSize(b[1]) = k /\ LatBits(b, k) = n
  <2>1. \A i \in 1..k : b[i] = Lat(n, k)[i]
    BY <1>4 DEF s
  <2> HIDE DEF b
  <2> QED BY <1>1, <1>4, <2>1, LatRead
<1> HIDE DEF b
<1>6. Whole(b)
  BY SMT, <1>1, <1>4, <1>5 DEF Whole
<1> QED BY <1>2, <1>3, <1>5, <1>6 DEF GetUIntLat, b

-----------------------------------------------------------------------------
(* Signed integers. *)

\* So does a signed one, as a complement its sign is found in.
LEMMA SignedSize ==
  ASSUME Byte = 256, NEW n \in Int, -(W4 \div 2) <= n, n < W4 \div 2
  PROVE  /\ SLatSizeOf(n) \in 1..5
         /\ Complement(n, SLatSizeOf(n)) \in Nat
         /\ Complement(n, SLatSizeOf(n)) < Room(SLatSizeOf(n))
         /\ SignExtend(Complement(n, SLatSizeOf(n)), Room(SLatSizeOf(n))) = n
<1> DEFINE m == IF n < 0 THEN 2 * (-n - 1) ELSE 2 * n
           k == SLatSizeOf(n)
<1>1. m \in Nat /\ m < W4
  BY SMT, Powers
<1>2. k = LatSizeOf(m)
  BY DEF SLatSizeOf
<1>3. k \in 1..5 /\ m < Room(k)
  BY <1>1, <1>2, UnsignedSize
<1> HIDE DEF k
<1>4. PICK half \in Nat : Room(k) = 2 * half
  BY SMT, <1>3, Rooms
<1>5. -half <= n /\ n < half
  BY SMT, <1>3, <1>4
<1>6. Complement(n, k) = IF n < 0 THEN n + 2 * half ELSE n
  BY <1>4 DEF Complement
<1>7. Complement(n, k) \in Nat /\ Complement(n, k) < 2 * half
  BY SMT, <1>5, <1>6
<1>8. SignExtend(Complement(n, k), Room(k))
        = IF Complement(n, k) < half THEN Complement(n, k) ELSE Complement(n, k) - 2 * half
  <2>1. (2 * half) \div 2 = half
    BY SMT
  <2> QED BY <1>4, <2>1 DEF SignExtend
<1>9. SignExtend(Complement(n, k), Room(k)) = n
  BY SMT, <1>5, <1>6, <1>8
<1> QED BY <1>3, <1>4, <1>7, <1>9 DEF k

\* A complement found in the right number of bytes is read as the signed integer.
LEMMA SignedRead ==
  ASSUME Byte = 256, NEW n \in Int, -(W4 \div 2) <= n, n < W4 \div 2,
         NEW b \in Seq(Bytes), Len(b) >= SLatSizeOf(n),
         LatSize(b[1]) = SLatSizeOf(n),
         LatBits(b, SLatSizeOf(n)) = Complement(n, SLatSizeOf(n))
  PROVE  GetSIntLat(b) = Got(n, SLatSizeOf(n))
<1>1. SLatSizeOf(n) \in 1..5
  BY SignedSize
<1>2. Whole(b)
  BY SMT, <1>1 DEF Whole
<1> QED BY <1>2, SignedSize DEF GetSIntLat

\* What Python's ejcritNombreSLat wrote, C++'s getSIntLat reads back, although the
\* first of five bytes is not the one C++ writes.
THEOREM PythonSignedReadBack ==
  ASSUME Byte = 256, NEW n \in Int, -(W4 \div 2) <= n, n < W4 \div 2,
         NEW rest \in Seq(Bytes)
  PROVE  GetSIntLat(EjcritNombreSLat(n) \o rest) = Got(n, SLatSizeOf(n))
<1> DEFINE k == SLatSizeOf(n)
           c == Complement(n, k)
           s == Lat(c, k)
           b == s \o rest
<1>1. k \in 1..5 /\ c \in Nat /\ c < Room(k)
  BY SignedSize
<1>2. s \in Seq(Bytes) /\ Len(s) = k
  BY <1>1, Shapes
<1>3. EjcritNombreSLat(n) = s
  BY DEF EjcritNombreSLat
<1> HIDE DEF k, c, s
<1>4. b \in Seq(Bytes) /\ Len(b) >= k /\ \A i \in 1..k : b[i] = s[i]
  BY SMT, <1>1, <1>2, Begins
<1>5. LatSize(b[1]) = k /\ LatBits(b, k) = c
  <2>1. \A i \in 1..k : b[i] = Lat(c, k)[i]
    BY <1>4 DEF s
  <2> HIDE DEF b
  <2> QED BY <1>1, <1>4, <2>1, LatRead
<1> HIDE DEF b
<1>6. GetSIntLat(b) = Got(n, k)
  BY <1>4, <1>5, SignedRead DEF k, c
<1> QED BY <1>3, <1>6 DEF b, k

\* What putSIntLat wrote, getSIntLat reads back, negative or not.
THEOREM SignedReadBack ==
  ASSUME Byte = 256, NEW n \in Int, -(W4 \div 2) <= n, n < W4 \div 2,
         NEW rest \in Seq(Bytes)
  PROVE  GetSIntLat(PutSIntLat(n) \o rest) = Got(n, SLatSizeOf(n))
<1> DEFINE k == SLatSizeOf(n)
           c == Complement(n, k)
           s == PutSIntLat(n)
           b == s \o rest
<1>0. CASE ~(k = 5 /\ n < 0)
  <2>1. PutSIntLat(n) = EjcritNombreSLat(n)
    BY <1>0 DEF PutSIntLat, EjcritNombreSLat
  <2> QED BY <2>1, PythonSignedReadBack
<1>1. CASE k = 5 /\ n < 0
  <2>1. k \in 1..5 /\ c \in Nat /\ c < Room(k)
    BY SignedSize
  <2> DEFINE t == Lat(c, k)
  <2>2. t \in Seq(Bytes) /\ Len(t) = 5
    BY <1>1, <2>1, Shapes
  <2>3. s = [t EXCEPT ![1] = @ + Byte \div 32 - 1]
    BY <1>1 DEF PutSIntLat
  <2>4. t[1] = 240
    BY SMT, <1>1 DEF Lat, BE4
  <2>5. LatSize(t[1]) = 5 /\ LatBits(t, 5) = c
    BY SMT, <1>1, <2>1, <2>2, LatRead
  <2> HIDE DEF t, c, k
  <2>6. s = [t EXCEPT ![1] = 247]
    BY SMT, <2>3, <2>4
  <2>7. s \in Seq(Bytes) /\ Len(s) = 5 /\ s[1] = 247 /\ \A i \in 2..5 : s[i] = t[i]
    <3> DEFINE first == 247
    <3>1. first \in Bytes /\ Len(t) >= 1 /\ t \in Seq(Bytes)
      BY SMT, <2>2 DEF Bytes
    <3>2. s = [t EXCEPT ![1] = first]
      BY SMT, <2>6
    <3> HIDE DEF first
    <3> DEFINE r == [t EXCEPT ![1] = first]
    <3>3. /\ r \in Seq(Bytes) /\ Len(r) = Len(t)
          /\ \A i \in 1..Len(t) : r[i] = IF i = 1 THEN first ELSE t[i]
      BY SMT, <3>1, Replaced
    <3> HIDE DEF r
    <3> QED BY SMT, <2>2, <3>2, <3>3 DEF first, r
  <2> HIDE DEF s
  <2>8. b \in Seq(Bytes) /\ Len(b) >= 5 /\ \A i \in 1..5 : b[i] = s[i]
    <3>1. s \in Seq(Bytes)
      BY <2>7
    <3>2. b \in Seq(Bytes) /\ Len(b) = Len(s) + Len(rest) /\ \A i \in 1..Len(s) : b[i] = s[i]
      BY <3>1, Begins
    <3>3. Len(rest) \in Nat
      BY SMT
    <3> HIDE DEF b
    <3> QED BY SMT, <2>7, <3>2, <3>3
  <2> HIDE DEF b
  <2>9. b[1] = 247 /\ \A i \in 2..5 : b[i] = t[i]
    BY SMT, <2>7, <2>8
  <2>10. LatSize(b[1]) = 5
    BY SMT, <2>9, Sizes DEF Bytes
  <2>11. LatBits(b, 5) = LatBits(t, 5)
    BY SMT, <2>9 DEF LatBits, OfBE3, OfBE4
  <2>12. GetSIntLat(b) = Got(n, k)
    BY SMT, <1>1, <2>5, <2>8, <2>10, <2>11, SignedRead DEF k, c
  <2> QED BY <2>12 DEF b, s, k
<1> QED BY <1>0, <1>1

-----------------------------------------------------------------------------
(* Python and C++. *)

\* The sign's bit, that Python looks at, is the one sign extension does.
LEMMA PythonBits ==
  ASSUME Byte = 256, NEW x \in Bytes
  PROVE  /\ Bit(x, 4) \in {0, 1} /\ Bit(x, 8) \in {0, 1}
         /\ Bit(x, 16) \in {0, 1} /\ Bit(x, 32) \in {0, 1}
         /\ x < 128 => (Bit(x, 4) = 0 <=> x % 128 < 64)
         /\ x >= 128 /\ x < 192 => (Bit(x, 8) = 0 <=> x % 64 < 32)
         /\ x >= 192 /\ x < 224 => (Bit(x, 16) = 0 <=> x % 32 < 16)
         /\ x >= 224 /\ x < 240 => (Bit(x, 32) = 0 <=> x % 16 < 8)
BY SMT DEF Bit, Bytes

\* On any bytes, cut short or not an integer too, Python's litNombreULat gives what
\* getUIntLat gives.
THEOREM PythonReadsUnsigned ==
  ASSUME Byte = 256, NEW b \in Seq(Bytes)
  PROVE  LitNombreULat(b) = GetUIntLat(b)
<1>0. CASE b = <<>>
  BY SMT, <1>0 DEF LitNombreULat, GetUIntLat, Whole
<1> SUFFICES ASSUME b # <<>>  PROVE LitNombreULat(b) = GetUIntLat(b)
  BY <1>0
<1> DEFINE x == b[1]
<1>1. Len(b) >= 1 /\ Len(b) \in Nat /\ x \in Bytes /\ x \in 0..255
  <2>1. Len(b) >= 1 /\ Len(b) \in Nat /\ x \in Bytes
    BY SMT
  <2> QED BY SMT, <2>1 DEF Bytes
<1> HIDE DEF x
<1>2. CASE x < 128
  <2>1. LatSize(x) = 1 /\ Bit(x, 2) = 0 /\ x % 128 = x
    BY SMT, <1>1, <1>2, Sizes, FirstByte
  <2> QED BY SMT, <1>1, <2>1 DEF LitNombreULat, GetUIntLat, Whole, LatBits, x
<1>3. CASE x >= 128 /\ x < 192
  <2>1. LatSize(x) = 2 /\ Bit(x, 2) # 0 /\ Bit(x, 4) = 0
    BY SMT, <1>1, <1>3, Sizes, FirstByte
  <2> QED BY SMT, <1>1, <2>1 DEF LitNombreULat, GetUIntLat, Whole, LatBits, x
<1>4. CASE x >= 192 /\ x < 224
  <2>1. LatSize(x) = 3 /\ Bit(x, 2) # 0 /\ Bit(x, 4) # 0 /\ Bit(x, 8) = 0
    BY SMT, <1>1, <1>4, Sizes, FirstByte
  <2> QED BY SMT, <1>1, <2>1 DEF LitNombreULat, GetUIntLat, Whole, LatBits, OfBE2, x
<1>5. CASE x >= 224 /\ x < 240
  <2>1. LatSize(x) = 4 /\ Bit(x, 2) # 0 /\ Bit(x, 4) # 0 /\ Bit(x, 8) # 0 /\ Bit(x, 16) = 0
    BY SMT, <1>1, <1>5, Sizes, FirstByte
  <2> QED BY SMT, <1>1, <2>1 DEF LitNombreULat, GetUIntLat, Whole, LatBits, OfBE3, x
<1>6. CASE x >= 240
  <2>1. /\ Bit(x, 2) # 0 /\ Bit(x, 4) # 0 /\ Bit(x, 8) # 0 /\ Bit(x, 16) # 0
        /\ LatSize(x) = IF Bit(x, 32) = 0 THEN 5 ELSE 0
    BY SMT, <1>1, <1>6, FirstByte DEF LatSize
  <2> QED BY SMT, <1>1, <2>1 DEF LitNombreULat, GetUIntLat, Whole, LatBits, OfBE3, OfBE4, x
<1> QED BY SMT, <1>1, <1>2, <1>3, <1>4, <1>5, <1>6 DEF Bytes

\* And litNombreSLat what getSIntLat gives, although it finds the sign in the first
\* byte instead of extending the value's.
THEOREM PythonReadsSigned ==
  ASSUME Byte = 256, NEW b \in Seq(Bytes)
  PROVE  LitNombreSLat(b) = GetSIntLat(b)
<1>0. CASE b = <<>>
  BY SMT, <1>0 DEF LitNombreSLat, GetSIntLat, Whole
<1> SUFFICES ASSUME b # <<>>  PROVE LitNombreSLat(b) = GetSIntLat(b)
  BY <1>0
<1> DEFINE x == b[1]
<1>1. Len(b) >= 1 /\ Len(b) \in Nat /\ x \in Bytes /\ x \in 0..255
  <2>1. Len(b) >= 1 /\ Len(b) \in Nat /\ x \in Bytes
    BY SMT
  <2> QED BY SMT, <2>1 DEF Bytes
<1>9. \A i \in 1..Len(b) : b[i] \in Nat /\ b[i] < 256
  <2>1. \A i \in 1..Len(b) : b[i] \in Bytes
    BY SMT
  <2> QED BY SMT, <2>1, ByteRange
<1> HIDE DEF x
<1>2. CASE x < 128
  <2>1. LatSize(x) = 1 /\ Bit(x, 2) = 0 /\ x % 128 = x /\ (Bit(x, 4) = 0 <=> x < 64)
    BY SMT, <1>1, <1>2, Sizes, FirstByte, PythonBits
  <2>2. Room(1) = 128 /\ 128 \div 2 = 64
    BY SMT, Rooms
  <2> QED BY SMT, <1>1, <2>1, <2>2 DEF LitNombreSLat, GetSIntLat, Whole, LatBits, SignExtend, x
<1>3. CASE x >= 128 /\ x < 192
  <2>1. LatSize(x) = 2 /\ Bit(x, 2) # 0 /\ Bit(x, 4) = 0 /\ (Bit(x, 8) = 0 <=> x % 64 < 32)
    BY SMT, <1>1, <1>3, Sizes, FirstByte, PythonBits
  <2>2. Room(2) = 16384 /\ Room(2) \div 2 = 8192 /\ W2 \div 4 = 16384
    BY SMT, Rooms, Powers
  <2>3. CASE Len(b) < 2
    BY SMT, <1>1, <2>1, <2>3 DEF LitNombreSLat, GetSIntLat, Whole, x
  <2>4. CASE Len(b) >= 2
    <3> DEFINE p == x % 64
               q == b[2]
               v == p * 256 + q
    <3>0. p \in Nat /\ q \in Nat /\ q < 256
      <4>1. b[2] \in Nat /\ b[2] < 256
        BY SMT, <1>1, <1>9, <2>4
      <4> QED BY SMT, <1>1, <4>1
    <3> HIDE DEF p, q
    <3>1. v < 8192 <=> p < 32
      BY SMT, <3>0
    <3> USE DEF p, q
    <3>2. LatBits(b, 2) = v
      BY SMT DEF LatBits, x
    <3>3. GetSIntLat(b) = Got(IF Bit(x, 8) = 0 THEN v ELSE v - 16384, 2)
      BY SMT, <1>1, <2>1, <2>2, <2>4, <3>1, <3>2 DEF GetSIntLat, Whole, SignExtend, x
    <3> QED BY SMT, <1>1, <2>1, <2>2, <2>4, <3>3 DEF LitNombreSLat, x
  <2> QED BY SMT, <1>1, <2>3, <2>4
<1>4. CASE x >= 192 /\ x < 224
  <2>1. /\ LatSize(x) = 3 /\ Bit(x, 2) # 0 /\ Bit(x, 4) # 0 /\ Bit(x, 8) = 0
        /\ Bit(x, 16) = 0 <=> x % 32 < 16
    BY SMT, <1>1, <1>4, Sizes, FirstByte, PythonBits
  <2>2. Room(3) = 2097152 /\ Room(3) \div 2 = 1048576 /\ W3 \div 8 = 2097152 /\ W2 = 65536
    BY SMT, Rooms, Powers
  <2>3. CASE Len(b) < 3
    BY SMT, <1>1, <2>1, <2>3 DEF LitNombreSLat, GetSIntLat, Whole, x
  <2>4. CASE Len(b) >= 3
    <3> DEFINE p == x % 32
               q == b[2] * 256 + b[3]
               v == p * 65536 + q
    <3>0. p \in Nat /\ q \in Nat /\ q < 65536
      <4>1. b[2] \in Nat /\ b[2] < 256 /\ b[3] \in Nat /\ b[3] < 256
        BY SMT, <1>1, <1>9, <2>4
      <4> QED BY SMT, <1>1, <4>1, Pairs
    <3> HIDE DEF p, q
    <3>1. v < 1048576 <=> p < 16
      BY SMT, <3>0
    <3> USE DEF p, q
    <3>2. LatBits(b, 3) = v
      BY SMT, <2>2 DEF LatBits, OfBE2, x
    <3>3. GetSIntLat(b) = Got(IF Bit(x, 16) = 0 THEN v ELSE v - 2097152, 3)
      BY SMT, <1>1, <2>1, <2>2, <2>4, <3>1, <3>2 DEF GetSIntLat, Whole, SignExtend, x
    <3> QED BY SMT, <1>1, <2>1, <2>2, <2>4, <3>3 DEF LitNombreSLat, OfBE2, x
  <2> QED BY SMT, <1>1, <2>3, <2>4
<1>5. CASE x >= 224 /\ x < 240
  <2>1. /\ LatSize(x) = 4 /\ Bit(x, 2) # 0 /\ Bit(x, 4) # 0 /\ Bit(x, 8) # 0 /\ Bit(x, 16) = 0
        /\ Bit(x, 32) = 0 <=> x % 16 < 8
    BY SMT, <1>1, <1>5, Sizes, FirstByte, PythonBits
  <2>2. /\ Room(4) = 268435456 /\ Room(4) \div 2 = 134217728
        /\ W4 \div 16 = 268435456 /\ W3 = 16777216
    BY SMT, Rooms, Powers
  <2>3. CASE Len(b) < 4
    BY SMT, <1>1, <2>1, <2>3 DEF LitNombreSLat, GetSIntLat, Whole, x
  <2>4. CASE Len(b) >= 4
    <3> DEFINE p == x % 16
               q == (b[2] * 256 + b[3]) * 256 + b[4]
               v == p * 16777216 + q
    <3>0. p \in Nat /\ q \in Nat /\ q < 16777216
      <4>1. b[2] \in Nat /\ b[2] < 256 /\ b[3] \in Nat /\ b[3] < 256 /\ b[4] \in Nat /\ b[4] < 256
        BY SMT, <1>1, <1>9, <2>4
      <4> DEFINE y1 == b[2]
                 y2 == b[3]
                 y3 == b[4]
      <4> HIDE DEF y1, y2, y3
      <4>2. (y1 * 256 + y2) * 256 + y3 \in Nat /\ (y1 * 256 + y2) * 256 + y3 < 16777216
        <5>1. y1 \in Nat /\ y2 \in Nat /\ y3 \in Nat /\ y1 < 256 /\ y2 < 256 /\ y3 < 256
          BY <4>1 DEF y1, y2, y3
        <5> QED BY SMT, <5>1
      <4> USE DEF y1, y2, y3
      <4> QED BY SMT, <1>1, <4>2
    <3> HIDE DEF p, q
    <3>1. v < 134217728 <=> p < 8
      BY SMT, <3>0
    <3> USE DEF p, q
    <3>2. LatBits(b, 4) = v
      BY SMT, <2>2 DEF LatBits, OfBE3, x
    <3>3. GetSIntLat(b) = Got(IF Bit(x, 32) = 0 THEN v ELSE v - 268435456, 4)
      BY SMT, <1>1, <2>1, <2>2, <2>4, <3>1, <3>2 DEF GetSIntLat, Whole, SignExtend, x
    <3> QED BY SMT, <1>1, <2>1, <2>2, <2>4, <3>3 DEF LitNombreSLat, OfBE3, x
  <2> QED BY SMT, <1>1, <2>3, <2>4
<1>6. CASE x >= 240
  <2>1. /\ Bit(x, 2) # 0 /\ Bit(x, 4) # 0 /\ Bit(x, 8) # 0 /\ Bit(x, 16) # 0
        /\ LatSize(x) = IF Bit(x, 32) = 0 THEN 5 ELSE 0
    BY SMT, <1>1, <1>6, FirstByte DEF LatSize
  <2>2. Room(5) = W4
    BY SMT DEF Room
  <2> QED BY SMT, <1>1, <2>1, <2>2 DEF LitNombreSLat, GetSIntLat, Whole, LatBits, x
<1> QED BY SMT, <1>1, <1>2, <1>3, <1>4, <1>5, <1>6 DEF Bytes

-----------------------------------------------------------------------------
(* Differences. *)

\* The difference of two numbers of 32 bits, and one of them, give the other.
LEMMA Differences ==
  ASSUME Byte = 256, NEW n \in Nat, NEW m \in Nat, n < W4, m < W4
  PROVE  /\ Difference(n, m) \in Int
         /\ -(W4 \div 2) <= Difference(n, m) /\ Difference(n, m) < W4 \div 2
         /\ (m + Difference(n, m)) % W4 = n
BY SMT, Powers DEF Difference, SignExtend

\* An identifier is recovered, in 32 bits, from the one before it and their difference
\* as the local index and the lexicon write it, however far apart they are.
THEOREM IdentifierRecovered ==
  ASSUME Byte = 256, NEW n \in Nat, NEW m \in Nat, n < W4, m < W4, NEW rest \in Seq(Bytes)
  PROVE  (m + GetSIntLat(PutSIntLat(Difference(n, m)) \o rest).value) % W4 = n
<1> DEFINE d == Difference(n, m)
<1>1. d \in Int /\ -(W4 \div 2) <= d /\ d < W4 \div 2 /\ (m + d) % W4 = n
  BY Differences
<1> HIDE DEF d
<1>2. GetSIntLat(PutSIntLat(d) \o rest).value = d
  BY <1>1, SignedReadBack DEF Got
<1> QED BY <1>1, <1>2 DEF d

-----------------------------------------------------------------------------
(* Integers of 64 bits. *)

\* Four bytes, high one first, are the number they were made of.
LEMMA Quarters ==
  ASSUME Byte = 256, NEW n \in Nat, n < W4
  PROVE  /\ BE4(n) \in Seq(Bytes) /\ Len(BE4(n)) = 4
         /\ ((BE4(n)[1] * Byte + BE4(n)[2]) * Byte + BE4(n)[3]) * Byte + BE4(n)[4] = n
<1>1. n < 4294967296
  BY SMT, Powers
<1>2. /\ n \div 16777216 \in Bytes /\ (n \div 65536) % 256 \in Bytes
      /\ (n \div 256) % 256 \in Bytes /\ n % 256 \in Bytes
  BY SMT, <1>1 DEF Bytes
<1>3. BE4(n) = <<n \div 16777216, (n \div 65536) % 256, (n \div 256) % 256, n % 256>>
  BY SMT, Powers DEF BE4
<1>4. BE4(n) \in Seq(Bytes) /\ Len(BE4(n)) = 4
  BY SMT, <1>2, <1>3
<1>5. (((n \div 16777216) * 256 + ((n \div 65536) % 256)) * 256 + ((n \div 256) % 256)) * 256
        + (n % 256) = n
  BY SMT, Join4
<1> QED BY SMT, <1>3, <1>4, <1>5

\* What putUIntLat64 wrote, getUIntLat64 reads back: below 2^32 as a latecon integer,
\* that never starts by the mark of the others, and up to 2^64 after that mark.
THEOREM Unsigned64ReadBack ==
  ASSUME Byte = 256, NEW n \in Nat, n < W4 * W4, NEW rest \in Seq(Bytes)
  PROVE  GetUIntLat64(PutUIntLat64(n) \o rest) = Got(n, Len(PutUIntLat64(n)))
<1>1. CASE n < W4
  <2> DEFINE s == PutUIntLat(n)
             b == s \o rest
  <2>1. GetUIntLat(b) = Got(n, Len(s))
    BY <1>1, UnsignedReadBack
  <2>2. s \in Seq(Bytes)
    BY <1>1, UnsignedSize, Shapes DEF PutUIntLat
  <2>3. PutUIntLat64(n) = s
    BY <1>1 DEF PutUIntLat64
  <2> HIDE DEF s
  <2>4. b \in Seq(Bytes)
    BY <2>2, Begins
  <2> HIDE DEF b
  <2>5. b # <<>> /\ LatSize(b[1]) # 0
    BY SMT, <2>1 DEF GetUIntLat, Whole, Got, Refused
  <2>6. b[1] # Mark64
    <3>1. Mark64 = 248
      BY SMT DEF Mark64
    <3>2. b[1] \in Bytes
      BY SMT, <2>4, <2>5
    <3>3. LatSize(248) = 0
      BY SMT, Sizes DEF Bytes
    <3> QED BY <2>5, <3>1, <3>3
  <2> QED BY <2>1, <2>3, <2>5, <2>6 DEF GetUIntLat64, b
<1>2. CASE n >= W4
  <2> DEFINE h == n \div W4
             l == n % W4
             s == BE4(h) \o BE4(l)
             t == <<Mark64>> \o s
             b == t \o rest
  <2>1. h \in Nat /\ l \in Nat /\ h < W4 /\ l < W4 /\ h >= 1 /\ h * W4 + l = n
    BY SMT, <1>2, Powers
  <2>2. PutUIntLat64(n) = t
    <3>1. ~(n < W4)
      BY SMT, <1>2, Powers
    <3> QED BY <3>1 DEF PutUIntLat64, PutInt8
  <2> HIDE DEF h, l
  <2>3. s \in Seq(Bytes) /\ Len(s) = 8 /\ \A i \in 1..4 : s[i] = BE4(h)[i] /\ s[i + 4] = BE4(l)[i]
    <3> DEFINE u == BE4(h)
               v == BE4(l)
    <3>1. u \in Seq(Bytes) /\ Len(u) = 4 /\ v \in Seq(Bytes) /\ Len(v) = 4
      BY <2>1, Quarters
    <3> HIDE DEF u, v
    <3>2. u \o v \in Seq(Bytes) /\ Len(u \o v) = Len(u) + Len(v)
          /\ \A i \in 1..Len(u) + Len(v) : (u \o v)[i] = IF i <= Len(u) THEN u[i] ELSE v[i - Len(u)]
      BY <3>1, ConcatProperties
    <3>3. Len(u \o v) = 8 /\ \A i \in 1..4 : (u \o v)[i] = u[i] /\ (u \o v)[i + 4] = v[i]
      BY SMT, <3>1, <3>2
    <3> QED BY <3>2, <3>3 DEF u, v
  <2> HIDE DEF s
  <2>4. t \in Seq(Bytes) /\ Len(t) = 9 /\ t[1] = 248 /\ \A i \in 1..8 : t[i + 1] = s[i]
    <3> DEFINE u == <<Mark64>>
    <3>1. Mark64 = 248 /\ Mark64 \in Bytes
      BY SMT DEF Mark64, Bytes
    <3>2. u \in Seq(Bytes) /\ Len(u) = 1 /\ u[1] = 248
      BY SMT, <3>1
    <3>3. t = u \o s /\ s \in Seq(Bytes) /\ u \in Seq(Bytes)
      BY <2>3, <3>2
    <3> HIDE DEF u, t
    <3>4. u \o s \in Seq(Bytes) /\ Len(u \o s) = Len(u) + Len(s)
          /\ \A i \in 1..Len(u) + Len(s) : (u \o s)[i] = IF i <= Len(u) THEN u[i] ELSE s[i - Len(u)]
      BY Zenon, <3>3, ConcatProperties
    <3>5. t \in Seq(Bytes) /\ Len(t) = 9
      BY SMT, <2>3, <3>2, <3>3, <3>4
    <3>6. t[1] = 248
      BY SMT, <2>3, <3>2, <3>3, <3>4
    <3>7. ASSUME NEW i \in 1..8  PROVE t[i + 1] = s[i]
      <4>1. i + 1 \in 1..Len(u) + Len(s) /\ ~(i + 1 <= Len(u)) /\ i + 1 - Len(u) = i
        BY SMT, <2>3, <3>2
      <4> QED BY SMT, <3>3, <3>4, <4>1
    <3> QED BY SMT, <3>5, <3>6, <3>7
  <2> HIDE DEF t
  <2>5. b \in Seq(Bytes) /\ Len(b) >= 9 /\ \A i \in 1..9 : b[i] = t[i]
    <3>1. t \in Seq(Bytes)
      BY <2>4
    <3>2. b \in Seq(Bytes) /\ Len(b) = Len(t) + Len(rest) /\ \A i \in 1..Len(t) : b[i] = t[i]
      BY Zenon, <3>1, Begins
    <3>3. Len(rest) \in Nat
      BY SMT
    <3> HIDE DEF b
    <3> QED BY SMT, <2>4, <3>2, <3>3
  <2> HIDE DEF b
  <2>6. b[1] = 248 /\ \A i \in 1..4 : b[i + 1] = BE4(h)[i] /\ b[i + 5] = BE4(l)[i]
    <3>1. b[1] = 248
      BY SMT, <2>4, <2>5
    <3>2. ASSUME NEW i \in 1..4
          PROVE  b[i + 1] = t[i + 1] /\ b[i + 5] = t[i + 5]
      <4>1. i + 1 \in 1..9 /\ i + 5 \in 1..9
        BY SMT
      <4> QED BY <4>1, <2>5
    <3> QED BY SMT, <3>1, <3>2, <2>3, <2>4
  <2>7. OfBE4(b, 2) = h /\ OfBE4(b, 6) = l
    BY SMT, <2>1, <2>6, Quarters DEF OfBE3, OfBE4
  <2>8. GetUIntLat64(b) = Got(n, 9)
    <3>1. Mark64 = 248 /\ ~(Len(b) < 9) /\ b # <<>>
      BY SMT, <2>5 DEF Mark64
    <3>2. OfBE4(b, 2) * W4 + OfBE4(b, 6) = n
      BY <2>1, <2>7
    <3>3. ~(n < W4)
      BY SMT, <1>2, Powers
    <3> QED BY <2>6, <3>1, <3>2, <3>3 DEF GetUIntLat64
  <2> QED BY <2>2, <2>4, <2>8 DEF b
<1> QED BY SMT, <1>1, <1>2, Powers

=============================================================================
