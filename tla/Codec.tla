-------------------------------- MODULE Codec --------------------------------
(***************************************************************************)
(* The integers of the files: those of a fixed number of bytes, and the    *)
(* "latecon" ones, whose first byte says by its high bits how many follow. *)
(* C++ writes and reads them in buffers (NindFile, NindReadBuffer), Python *)
(* in files (nind.NindFile).  Bits set with | where the value has none are *)
(* added here, and masked ones are remainders.                             *)
(***************************************************************************)
EXTENDS Integers, Sequences

CONSTANT Byte   \* the values of a byte: 256, and smaller where TLC has to count

W2 == Byte * Byte
W3 == Byte * W2
W4 == Byte * W3
Bytes == 0..(Byte - 1)

\* A decoder's result: the value and the bytes it took, or an exception, that
\* leaves the cursor where it was.
Got(value, taken) == [ok |-> TRUE, value |-> value, taken |-> taken]
Refused == [ok |-> FALSE, value |-> 0, taken |-> 0]

-----------------------------------------------------------------------------
(* Integers of a fixed width. *)

LE3(n) == <<n % Byte, (n \div Byte) % Byte, n \div W2>>
BE4(n) == <<n \div W3, (n \div W2) % Byte, (n \div Byte) % Byte, n % Byte>>
LE4(n) == <<n % Byte, (n \div Byte) % Byte, (n \div W2) % Byte, n \div W3>>

OfBE2(b, i) == b[i] * Byte + b[i + 1]
OfBE3(b, i) == (b[i] * Byte + b[i + 1]) * Byte + b[i + 2]
OfBE4(b, i) == OfBE3(b, i) * Byte + b[i + 3]

\* Two's complement: of the values below range, the upper half is negative.
SignExtend(value, range) == IF value < range \div 2 THEN value ELSE value - range

\* putInt3, putInt4, putInt5, putInt6: refused beyond their width.
PutInt3(n) == IF n < W3 THEN LE3(n) ELSE <<>>
PutInt4(n) == IF n < W4 THEN LE4(n) ELSE <<>>
PutInt5(n) == IF n \div W4 < Byte THEN <<n \div W4>> \o BE4(n % W4) ELSE <<>>
PutInt6(n) ==
  LET high == n \div W4 IN
  IF high < W2 THEN <<high \div Byte, high % Byte>> \o BE4(n % W4) ELSE <<>>
PutInt8(n) == BE4(n \div W4) \o BE4(n % W4)

GetInt3(b) == IF Len(b) < 3 THEN Refused ELSE Got((b[3] * Byte + b[2]) * Byte + b[1], 3)
GetInt4(b) ==
  IF Len(b) < 4 THEN Refused
  ELSE Got(((b[4] * Byte + b[3]) * Byte + b[2]) * Byte + b[1], 4)
GetInt5(b) == IF Len(b) < 5 THEN Refused ELSE Got(b[1] * W4 + OfBE4(b, 2), 5)
GetInt6(b) == IF Len(b) < 6 THEN Refused ELSE Got(OfBE2(b, 1) * W4 + OfBE4(b, 3), 6)
GetInt8(b) == IF Len(b) < 8 THEN Refused ELSE Got(OfBE4(b, 1) * W4 + OfBE4(b, 5), 8)

-----------------------------------------------------------------------------
(* Latecon integers. *)

\* What k bytes hold.
Room(k) ==
  CASE k = 1 -> Byte \div 2
    [] k = 2 -> W2 \div 4
    [] k = 3 -> W3 \div 8
    [] k = 4 -> W4 \div 16
    [] k = 5 -> W4

\* The value, below Room(k), in k bytes: the first one has 0x80, 0xC0, 0xE0, 0xF0.
Lat(n, k) ==
  CASE k = 1 -> <<n>>
    [] k = 2 -> <<Byte \div 2 + n \div Byte, n % Byte>>
    [] k = 3 -> <<(Byte \div 4) * 3 + n \div W2, (n \div Byte) % Byte, n % Byte>>
    [] k = 4 -> <<(Byte \div 8) * 7 + n \div W3, (n \div W2) % Byte, (n \div Byte) % Byte, n % Byte>>
    [] k = 5 -> <<(Byte \div 16) * 15>> \o BE4(n)

\* putUIntLat: the fewest bytes; refused beyond 32 bits.
LatSizeOf(n) ==
  CASE n < Room(1) -> 1
    [] n >= Room(1) /\ n < Room(2) -> 2
    [] n >= Room(2) /\ n < Room(3) -> 3
    [] n >= Room(3) /\ n < Room(4) -> 4
    [] n >= Room(4) -> 5
PutUIntLat(n) == IF n < W4 THEN Lat(n, LatSizeOf(n)) ELSE <<>>

\* putSIntLat: a negative number's sign fills the first byte, of five bytes too.
SLatSizeOf(n) == LatSizeOf(IF n < 0 THEN 2 * (-n - 1) ELSE 2 * n)
Complement(n, k) == IF n < 0 THEN n + Room(k) ELSE n
PutSIntLat(n) ==
  LET k == SLatSizeOf(n)
      bytes == Lat(Complement(n, k), k)
  IN IF k = 5 /\ n < 0 THEN [bytes EXCEPT ![1] = @ + Byte \div 32 - 1] ELSE bytes

\* A bit of the first byte, from the high one: 0x80 for 2, 0x40 for 4...
Bit(byte, k) == (byte \div (Byte \div k)) % 2

\* The bytes of an integer by its first one; none of them starts by 11111.
LatSize(byte) ==
  IF Bit(byte, 2) = 0 THEN 1
  ELSE IF Bit(byte, 4) = 0 THEN 2
  ELSE IF Bit(byte, 8) = 0 THEN 3
  ELSE IF Bit(byte, 16) = 0 THEN 4
  ELSE IF Bit(byte, 32) = 0 THEN 5
  ELSE 0

LatBits(b, k) ==
  CASE k = 1 -> b[1] % (Byte \div 2)
    [] k = 2 -> (b[1] % (Byte \div 4)) * Byte + b[2]
    [] k = 3 -> (b[1] % (Byte \div 8)) * W2 + OfBE2(b, 2)
    [] k = 4 -> (b[1] % (Byte \div 16)) * W3 + OfBE3(b, 2)
    [] k = 5 -> OfBE4(b, 2)

\* getUIntLat, getSIntLat: within the buffer, b being what is left of it.
Whole(b) == b # <<>> /\ LatSize(b[1]) \in 1..Len(b)
GetUIntLat(b) == IF Whole(b) THEN Got(LatBits(b, LatSize(b[1])), LatSize(b[1])) ELSE Refused
GetSIntLat(b) ==
  LET k == LatSize(b[1])
  IN IF Whole(b) THEN Got(SignExtend(LatBits(b, k), Room(k)), k) ELSE Refused

\* EntierULat64: 0xF8, which no latecon integer starts by, before eight bytes.
Mark64 == (Byte \div 32) * 31
PutUIntLat64(n) == IF n < W4 THEN PutUIntLat(n) ELSE <<Mark64>> \o PutInt8(n)
GetUIntLat64(b) ==
  LET value == OfBE4(b, 2) * W4 + OfBE4(b, 6)
  IN IF b = <<>> \/ b[1] # Mark64 THEN GetUIntLat(b)
     ELSE IF Len(b) < 9 \/ value < W4 THEN Refused
     ELSE Got(value, 9)

\* A difference of two numbers of 32 bits, as a signed integer.
Difference(n, m) == SignExtend((n - m) % W4, W4)

-----------------------------------------------------------------------------
(* The same in Python, byte after byte. *)

LitNombreULat(b) ==
  LET result(k) == CASE k = 2 -> b[2]
                     [] k = 3 -> b[2] * Byte + b[3]
                     [] k = 4 -> (b[2] * Byte + b[3]) * Byte + b[4]
                     [] k = 5 -> ((b[2] * Byte + b[3]) * Byte + b[4]) * Byte + b[5]
  IN IF Len(b) < 1 THEN Refused
     ELSE IF Bit(b[1], 2) = 0 THEN Got(b[1], 1)
     ELSE IF Len(b) < 2 THEN Refused
     ELSE IF Bit(b[1], 4) = 0 THEN Got((b[1] % (Byte \div 4)) * Byte + result(2), 2)
     ELSE IF Len(b) < 3 THEN Refused
     ELSE IF Bit(b[1], 8) = 0 THEN Got((b[1] % (Byte \div 8)) * W2 + result(3), 3)
     ELSE IF Len(b) < 4 THEN Refused
     ELSE IF Bit(b[1], 16) = 0 THEN Got((b[1] % (Byte \div 16)) * W3 + result(4), 4)
     ELSE IF Len(b) < 5 \/ Bit(b[1], 32) # 0 THEN Refused
     ELSE Got(result(5), 5)

\* The sign is the bit after those of the size; the size's bits in it are kept.
LitNombreSLat(b) ==
  LET first == b[1]
  IN IF Len(b) < 1 THEN Refused
     ELSE IF Bit(first, 2) = 0
     THEN Got(IF Bit(first, 4) = 0 THEN first ELSE first - Byte \div 2, 1)
     ELSE IF Len(b) < 2 THEN Refused
     ELSE IF Bit(first, 4) = 0
     THEN Got(LET value == (first % (Byte \div 4)) * Byte + b[2]
              IN IF Bit(first, 8) = 0 THEN value ELSE value - W2 \div 4, 2)
     ELSE IF Len(b) < 3 THEN Refused
     ELSE IF Bit(first, 8) = 0
     THEN Got(LET value == (first % (Byte \div 8)) * W2 + OfBE2(b, 2)
              IN IF Bit(first, 16) = 0 THEN value ELSE value - W3 \div 8, 3)
     ELSE IF Len(b) < 4 THEN Refused
     ELSE IF Bit(first, 16) = 0
     THEN Got(LET value == (first % (Byte \div 16)) * W3 + OfBE3(b, 2)
              IN IF Bit(first, 32) = 0 THEN value ELSE value - W4 \div 16, 4)
     ELSE IF Len(b) < 5 \/ Bit(first, 32) # 0 THEN Refused
     ELSE Got(SignExtend(OfBE4(b, 2), W4), 5)

\* ejcritNombreSLat: as C++, but for the first of five bytes.
EjcritNombreSLat(n) == LET k == SLatSizeOf(n) IN Lat(Complement(n, k), k)

=============================================================================
