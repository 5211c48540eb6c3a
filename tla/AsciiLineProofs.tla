--------------------------- MODULE AsciiLineProofs ----------------------------
(***************************************************************************)
(* The proofs of what AsciiLine promises: for all messages, keys,          *)
(* disturbing characters and any number of disturbances. The inductive     *)
(* invariant follows every byte between the host and the device. Of        *)
(* whatever part of the line may become a chunk it says that the chunk     *)
(* does not pass the checks of RecvData, or is read as one of the messages *)
(* and its checksum but for one byte (Good); that one byte the checksum    *)
(* tells (LrcTells).                                                       *)
(***************************************************************************)
EXTENDS AsciiLine, SequenceFolds

(* The character of a value is one of the format and has that value.       *)
LEMMA CharOfValue ==
  \A d \in 0 .. 15 : HexChar(d) \in AsciiChars /\ HexValue(HexChar(d)) = d
BY SMT DEF HexChar, HexValue, AsciiChars

(* The host's digits are the device's.                                     *)
LEMMA DigitIsHexChar ==
  \A d \in 0 .. 15 : Digits[1 + d] = HexChar(d)
BY SMT DEF Digits, HexChar

(* A byte is its two halves.                                               *)
LEMMA Nibbles ==
  \A b \in Byte : b \div 16 \in 0 .. 15 /\ b % 16 \in 0 .. 15 /\ (b \div 16) * 16 + (b % 16) = b
BY SMT DEF Byte

(* The two characters of a byte are read as the byte.                      *)
LEMMA ByteOfChars ==
  \A b \in Byte : AsciiToHex(HexChar(b \div 16), HexChar(b % 16)) = b
<1> SUFFICES ASSUME NEW b \in Byte
             PROVE  AsciiToHex(HexChar(b \div 16), HexChar(b % 16)) = b
    OBVIOUS
<1> DEFINE high == b \div 16
           low  == b % 16
<1>1. high \in 0 .. 15 /\ low \in 0 .. 15 /\ high * 16 + low = b
    BY Nibbles
<1>2. AsciiToHex(HexChar(high), HexChar(low)) = (high * 16 + low) % 256
    BY <1>1, CharOfValue DEF AsciiToHex
<1>3. (high * 16 + low) % 256 = b
    BY <1>1, SMT DEF Byte
<1> QED
    BY <1>2, <1>3

(* The two characters MODBUS_ASCII_HexToAscii makes of a byte pass         *)
(* MODBUS_ASCII_CheckAscii, and MODBUS_ASCII_AsciiToHex makes the byte of  *)
(* them again.                                                             *)
THEOREM HexRoundTrip ==
  \A b \in Byte :
    /\ CheckAscii(HexToAscii(b))
    /\ AsciiToHex(HexToAscii(b)[1], HexToAscii(b)[2]) = b
<1> SUFFICES ASSUME NEW b \in Byte
             PROVE  /\ CheckAscii(HexToAscii(b))
                    /\ AsciiToHex(HexToAscii(b)[1], HexToAscii(b)[2]) = b
    OBVIOUS
<1>1. b \div 16 \in 0 .. 15 /\ b % 16 \in 0 .. 15 /\ 16 * (b \div 16) + (b % 16) = b
    BY SMT DEF Byte
<1> DEFINE high == b \div 16
           low  == b % 16
<1>2. HexToAscii(b) = <<HexChar(high), HexChar(low)>>
    BY DEF HexToAscii
<1>3. CheckAscii(HexToAscii(b))
    BY <1>1, <1>2, CharOfValue DEF CheckAscii
<1>4. AsciiToHex(HexChar(high), HexChar(low)) = (high * 16 + low) % 256
    BY <1>1, CharOfValue DEF AsciiToHex
<1>5. (high * 16 + low) % 256 = b
    BY <1>1, SMT DEF Byte
<1> QED
    BY <1>2, <1>3, <1>4, <1>5

(* Of two characters MODBUS_ASCII_CheckAscii lets pass, two of different   *)
(* value give different bytes in either place, whatever the other          *)
(* character is: no disturbance of a character that changes its value is   *)
(* lost before the checksum sees the byte.                                 *)
THEOREM CharacterTells ==
  \A c, d, e \in AsciiChars :
    HexValue(c) # HexValue(d) =>
      /\ AsciiToHex(c, e) # AsciiToHex(d, e)
      /\ AsciiToHex(e, c) # AsciiToHex(e, d)
<1>1. \A c \in AsciiChars : HexValue(c) \in 0 .. 15
    BY SMT DEF HexValue, AsciiChars
<1>2. \A v, w \in 0 .. 15 : (v * 16 + w) % 256 = v * 16 + w
    BY SMT
<1>3. \A c, d \in AsciiChars : AsciiToHex(c, d) = HexValue(c) * 16 + HexValue(d)
    BY <1>1, <1>2 DEF AsciiToHex
<1>4. \A v, w, x \in 0 .. 15 : v # w => v * 16 + x # w * 16 + x /\ x * 16 + v # x * 16 + w
    BY SMT
<1> QED
    BY <1>1, <1>3, <1>4

------------------------------------------------------------------------------
(* The checksum                                                            *)

(* The folds are over sequences of integers.                               *)
LEMMA BytesAreInts == Byte \subseteq Int /\ \A s : s \in Seq(Byte) => s \in Seq(Int)
<1>1. Byte \subseteq Int
  BY DEF Byte
<1> QED BY <1>1, SeqMonotonic

(* The host's checksum, chosen so that the sum vanishes, is the one the    *)
(* device computes, and no other byte makes the sum vanish.                *)
LEMMA LrcIs ==
  ASSUME NEW m \in Seq(Byte)
  PROVE  /\ Lrc(m) = (-SumOf(m)) % 256 /\ GetLrc(m) = (-SumOf(m)) % 256
         /\ Lrc(m) \in Byte
         /\ \A b \in Byte : (b + SumOf(m)) % 256 = 0 <=> b = Lrc(m)
<1>1. SumOf(m) \in Int
  BY BytesAreInts, SumTyped
<1>2. GetLrc(m) = (-SumOf(m)) % 256
  BY DEF GetLrc, SumOf
<1>3. Lrc(m) = CHOOSE b \in Byte : (b + SumOf(m)) % 256 = 0
  BY DEF Lrc, SumOf
<1>4. \A s \in Int : \A b \in Byte : (b + s) % 256 = 0 <=> b = (-s) % 256
  BY SMT DEF Byte
<1>5. \A s \in Int : (-s) % 256 \in Byte
  BY SMT DEF Byte
<1>6. Lrc(m) = (-SumOf(m)) % 256
  BY <1>1, <1>3, <1>4, <1>5
<1> QED BY <1>1, <1>2, <1>4, <1>5, <1>6

------------------------------------------------------------------------------
(* The frame                                                               *)

(* What is sent of a message, in bytes.                                    *)
WithLrc(m) == Append(m, Lrc(m))

(* Its bytes.                                                              *)
LEMMA BytesOfFrame ==
  ASSUME NEW m \in Seq(Byte)
  PROVE  /\ WithLrc(m) \in Seq(Byte) /\ Len(WithLrc(m)) = Len(m) + 1 /\ Len(m) \in Nat
         /\ \A i \in 1 .. Len(m) : WithLrc(m)[i] = m[i]
         /\ WithLrc(m)[Len(m) + 1] = Lrc(m)
BY LrcIs, AppendProperties DEF WithLrc

(* The digits that the host and the device send.                           *)
HexDigit == 48 .. 57 \cup 65 .. 70

(* They are characters of the format, which has none of the three that     *)
(* frame a message.                                                        *)
LEMMA HexDigits ==
  /\ \A d \in 0 .. 15 : HexChar(d) \in HexDigit
  /\ HexDigit \subseteq AsciiChars /\ AsciiChars \subseteq Byte
  /\ {10, 13, 58} \cap AsciiChars = {} /\ {10, 13, 58} \subseteq Byte
BY SMT DEF HexChar, HexDigit, AsciiChars, Byte

(* The places of the two characters of a byte.                             *)
LEMMA Halves ==
  \A k \in Int : /\ (2 * k - 1) % 2 = 1 /\ (2 * k) % 2 = 0
                  /\ (2 * k - 1 + 1) \div 2 = k /\ (2 * k + 1) \div 2 = k
BY SMT

(* The characters of a frame, one by one.                                  *)
LEMMA FrameShape ==
  ASSUME NEW m \in Seq(Byte)
  PROVE  LET F == Frame(m)
             B == WithLrc(m)
             n == Len(m) + 1
         IN  /\ F \in Seq(Byte) /\ Len(F) = 2 * n + 3
             /\ F[1] = 58 /\ F[2 * n + 2] = 13 /\ F[2 * n + 3] = 10
             /\ \A i \in 2 .. 2 * n + 1 : F[i] \in HexDigit
             /\ \A k \in 1 .. n : /\ F[2 * k] = HexChar(B[k] \div 16)
                                  /\ F[2 * k + 1] = HexChar(B[k] % 16)
<1> DEFINE B == WithLrc(m)
           n == Len(m) + 1
           D(i) == Digits[1 + (IF i % 2 = 1 THEN B[(i + 1) \div 2] \div 16 ELSE B[(i + 1) \div 2] % 16)]
           X == [i \in 1 .. 2 * n |-> D(i)]
<1>1. B \in Seq(Byte) /\ Len(B) = n /\ n \in Nat \ {0}
  BY BytesOfFrame
<1>2. Frame(m) = (<<58>> \o X) \o <<13, 10>>
  BY <1>1 DEF Frame, WithLrc
<1>3. ASSUME NEW i \in 1 .. 2 * n
      PROVE  D(i) \in HexDigit
  <2>1. (i + 1) \div 2 \in 1 .. n
    BY <1>1
  <2>2. B[(i + 1) \div 2] \in Byte
    BY <1>1, <2>1
  <2>3. \A b \in Byte : b \div 16 \in 0 .. 15 /\ b % 16 \in 0 .. 15
    BY Nibbles
  <2> QED BY <2>2, <2>3, DigitIsHexChar, HexDigits
<1>4. X \in Seq(Byte) /\ Len(X) = 2 * n /\ \A i \in 1 .. 2 * n : X[i] = D(i)
  <2>1. \A i \in 1 .. 2 * n : D(i) \in Byte
    BY <1>3, HexDigits
  <2>2. 2 * n \in Nat
    BY <1>1
  <2> HIDE DEF D
  <2> QED BY <2>1, <2>2
<1>5. <<58>> \in Seq(Byte) /\ <<13, 10>> \in Seq(Byte) /\ Len(<<58>>) = 1 /\ Len(<<13, 10>>) = 2
  BY HexDigits
<1> HIDE DEF X, D
<1> DEFINE Y == <<58>> \o X
<1>6. Y \in Seq(Byte) /\ Len(Y) = 2 * n + 1 /\ Y[1] = 58 /\ \A i \in 2 .. 2 * n + 1 : Y[i] = D(i - 1)
  <2>1. /\ Y \in Seq(Byte) /\ Len(Y) = 1 + 2 * n
        /\ \A i \in 1 .. 1 + 2 * n : Y[i] = IF i <= 1 THEN <<58>>[i] ELSE X[i - 1]
    BY <1>4, <1>5, ConcatProperties
  <2>2. 2 * n \in Nat
    BY <1>1
  <2> HIDE DEF Y
  <2>3. Y[1] = 58
    BY <2>1, <2>2
  <2>4. ASSUME NEW i \in 2 .. 2 * n + 1 PROVE Y[i] = D(i - 1)
    <3>1. i \in 1 .. 1 + 2 * n /\ ~(i <= 1) /\ i - 1 \in 1 .. 2 * n
      BY <2>2
    <3> QED BY <1>4, <2>1, <3>1
  <2> QED BY <2>1, <2>2, <2>3, <2>4
<1> HIDE DEF Y
<1> DEFINE Z == Y \o <<13, 10>>
<1>7. /\ Z \in Seq(Byte) /\ Len(Z) = 2 * n + 3
      /\ Z[1] = 58
      /\ \A i \in 2 .. 2 * n + 1 : Z[i] = D(i - 1)
      /\ Z[2 * n + 2] = 13 /\ Z[2 * n + 3] = 10
  <2>1. /\ Z \in Seq(Byte) /\ Len(Z) = 2 * n + 1 + 2
        /\ \A i \in 1 .. 2 * n + 1 + 2 :
             Z[i] = IF i <= 2 * n + 1 THEN Y[i] ELSE <<13, 10>>[i - (2 * n + 1)]
    BY <1>5, <1>6, ConcatProperties
  <2>2. 2 * n \in Nat
    BY <1>1
  <2> HIDE DEF Z
  <2>3. Z[1] = 58 /\ \A i \in 2 .. 2 * n + 1 : Z[i] = D(i - 1)
    BY <1>6, <2>1, <2>2
  <2>4. Z[2 * n + 2] = <<13, 10>>[1] /\ Z[2 * n + 3] = <<13, 10>>[2]
    BY <2>1, <2>2
  <2> QED BY <2>1, <2>2, <2>3, <2>4
<1> HIDE DEF Z
<1>8. Frame(m) = Z
  BY <1>2 DEF Y, Z
<1> USE DEF D
<1>9. ASSUME NEW k \in 1 .. n
      PROVE  D(2 * k - 1) = HexChar(B[k] \div 16) /\ D(2 * k) = HexChar(B[k] % 16)
  <2>1. (2 * k - 1) % 2 = 1 /\ (2 * k) % 2 = 0 /\ (2 * k - 1 + 1) \div 2 = k /\ (2 * k + 1) \div 2 = k
    OBVIOUS
  <2>2. B[k] \in Byte
    BY <1>1
  <2>3. D(2 * k - 1) = Digits[1 + (B[k] \div 16)] /\ D(2 * k) = Digits[1 + (B[k] % 16)]
    BY <2>1
  <2> QED BY <2>2, <2>3, Nibbles, DigitIsHexChar
<1>10. \A k \in 1 .. n : /\ Frame(m)[2 * k] = HexChar(B[k] \div 16)
                         /\ Frame(m)[2 * k + 1] = HexChar(B[k] % 16)
  <2> SUFFICES ASSUME NEW k \in 1 .. n
               PROVE  /\ Frame(m)[2 * k] = HexChar(B[k] \div 16)
                      /\ Frame(m)[2 * k + 1] = HexChar(B[k] % 16)
    OBVIOUS
  <2>1. 2 * k - 1 \in 1 .. 2 * n /\ 2 * k \in 1 .. 2 * n /\ 2 * k - 1 + 1 = 2 * k
    BY <1>1
  <2>2. D(2 * k - 1) = HexChar(B[k] \div 16) /\ D(2 * k) = HexChar(B[k] % 16)
    BY <1>9
  <2> HIDE DEF D, B
  <2>3. 2 * k \in 2 .. 2 * n + 1 /\ 2 * k + 1 \in 2 .. 2 * n + 1 /\ 2 * k + 1 - 1 = 2 * k
    BY <1>1
  <2>4. Frame(m)[2 * k] = D(2 * k - 1) /\ Frame(m)[2 * k + 1] = D(2 * k)
    BY <1>7, <1>8, <2>3
  <2> QED BY <2>2, <2>4
<1>11. \A i \in 2 .. 2 * n + 1 : Frame(m)[i] \in HexDigit
  <2> SUFFICES ASSUME NEW i \in 2 .. 2 * n + 1 PROVE Frame(m)[i] \in HexDigit
    OBVIOUS
  <2>1. i - 1 \in 1 .. 2 * n
    BY <1>1
  <2> HIDE DEF D
  <2> QED BY <1>3, <1>7, <1>8, <2>1
<1> QED BY <1>7, <1>8, <1>10, <1>11

(* The elements of two sequences, one behind the other.                    *)
LEMMA Joined ==
  ASSUME NEW S, NEW s \in Seq(S), NEW t \in Seq(S)
  PROVE  /\ s \o t \in Seq(S) /\ Len(s \o t) = Len(s) + Len(t)
         /\ \A i \in 1 .. Len(s) : (s \o t)[i] = s[i]
         /\ \A i \in Len(s) + 1 .. Len(s) + Len(t) : (s \o t)[i] = t[i - Len(s)]
BY ConcatProperties

(* MODBUS_ASCII_HexToAscii.                                                *)
LEMMA TwoChars ==
  ASSUME NEW b \in Byte
  PROVE  /\ HexToAscii(b) = <<HexChar(b \div 16), HexChar(b % 16)>>
         /\ HexToAscii(b) \in Seq(Byte) /\ Len(HexToAscii(b)) = 2
         /\ HexToAscii(b)[1] = HexChar(b \div 16) /\ HexToAscii(b)[2] = HexChar(b % 16)
<1>1. HexChar(b \div 16) \in Byte /\ HexChar(b % 16) \in Byte
  BY Nibbles, HexDigits
<1> QED BY <1>1 DEF HexToAscii

(* MODBUS_ASCII_RtuPacketToAsciiPacket, a fold over the bytes, puts the    *)
(* two characters of each in the places they have in a frame.              *)
LEMMA PacketOfBytes ==
  ASSUME NEW a \in Seq(Byte)
  PROVE  /\ RtuPacketToAsciiPacket(a) \in Seq(Byte) /\ Len(RtuPacketToAsciiPacket(a)) = 2 * Len(a)
         /\ \A k \in 1 .. Len(a) :
              /\ RtuPacketToAsciiPacket(a)[2 * k - 1] = HexChar(a[k] \div 16)
              /\ RtuPacketToAsciiPacket(a)[2 * k] = HexChar(a[k] % 16)
<1> DEFINE n == Len(a)
           Join == [p \in Seq(Byte) \X Byte |-> p[1] \o HexToAscii(p[2])]
           Eq(f) == f = [s \in SUBSET (1 .. n) |->
                           IF s = {} THEN <<>> ELSE f[s \ {Max(s)}] \o HexToAscii(a[Max(s)])]
           f == CHOOSE f : Eq(f)
<1>0. n \in Nat /\ a \in [1 .. n -> Byte] /\ DOMAIN a = 1 .. n
  OBVIOUS
<1>1. PICK g \in [SUBSET (1 .. n) -> Seq(Byte)] : Folds(g, Join, <<>>, a)
  <2>1. \A s \in Seq(Byte), b \in Byte : s \o HexToAscii(b) \in Seq(Byte)
    BY TwoChars, ConcatProperties
  <2>2. Join \in [Seq(Byte) \X Byte -> Seq(Byte)] /\ <<>> \in Seq(Byte)
    BY <2>1
  <2> HIDE DEF Join, n
  <2> QED BY <1>0, <2>2, FoldExists
<1>2. Eq(g)
  <2> DEFINE E(s) == IF s = {} THEN <<>> ELSE g[s \ {Max(s)}] \o HexToAscii(a[Max(s)])
             G(s) == IF s = {} THEN <<>> ELSE Join[<<g[s \ {Max(s)}], a[Max(s)]>>]
  <2>1. ASSUME NEW s \in SUBSET (1 .. n)
        PROVE  G(s) = E(s)
    <3>1. s # {} => a[Max(s)] \in Byte
      BY <1>0, MaxOfSubset
    <3>2. g[s \ {Max(s)}] \in Seq(Byte)
      BY <1>1
    <3> QED BY <3>1, <3>2
  <2>2. g = [s \in SUBSET (1 .. n) |-> G(s)]
    BY <1>0, <1>1, Zenon DEF Folds
  <2> HIDE DEF E, G
  <2>3. g = [s \in SUBSET (1 .. n) |-> E(s)]
    BY <2>1, <2>2, Zenon
  <2> QED BY <2>3, Zenon DEF E
<1>3. Eq(f)
  <2> HIDE DEF Eq
  <2> QED BY <1>2, Zenon
<1>4. RtuPacketToAsciiPacket(a) = f[1 .. n]
  BY <1>0, Zenon DEF RtuPacketToAsciiPacket, FoldLeft, MapThenFoldSet
<1> HIDE DEF f
<1>5. f[{}] = <<>> /\ \A i \in 1 .. n : f[1 .. i] = f[1 .. i - 1] \o HexToAscii(a[i])
  <2>1. ASSUME NEW i \in 1 .. n
        PROVE  1 .. i \in SUBSET (1 .. n) /\ 1 .. i # {} /\ (1 .. i) \ {Max(1 .. i)} = 1 .. i - 1 /\ Max(1 .. i) = i
    BY <1>0, MaxOfInterval
  <2>2. \A s \in SUBSET (1 .. n) :
          f[s] = IF s = {} THEN <<>> ELSE f[s \ {Max(s)}] \o HexToAscii(a[Max(s)])
    BY <1>3, Zenon
  <2> QED BY <2>1, <2>2, Zenon
<1> DEFINE Q(i) == /\ f[1 .. i] \in Seq(Byte) /\ Len(f[1 .. i]) = 2 * i
                   /\ \A k \in 1 .. i : /\ f[1 .. i][2 * k - 1] = HexChar(a[k] \div 16)
                                       /\ f[1 .. i][2 * k] = HexChar(a[k] % 16)
           N == {i \in 0 .. n : Q(i)}
<1>6. Q(0)
  <2>1. 1 .. 0 = {}
    OBVIOUS
  <2>2. f[1 .. 0] = <<>>
    BY <1>5, <2>1
  <2> QED BY <2>2
<1>7. ASSUME NEW i \in 0 .. n - 1, Q(i)
      PROVE  Q(i + 1)
  <2> DEFINE s == f[1 .. i]
             t == f[1 .. i + 1]
             h == HexToAscii(a[i + 1])
  <2>1. i \in Nat /\ i + 1 \in 1 .. n /\ i + 1 - 1 = i /\ a[i + 1] \in Byte
    BY <1>0
  <2>2. h \in Seq(Byte) /\ Len(h) = 2 /\ h[1] = HexChar(a[i + 1] \div 16) /\ h[2] = HexChar(a[i + 1] % 16)
    BY <2>1, TwoChars
  <2>3. t = s \o h
    <3>1. 1 .. i + 1 - 1 = 1 .. i
      BY <2>1
    <3>2. PICK j \in 1 .. n : j = i + 1
      BY <2>1
    <3>3. f[1 .. j] = f[1 .. j - 1] \o HexToAscii(a[j])
      BY <1>5
    <3>4. 1 .. j - 1 = 1 .. i
      BY <2>1, <3>2
    <3> QED BY <3>2, <3>3, <3>4 DEF h
  <2> HIDE DEF h
  <2>4. /\ s \in Seq(Byte) /\ Len(s) = 2 * i
        /\ \A k \in 1 .. i : s[2 * k - 1] = HexChar(a[k] \div 16) /\ s[2 * k] = HexChar(a[k] % 16)
    BY <1>7
  <2> HIDE DEF s, t
  <2>5. /\ t \in Seq(Byte) /\ Len(t) = 2 * i + 2
        /\ \A j \in 1 .. 2 * i : t[j] = s[j]
        /\ \A j \in 2 * i + 1 .. 2 * i + 2 : t[j] = h[j - 2 * i]
    <3> DEFINE c == 2 * i
    <3>1. c \in Nat /\ Len(s) = c
      BY <2>1, <2>4
    <3> HIDE DEF c
    <3>2. /\ t \in Seq(Byte) /\ Len(t) = Len(s) + Len(h)
          /\ \A j \in 1 .. Len(s) : t[j] = s[j]
          /\ \A j \in Len(s) + 1 .. Len(s) + Len(h) : t[j] = h[j - Len(s)]
      BY <2>2, <2>3, <2>4, Joined
    <3>3. /\ t \in Seq(Byte) /\ Len(t) = c + 2
          /\ \A j \in 1 .. c : t[j] = s[j]
          /\ \A j \in c + 1 .. c + 2 : t[j] = h[j - c]
      BY <2>2, <3>1, <3>2
    <3> QED BY <3>3 DEF c
  <2>6. ASSUME NEW k \in 1 .. i
        PROVE  t[2 * k - 1] = HexChar(a[k] \div 16) /\ t[2 * k] = HexChar(a[k] % 16)
    <3>1. 2 * k - 1 \in 1 .. 2 * i /\ 2 * k \in 1 .. 2 * i
      BY <2>1
    <3> QED BY <2>4, <2>5, <3>1
  <2>7. t[2 * (i + 1) - 1] = h[1] /\ t[2 * (i + 1)] = h[2]
    <3>1. 2 * (i + 1) - 1 = 2 * i + 1 /\ 2 * (i + 1) = 2 * i + 2
      BY <2>1
    <3>2. t[2 * i + 1] = h[1] /\ t[2 * i + 2] = h[2]
      BY <2>1, <2>5
    <3> QED BY <3>1, <3>2
  <2>8. \A k \in 1 .. i + 1 : k \in 1 .. i \/ k = i + 1
    BY <2>1
  <2>9. \A k \in 1 .. i + 1 : t[2 * k - 1] = HexChar(a[k] \div 16) /\ t[2 * k] = HexChar(a[k] % 16)
    BY <2>2, <2>6, <2>7, <2>8
  <2>10. Len(t) = 2 * (i + 1)
    BY <2>1, <2>5
  <2> QED BY <2>5, <2>9, <2>10 DEF t
<1> HIDE DEF Q
<1>8. Q(n)
  <2>1. 0 \in N
    BY <1>0, <1>6
  <2>2. \A i \in 0 .. n - 1 : i \in N => i + 1 \in N
    BY <1>0, <1>7
  <2>3. n \in N => Q(n)
    OBVIOUS
  <2>4. 0 .. n \subseteq N
    <3> HIDE DEF N, n
    <3> QED BY <1>0, <2>1, <2>2, Counting
  <2> QED BY <1>0, <2>3, <2>4
<1> QED BY <1>4, <1>8 DEF Q

(* What MODBUS_ASCII_SendData sends is a frame as the host writes it.      *)
LEMMA SendDataIsFrame ==
  ASSUME NEW a \in Seq(Byte)
  PROVE  SendData(a) = Frame(a)
<1> DEFINE P == RtuPacketToAsciiPacket(a)
           H == HexToAscii(GetLrc(a))
           F == Frame(a)
           B == WithLrc(a)
           n == Len(a) + 1
<1>1. P \in Seq(Byte) /\ Len(P) = 2 * Len(a)
      /\ \A k \in 1 .. Len(a) : P[2 * k - 1] = HexChar(a[k] \div 16) /\ P[2 * k] = HexChar(a[k] % 16)
  BY PacketOfBytes
<1>2. GetLrc(a) = Lrc(a) /\ Lrc(a) \in Byte
  BY LrcIs
<1>3. H \in Seq(Byte) /\ Len(H) = 2 /\ H[1] = HexChar(Lrc(a) \div 16) /\ H[2] = HexChar(Lrc(a) % 16)
  BY <1>2, TwoChars
<1>4. <<58>> \in Seq(Byte) /\ <<13, 10>> \in Seq(Byte) /\ Len(<<58>>) = 1 /\ Len(<<13, 10>>) = 2
  BY HexDigits
<1>5. SendData(a) = ((<<58>> \o P) \o H) \o <<13, 10>>
  BY DEF SendData, ASCII_HEAD_DATA, ASCII_TAIL_FIRST_DATA, ASCII_TAIL_SECOND_DATA
<1>6. /\ F \in Seq(Byte) /\ Len(F) = 2 * n + 3 /\ F[1] = 58 /\ F[2 * n + 2] = 13 /\ F[2 * n + 3] = 10
      /\ \A k \in 1 .. n : F[2 * k] = HexChar(B[k] \div 16) /\ F[2 * k + 1] = HexChar(B[k] % 16)
  BY FrameShape
<1>7. Len(a) \in Nat /\ (\A k \in 1 .. Len(a) : B[k] = a[k]) /\ B[n] = Lrc(a)
  BY BytesOfFrame
<1> HIDE DEF P, H, F, B
<1> DEFINE S1 == <<58>> \o P
           S2 == S1 \o H
           S3 == S2 \o <<13, 10>>
           l == Len(a)
           p == 2 * l
           q == 1 + 2 * l
           r == 3 + 2 * l
<1>8. /\ l \in Nat /\ p \in Nat /\ q \in Nat /\ r \in Nat /\ n = l + 1
      /\ p = 2 * l /\ q = 1 + p /\ q = 1 + 2 * l /\ r = q + 2 /\ r = 3 + 2 * l /\ Len(P) = p
  BY <1>1, <1>7
<1> HIDE DEF p, q, r, n, l, S1, S2, S3
<1>9. S1 \in Seq(Byte) /\ Len(S1) = q /\ S1[1] = 58 /\ \A i \in 2 .. q : S1[i] = P[i - 1]
  <2>1. /\ S1 \in Seq(Byte) /\ Len(S1) = Len(<<58>>) + Len(P)
        /\ \A i \in 1 .. Len(<<58>>) : S1[i] = <<58>>[i]
        /\ \A i \in Len(<<58>>) + 1 .. Len(<<58>>) + Len(P) : S1[i] = P[i - Len(<<58>>)]
    BY <1>1, <1>4, Joined DEF S1
  <2> QED BY <1>4, <1>8, <2>1
<1>10. /\ S2 \in Seq(Byte) /\ Len(S2) = r /\ \A i \in 1 .. q : S2[i] = S1[i]
       /\ S2[q + 1] = H[1] /\ S2[q + 2] = H[2]
  <2>0. S1 \in Seq(Byte) /\ H \in Seq(Byte)
    BY <1>3, <1>9
  <2>1. /\ S2 \in Seq(Byte) /\ Len(S2) = Len(S1) + Len(H)
        /\ \A i \in 1 .. Len(S1) : S2[i] = S1[i]
        /\ \A i \in Len(S1) + 1 .. Len(S1) + Len(H) : S2[i] = H[i - Len(S1)]
    BY <2>0, Joined DEF S2
  <2>2. /\ S2 \in Seq(Byte) /\ Len(S2) = r /\ \A i \in 1 .. q : S2[i] = S1[i]
        /\ \A i \in q + 1 .. q + 2 : S2[i] = H[i - q]
    BY <1>3, <1>8, <1>9, <2>1
  <2>3. q + 1 \in q + 1 .. q + 2 /\ q + 2 \in q + 1 .. q + 2 /\ q + 1 - q = 1 /\ q + 2 - q = 2
    BY <1>8
  <2> QED BY <1>8, <2>2, <2>3
<1>20. /\ S3 \in Seq(Byte) /\ Len(S3) = r + 2 /\ \A i \in 1 .. r : S3[i] = S2[i]
       /\ S3[r + 1] = 13 /\ S3[r + 2] = 10
  <2> DEFINE E == <<13, 10>>
  <2>0. E \in Seq(Byte) /\ Len(E) = 2
    BY <1>4
  <2> HIDE DEF E
  <2>1. /\ S3 \in Seq(Byte) /\ Len(S3) = Len(S2) + Len(E)
        /\ \A i \in 1 .. Len(S2) : S3[i] = S2[i]
        /\ \A i \in Len(S2) + 1 .. Len(S2) + Len(E) : S3[i] = E[i - Len(S2)]
    BY <1>10, <2>0, Joined DEF S3, E
  <2>2. /\ S3 \in Seq(Byte) /\ Len(S3) = r + 2 /\ \A i \in 1 .. r : S3[i] = S2[i]
        /\ \A i \in r + 1 .. r + 2 : S3[i] = E[i - r]
    BY <1>8, <1>10, <2>0, <2>1
  <2>3. r + 1 \in r + 1 .. r + 2 /\ r + 2 \in r + 1 .. r + 2 /\ r + 1 - r = 1 /\ r + 2 - r = 2
    BY <1>8
  <2>4. S3[r + 1] = E[1] /\ S3[r + 2] = E[2]
    BY <1>8, <2>2, <2>3
  <2> QED BY <2>2, <2>4 DEF E
<1>11. S3[1] = F[1]
  BY <1>6, <1>8, <1>9, <1>10, <1>20
<1>12. ASSUME NEW k \in 1 .. l
       PROVE  S3[2 * k] = F[2 * k] /\ S3[2 * k + 1] = F[2 * k + 1]
  <2>1. k \in 1 .. n /\ B[k] = a[k]
    BY <1>7, <1>8 DEF l
  <2>2. F[2 * k] = HexChar(a[k] \div 16) /\ F[2 * k + 1] = HexChar(a[k] % 16)
    BY <1>6, <2>1
  <2>3. ASSUME NEW i \in 2 .. q
        PROVE  S3[i] = P[i - 1]
    <3>1. i \in 1 .. r /\ i \in 1 .. q
      BY <1>8
    <3> QED BY <1>9, <1>10, <1>20, <3>1
  <2>4. 2 * k \in 2 .. q /\ 2 * k + 1 \in 2 .. q /\ 2 * k + 1 - 1 = 2 * k
    BY <1>8
  <2>5. S3[2 * k] = P[2 * k - 1] /\ S3[2 * k + 1] = P[2 * k]
    BY <2>3, <2>4
  <2> QED BY <1>1, <2>2, <2>5 DEF l
<1>13. S3[2 * n] = F[2 * n] /\ S3[2 * n + 1] = F[2 * n + 1]
  <2>1. n \in 1 .. n
    BY <1>8
  <2>2. F[2 * n] = H[1] /\ F[2 * n + 1] = H[2]
    BY <1>3, <1>6, <1>7, <2>1
  <2>3. 2 * n = q + 1 /\ 2 * n + 1 = q + 2 /\ q + 1 \in 1 .. r /\ q + 2 \in 1 .. r
    BY <1>8
  <2> QED BY <1>10, <1>20, <2>2, <2>3
<1>14. S3[2 * n + 2] = F[2 * n + 2] /\ S3[2 * n + 3] = F[2 * n + 3]
  <2>1. 2 * n + 2 = r + 1 /\ 2 * n + 3 = r + 2
    BY <1>8
  <2> QED BY <1>6, <1>20, <2>1
<1>15. ASSUME NEW i \in 1 .. 2 * n + 3
       PROVE  S3[i] = F[i]
  <2>1. CASE i = 1
    BY <1>11, <2>1
  <2>2. CASE i >= 2 * n
    <3>1. i \in {2 * n, 2 * n + 1, 2 * n + 2, 2 * n + 3}
      BY <1>8, <2>2
    <3> QED BY <1>13, <1>14, <3>1
  <2>3. CASE i # 1 /\ i < 2 * n
    <3>1. PICK k \in 1 .. l : i = 2 * k \/ i = 2 * k + 1
      <4> DEFINE k == i \div 2
      <4>1. k \in 1 .. l /\ (i = 2 * k \/ i = 2 * k + 1)
        BY <1>8, <2>3
      <4> QED BY <4>1
    <3> QED BY <1>12, <3>1
  <2> QED BY <1>8, <2>1, <2>2, <2>3
<1>16. Len(S3) = Len(F)
  BY <1>6, <1>8, <1>20
<1>17. S3 = F
  <2>1. \A i \in 1 .. Len(S3) : S3[i] = F[i]
    BY <1>6, <1>15, <1>16
  <2> QED BY <1>6, <1>16, <1>20, <2>1, SeqEqual
<1> QED BY <1>5, <1>17 DEF F, S1, S2, S3, P, H

------------------------------------------------------------------------------
(* Chunks                                                                  *)

(* The elements of a part of a sequence.                                   *)
LEMMA Piece ==
  ASSUME NEW S, NEW l \in Seq(S), NEW i \in 0 .. Len(l), NEW j \in i .. Len(l)
  PROVE  /\ SubSeq(l, i + 1, j) \in Seq(S) /\ Len(SubSeq(l, i + 1, j)) = j - i
         /\ \A k \in 1 .. j - i : SubSeq(l, i + 1, j)[k] = l[i + k]
<1>0. Len(l) \in Nat
  OBVIOUS
<1>1. \A k \in i + 1 .. j : l[k] \in S
  BY <1>0
<1> DEFINE z == SubSeq(l, i + 1, j)
<1>2. /\ z \in Seq(S)
      /\ Len(z) = IF i + 1 <= j THEN j - (i + 1) + 1 ELSE 0
      /\ \A k \in 1 .. j - (i + 1) + 1 : z[k] = l[i + 1 + k - 1]
  BY <1>0, <1>1, SubSeqProperties
<1> HIDE DEF z
<1>3. Len(z) = j - i
  BY <1>0, <1>2
<1>4. ASSUME NEW k \in 1 .. j - i
      PROVE  z[k] = l[i + k]
  <2>1. k \in 1 .. j - (i + 1) + 1 /\ i + 1 + k - 1 = i + k
    BY <1>0
  <2> QED BY <1>2, <2>1
<1> QED BY <1>2, <1>3, <1>4 DEF z

(* A chunk that gets as far as the checksum,                               *)
Whole(c) == WellFramed(c) /\ CheckAscii(Body(c)) /\ RtuLen(c) > 0
(* and what is read of it.                                                 *)
Read(c) == [i \in 1 .. RtuLen(c) |-> AsciiToHex(c[2 * i], c[2 * i + 1])]

(* Any two characters are read as a byte.                                  *)
LEMMA AsciiToHexIsByte ==
  /\ \A c \in Byte : HexValue(c) \in Int
  /\ \A c, d \in Byte : AsciiToHex(c, d) \in Byte
<1>1. \A c \in Byte : HexValue(c) \in Int
  BY DEF HexValue, Byte
<1>2. \A v, w \in Int : (v * 16 + w) % 256 \in Byte
  BY SMT DEF Byte
<1> QED BY <1>1, <1>2 DEF AsciiToHex

(* MODBUS_ASCII_CheckAscii looks at what is between the frame's head and   *)
(* tail.                                                                   *)
LEMMA BodyOfChunk ==
  ASSUME NEW c \in Seq(Byte), Len(c) >= 3
  PROVE  CheckAscii(Body(c)) <=> \A i \in 2 .. Len(c) - 2 : c[i] \in AsciiChars
<1>0. Len(c) \in Nat
  OBVIOUS
<1> DEFINE b == Body(c)
           i == 1
           j == Len(c) - 2
<1>1. Len(b) = j - i /\ \A k \in 1 .. j - i : b[k] = c[i + k]
  <2>1. i \in 0 .. Len(c) /\ j \in i .. Len(c) /\ b = SubSeq(c, i + 1, j)
    BY <1>0 DEF Body
  <2> HIDE DEF i, j, b
  <2> QED BY <2>1, Piece
<1> HIDE DEF b
<1>2. CheckAscii(b) <=> \A k \in 1 .. Len(c) - 3 : c[1 + k] \in AsciiChars
  <2>1. j - i = Len(c) - 3
    BY <1>0
  <2>2. Len(b) = Len(c) - 3 /\ \A k \in 1 .. Len(c) - 3 : b[k] = c[1 + k]
    BY <1>1, <2>1
  <2>3. CheckAscii(b) <=> \A k \in 1 .. Len(c) - 3 : b[k] \in AsciiChars
    BY <2>2 DEF CheckAscii
  <2> QED BY <2>2, <2>3
<1>3. \A x \in 2 .. Len(c) - 2 : x - 1 \in 1 .. Len(c) - 3 /\ 1 + (x - 1) = x
  BY <1>0
<1>4. \A k \in 1 .. Len(c) - 3 : 1 + k \in 2 .. Len(c) - 2
  BY <1>0
<1> QED BY <1>2, <1>3, <1>4 DEF b

(* The length of a packet from that of its chunk.                          *)
LEMMA LenOfPacket ==
  ASSUME NEW n \in Nat, n >= 3
  PROVE  LET r == IF (n - 3) % 2 = 1 THEN 0 ELSE (n - 3) \div 2
         IN  r \in Nat /\ (r > 0 => n = 2 * r + 3) /\ \A k \in Nat : n = 2 * k + 3 => r = k
BY SMT

(* The characters of such a chunk and the bytes that are read of it.       *)
LEMMA WholeShape ==
  ASSUME NEW c \in Seq(Byte), Whole(c)
  PROVE  /\ RtuLen(c) \in Nat \ {0} /\ Len(c) = 2 * RtuLen(c) + 3
         /\ c[1] = 58 /\ c[Len(c) - 1] = 13
         /\ \A i \in 2 .. Len(c) - 2 : c[i] \in AsciiChars
         /\ Read(c) \in Seq(Byte) /\ Len(Read(c)) = RtuLen(c)
         /\ \A i \in 1 .. RtuLen(c) : Read(c)[i] = AsciiToHex(c[2 * i], c[2 * i + 1])
<1> DEFINE n == Len(c)
           r == RtuLen(c)
<1>0. n \in Nat /\ n >= 3
  BY DEF Whole, WellFramed
<1>1. c[1] = 58 /\ c[n - 1] = 13 /\ \A i \in 2 .. n - 2 : c[i] \in AsciiChars
  BY <1>0, BodyOfChunk DEF Whole, WellFramed, ASCII_HEAD_DATA, ASCII_TAIL_FIRST_DATA
<1>2. r \in Nat \ {0} /\ n = 2 * r + 3
  BY <1>0, LenOfPacket DEF Whole, RtuLen
<1> HIDE DEF r
<1>3. ASSUME NEW i \in 1 .. r
      PROVE  AsciiToHex(c[2 * i], c[2 * i + 1]) \in Byte
  <2>1. 2 * i \in 1 .. n /\ 2 * i + 1 \in 1 .. n
    BY <1>2
  <2>2. c[2 * i] \in Byte /\ c[2 * i + 1] \in Byte
    BY <2>1
  <2> QED BY <2>2, AsciiToHexIsByte
<1>4. /\ Read(c) \in Seq(Byte) /\ Len(Read(c)) = r
      /\ \A i \in 1 .. r : Read(c)[i] = AsciiToHex(c[2 * i], c[2 * i + 1])
  <2> DEFINE A(i) == AsciiToHex(c[2 * i], c[2 * i + 1])
  <2>1. \A i \in 1 .. r : A(i) \in Byte
    BY <1>3
  <2>2. Read(c) = [i \in 1 .. r |-> A(i)]
    BY DEF Read, r
  <2> HIDE DEF A
  <2>3. [i \in 1 .. r |-> A(i)] \in Seq(Byte) /\ Len([i \in 1 .. r |-> A(i)]) = r
    BY <1>2, <2>1
  <2> QED BY <2>1, <2>2, <2>3 DEF A
<1> QED BY <1>1, <1>2, <1>4 DEF r

(* Two sequences that differ in one place at most.                         *)
Near(a, b) == Len(a) = Len(b) /\ \E p \in Int : \A i \in 1 .. Len(a) : i # p => a[i] = b[i]

(* A chunk that is a frame but for one character is read as its bytes but  *)
(* for one byte.                                                           *)
LEMMA ReadNear ==
  ASSUME NEW m \in Seq(Byte), NEW c \in Seq(Byte), NEW p \in Int, Whole(c),
         Len(c) = Len(Frame(m)), \A i \in 1 .. Len(c) : i # p => c[i] = Frame(m)[i]
  PROVE  Near(Read(c), WithLrc(m))
<1> DEFINE n == Len(m) + 1
           F == Frame(m)
           B == WithLrc(m)
<1>1. /\ F \in Seq(Byte) /\ Len(F) = 2 * n + 3
      /\ \A k \in 1 .. n : F[2 * k] = HexChar(B[k] \div 16) /\ F[2 * k + 1] = HexChar(B[k] % 16)
  BY FrameShape
<1>2. B \in Seq(Byte) /\ Len(B) = n /\ n \in Nat \ {0}
  BY BytesOfFrame
<1>3. /\ RtuLen(c) \in Nat \ {0} /\ Len(c) = 2 * RtuLen(c) + 3 /\ Len(Read(c)) = RtuLen(c)
      /\ \A i \in 1 .. RtuLen(c) : Read(c)[i] = AsciiToHex(c[2 * i], c[2 * i + 1])
  BY WholeShape
<1> HIDE DEF F, B, n
<1>4. RtuLen(c) = n /\ Len(c) = 2 * n + 3
  BY <1>1, <1>2, <1>3 DEF F
<1>5. ASSUME NEW k \in 1 .. n, k # p \div 2
      PROVE  Read(c)[k] = B[k]
  <2>1. 2 * k # p /\ 2 * k + 1 # p /\ 2 * k \in 1 .. Len(c) /\ 2 * k + 1 \in 1 .. Len(c)
    <3>1. \A x \in Int : (2 * x) \div 2 = x /\ (2 * x + 1) \div 2 = x
      BY SMT
    <3> QED BY <1>2, <1>4, <1>5, <3>1
  <2>2. c[2 * k] = HexChar(B[k] \div 16) /\ c[2 * k + 1] = HexChar(B[k] % 16)
    BY <1>1, <2>1 DEF F
  <2>3. B[k] \in Byte
    BY <1>2
  <2>4. Read(c)[k] = AsciiToHex(c[2 * k], c[2 * k + 1])
    BY <1>3, <1>4
  <2> QED BY <2>2, <2>3, <2>4, ByteOfChars
<1>6. p \div 2 \in Int
  OBVIOUS
<1> QED BY <1>2, <1>3, <1>4, <1>5, <1>6 DEF Near, B

(* A frame gets as far as the checksum and is read as it was sent.         *)
LEMMA FrameWhole ==
  ASSUME NEW m \in Seq(Byte)
  PROVE  Whole(Frame(m)) /\ Read(Frame(m)) = WithLrc(m) /\ RtuLen(Frame(m)) = Len(m) + 1
<1> DEFINE n == Len(m) + 1
           F == Frame(m)
           B == WithLrc(m)
<1>1. /\ F \in Seq(Byte) /\ Len(F) = 2 * n + 3
      /\ F[1] = 58 /\ F[2 * n + 2] = 13
      /\ \A i \in 2 .. 2 * n + 1 : F[i] \in HexDigit
  BY FrameShape
<1>2. B \in Seq(Byte) /\ Len(B) = n /\ n \in Nat \ {0}
  BY BytesOfFrame
<1> HIDE DEF n
<1>3. RtuLen(F) = n
  <2>1. Len(F) \in Nat /\ Len(F) >= 3
    BY <1>1, <1>2
  <2>2. n \in Nat
    BY <1>2
  <2> QED BY <1>1, <2>1, <2>2, LenOfPacket DEF RtuLen
<1>4. CheckAscii(Body(F))
  <2>1. Len(F) >= 3 /\ Len(F) - 2 = 2 * n + 1
    BY <1>1, <1>2
  <2>2. \A i \in 2 .. Len(F) - 2 : F[i] \in AsciiChars
    BY <1>1, <2>1, HexDigits
  <2> QED BY <1>1, <2>1, <2>2, BodyOfChunk
<1>5. WellFramed(F)
  <2>1. Len(F) - 2 > 0 /\ Len(F) - 1 = 2 * n + 2
    BY <1>1, <1>2
  <2> QED BY <1>1, <2>1 DEF WellFramed, ASCII_HEAD_DATA, ASCII_TAIL_FIRST_DATA
<1>6. Whole(F)
  BY <1>2, <1>3, <1>4, <1>5 DEF Whole
<1>7. Read(F) \in Seq(Byte) /\ Len(Read(F)) = n
      /\ \A i \in 1 .. n : Read(F)[i] = AsciiToHex(F[2 * i], F[2 * i + 1])
  BY <1>1, <1>3, <1>6, WholeShape
<1>8. ASSUME NEW k \in 1 .. n
      PROVE  Read(F)[k] = B[k]
  <2>1. F[2 * k] = HexChar(B[k] \div 16) /\ F[2 * k + 1] = HexChar(B[k] % 16)
    BY FrameShape DEF n
  <2>2. B[k] \in Byte
    BY <1>2
  <2> QED BY <1>7, <2>1, <2>2, ByteOfChars
<1>9. Read(F) = B
  <2> HIDE DEF B, F
  <2> QED BY <1>2, <1>7, <1>8, SeqEqual
<1> QED BY <1>3, <1>6, <1>9 DEF n

(* Two bytes that complete a sum to a multiple of 256 are the same.        *)
LEMMA SameModulo ==
  \A s \in Int : \A x, y \in 0 .. 255 : s % 256 = 0 /\ (s + (x - y)) % 256 = 0 => x = y
<1> SUFFICES ASSUME NEW s \in Int, NEW x \in 0 .. 255, NEW y \in 0 .. 255,
                    s % 256 = 0, (s + (x - y)) % 256 = 0
             PROVE  x = y
  OBVIOUS
<1>1. PICK a \in Int : s = 256 * a
  <2>1. s = 256 * (s \div 256) /\ s \div 256 \in Int
    BY SMT
  <2> QED BY <2>1
<1>2. PICK b \in Int : s + (x - y) = 256 * b
  <2> DEFINE u == s + (x - y)
  <2>1. u \in Int /\ u % 256 = 0
    OBVIOUS
  <2> HIDE DEF u
  <2>2. u = 256 * (u \div 256) /\ u \div 256 \in Int
    BY <2>1, SMT
  <2> QED BY <2>2 DEF u
<1>3. x - y = 256 * (b - a)
  BY <1>1, <1>2
<1> QED BY <1>3

(* Of bytes that are those of a message but for one, the checksum is right *)
(* if and only if they are those of the message.                           *)
LEMMA LrcTells ==
  ASSUME NEW m \in Seq(Byte), NEW r \in Seq(Byte), Near(r, WithLrc(m)),
         NEW b \in Seq(Byte), NEW n \in Nat, Len(b) = n, Len(r) = n + 1,
         \A i \in 1 .. n : b[i] = r[i]
  PROVE  (GetLrc(b) = r[n + 1]) <=> (r = WithLrc(m))
<1> DEFINE B == WithLrc(m)
<1>1. /\ B \in Seq(Byte) /\ Len(B) = n + 1 /\ Len(m) = n
      /\ \A i \in 1 .. n : B[i] = m[i]
      /\ B[n + 1] = Lrc(m) /\ B = Append(m, Lrc(m)) /\ Lrc(m) \in Byte
  <2>1. /\ B \in Seq(Byte) /\ Len(B) = Len(m) + 1 /\ Len(m) \in Nat
        /\ \A i \in 1 .. Len(m) : B[i] = m[i]
        /\ B[Len(m) + 1] = Lrc(m)
    BY BytesOfFrame
  <2>2. Lrc(m) \in Byte /\ B = Append(m, Lrc(m))
    BY LrcIs DEF WithLrc
  <2>3. Len(r) = Len(B)
    BY DEF Near
  <2> HIDE DEF B
  <2>4. Len(m) = n
    BY <2>1, <2>3
  <2> QED BY <2>1, <2>2, <2>4
<1> HIDE DEF B
<1>2. n + 1 \in 1 .. n + 1 /\ r[n + 1] \in Byte
  OBVIOUS
<1>3. r = Append(b, r[n + 1])
  <2>1. /\ Append(b, r[n + 1]) \in Seq(Byte) /\ Len(Append(b, r[n + 1])) = n + 1
        /\ \A i \in 1 .. n : Append(b, r[n + 1])[i] = b[i]
        /\ Append(b, r[n + 1])[n + 1] = r[n + 1]
    BY <1>2, AppendProperties
  <2> DEFINE z == Append(b, r[n + 1])
  <2>2. \A i \in 1 .. n + 1 : i \in 1 .. n \/ i = n + 1
    OBVIOUS
  <2>3. \A i \in 1 .. n + 1 : z[i] = r[i]
    BY <2>1, <2>2
  <2> HIDE DEF z
  <2>4. z = r
    BY <2>1, <2>3, SeqEqual DEF z
  <2> QED BY <2>4 DEF z
<1>4. SumOf(r) = SumOf(b) + r[n + 1] /\ SumOf(b) \in Int
  <2>1. b \in Seq(Int) /\ r[n + 1] \in Int
    BY <1>2, BytesAreInts
  <2> QED BY <1>3, <2>1, SumOfAppend, SumTyped
<1>5. SumOf(B) = SumOf(m) + Lrc(m) /\ SumOf(m) \in Int
  <2>1. m \in Seq(Int) /\ Lrc(m) \in Int
    BY <1>1, BytesAreInts
  <2> QED BY <1>1, <2>1, SumOfAppend, SumTyped
<1>6. SumOf(B) % 256 = 0
  <2>1. (Lrc(m) + SumOf(m)) % 256 = 0
    BY <1>1, LrcIs
  <2>2. Lrc(m) \in Int
    BY <1>1, BytesAreInts
  <2> QED BY <1>5, <2>1, <2>2
<1>7. (GetLrc(b) = r[n + 1]) <=> SumOf(r) % 256 = 0
  <2>1. GetLrc(b) = Lrc(b) /\ ((r[n + 1] + SumOf(b)) % 256 = 0 <=> r[n + 1] = Lrc(b))
    BY <1>2, LrcIs
  <2>2. r[n + 1] \in Int
    BY <1>2, BytesAreInts
  <2>3. r[n + 1] + SumOf(b) = SumOf(r)
    BY <1>4, <2>2
  <2> QED BY <2>1, <2>3
<1>8. ASSUME SumOf(r) % 256 = 0
      PROVE  r = B
  <2>1. PICK p \in Int : \A i \in 1 .. n + 1 : i # p => r[i] = B[i]
    BY DEF Near, B
  <2>2. CASE p \in 1 .. n + 1
    <3>1. r \in Seq(Int) /\ B \in Seq(Int)
      BY <1>1, BytesAreInts
    <3>2. SumOf(r) = SumOf(B) + (r[p] - B[p])
      <4>1. p \in 1 .. Len(B) /\ Len(B) = Len(r) /\ \A i \in 1 .. Len(B) : i # p => B[i] = r[i]
        BY <1>1, <2>1, <2>2
      <4> QED BY <3>1, <4>1, SumOfChanged
    <3>3. r[p] \in 0 .. 255 /\ B[p] \in 0 .. 255
      <4>1. p \in 1 .. Len(B) /\ p \in 1 .. Len(r)
        BY <1>1, <2>2
      <4>2. r[p] \in Byte /\ B[p] \in Byte
        BY <1>1, <4>1
      <4> QED BY <4>2 DEF Byte
    <3>4. \A s \in Int : \A x, y \in 0 .. 255 : s % 256 = 0 /\ (s + (x - y)) % 256 = 0 => x = y
      BY SameModulo
    <3>5. SumOf(B) \in Int
      BY <3>1, SumTyped
    <3>6. r[p] = B[p]
      <4> DEFINE s == SumOf(B)
                 x == r[p]
                 y == B[p]
      <4>1. s \in Int /\ x \in 0 .. 255 /\ y \in 0 .. 255 /\ s % 256 = 0
        BY <1>6, <3>3, <3>5
      <4>2. (s + (x - y)) % 256 = 0
        BY <1>8, <3>2
      <4> HIDE DEF s, x, y
      <4>3. x = y
        BY <3>4, <4>1, <4>2
      <4> QED BY <4>3 DEF x, y
    <3>7. \A i \in 1 .. n + 1 : r[i] = B[i]
      BY <2>1, <3>6
    <3> QED BY <1>1, <3>7, SeqEqual
  <2>3. CASE p \notin 1 .. n + 1
    <3>1. \A i \in 1 .. n + 1 : r[i] = B[i]
      BY <2>1, <2>3
    <3> QED BY <1>1, <3>1, SeqEqual
  <2> QED BY <2>2, <2>3
<1> QED BY <1>6, <1>7, <1>8 DEF B

------------------------------------------------------------------------------
(* Lines                                                                   *)

(* Between two line ends, or the front of the line and its first.          *)
Segment(l, i, j) ==
  /\ i \in 0 .. Len(l) /\ j \in i + 1 .. Len(l)
  /\ i = 0 \/ l[i] = 10
  /\ l[j] = 10
  /\ \A k \in i + 1 .. j - 1 : l[k] # 10

(* A chunk that does no harm, of messages M.                               *)
Fine(c, M) == Whole(c) => \E m \in M : Near(Read(c), WithLrc(m))

(* A line without an end yet: whatever comes next, a CR within spoils it,  *)
(* unless nothing but the line end of a frame was missing.                 *)
Open(l, M) ==
  /\ \A k \in 1 .. Len(l) : l[k] # 10
  /\ \E k \in 2 .. Len(l) :
       /\ l[k] = 13
       /\ k = Len(l) => \E m \in M : /\ Len(Frame(m)) = k + 1
                                  /\ \A i \in 1 .. k : l[i] = Frame(m)[i]

(* A line all of whose chunks will do none.                                *)
Good(l, M) ==
  /\ \A i, j \in Int : Segment(l, i, j) => Fine(SubSeq(l, i + 1, j), M)
  /\ l = <<>> \/ l[Len(l)] = 10 \/ Open(l, M)

(* A colon, two characters per byte and the line end.                      *)
FrameLength(n) == \E r \in Nat : n = 2 * r + 3

(* The characters of a part of the line that gets as far as the checksum.  *)
LEMMA WholeSegment ==
  ASSUME NEW l \in Seq(Byte), NEW i \in Int, NEW j \in Int, Segment(l, i, j), Whole(SubSeq(l, i + 1, j))
  PROVE  /\ SubSeq(l, i + 1, j) \in Seq(Byte) /\ Len(SubSeq(l, i + 1, j)) = j - i
         /\ \A k \in 1 .. j - i : SubSeq(l, i + 1, j)[k] = l[i + k]
         /\ l[i + 1] = 58 /\ l[j - 1] = 13
         /\ j - i >= 5 /\ FrameLength(j - i)
         /\ \A k \in i + 2 .. j - 2 : l[k] \in AsciiChars
<1> DEFINE c == SubSeq(l, i + 1, j)
<1>0. Len(l) \in Nat /\ i \in 0 .. Len(l) /\ j \in i .. Len(l) /\ j > i
  BY DEF Segment
<1>1. c \in Seq(Byte) /\ Len(c) = j - i /\ \A k \in 1 .. j - i : c[k] = l[i + k]
  BY <1>0, Piece
<1> HIDE DEF c
<1>2. /\ RtuLen(c) \in Nat \ {0} /\ Len(c) = 2 * RtuLen(c) + 3
      /\ c[1] = 58 /\ c[Len(c) - 1] = 13
      /\ \A k \in 2 .. Len(c) - 2 : c[k] \in AsciiChars
  BY <1>1, WholeShape DEF c
<1>3. j - i >= 5 /\ FrameLength(j - i)
  <2> DEFINE r == RtuLen(c)
  <2>1. r \in Nat \ {0} /\ Len(c) = 2 * r + 3
    BY <1>2
  <2>2. Len(c) = j - i
    BY <1>1
  <2> HIDE DEF r
  <2> QED BY <2>1, <2>2 DEF FrameLength
<1>4. l[i + 1] = 58 /\ l[j - 1] = 13
  <2>1. 1 \in 1 .. j - i /\ j - i - 1 \in 1 .. j - i /\ i + (j - i - 1) = j - 1
    BY <1>0, <1>3
  <2>2. c[1] = l[i + 1] /\ c[j - i - 1] = l[i + (j - i - 1)]
    BY <1>1, <2>1
  <2>3. c[1] = 58 /\ c[j - i - 1] = 13
    BY <1>1, <1>2
  <2> QED BY <2>1, <2>2, <2>3
<1>5. ASSUME NEW k \in i + 2 .. j - 2
      PROVE  l[k] \in AsciiChars
  <2>1. k - i \in 1 .. j - i /\ k - i \in 2 .. Len(c) - 2 /\ i + (k - i) = k
    BY <1>0, <1>1
  <2>2. c[k - i] \in AsciiChars
    BY <1>2, <2>1
  <2>3. c[k - i] = l[i + (k - i)]
    BY <1>1, <2>1
  <2> QED BY <2>1, <2>2, <2>3
<1> QED BY <1>1, <1>3, <1>4, <1>5 DEF c

(* Where the three characters that frame a message are in a frame.         *)
LEMMA FrameEnds ==
  ASSUME NEW m \in Seq(Byte)
  PROVE  LET F == Frame(m)
             n == Len(F)
         IN  /\ F \in Seq(Byte) /\ n \in Nat /\ n >= 5 /\ FrameLength(n)
             /\ F[1] = 58 /\ F[n - 1] = 13 /\ F[n] = 10
             /\ \A i \in 1 .. n : F[i] = 58 => i = 1
             /\ \A i \in 1 .. n : F[i] = 13 => i = n - 1
             /\ \A i \in 1 .. n : F[i] = 10 => i = n
<1> DEFINE F == Frame(m)
           n == Len(F)
           l == Len(m) + 1
<1>1. /\ F \in Seq(Byte) /\ Len(F) = 2 * l + 3
      /\ F[1] = 58 /\ F[2 * l + 2] = 13 /\ F[2 * l + 3] = 10
      /\ \A i \in 2 .. 2 * l + 1 : F[i] \in HexDigit
  BY FrameShape
<1>2. l \in Nat \ {0}
  BY BytesOfFrame
<1> HIDE DEF F, l
<1>3. n = 2 * l + 3 /\ n \in Nat /\ n >= 5 /\ n - 1 = 2 * l + 2 /\ FrameLength(n)
  BY <1>1, <1>2 DEF FrameLength
<1> HIDE DEF n
<1>4. ASSUME NEW i \in 1 .. n
      PROVE  (F[i] = 58 => i = 1) /\ (F[i] = 13 => i = n - 1) /\ (F[i] = 10 => i = n)
  <2>1. i = 1 \/ i = n \/ i = n - 1 \/ i \in 2 .. 2 * l + 1
    BY <1>2, <1>3
  <2>2. \A x \in HexDigit : x # 58 /\ x # 13 /\ x # 10
    BY DEF HexDigit
  <2>3. F[n] = 10 /\ F[n - 1] = 13
    BY <1>1, <1>3
  <2> QED BY <1>1, <2>1, <2>2, <2>3
<1> QED BY <1>1, <1>3, <1>4 DEF F, n

(* A frame, or one with a character changed.                               *)
LEMMA ChangedGood ==
  ASSUME NEW m \in Seq(Byte), NEW f \in Seq(Byte), Len(f) = Len(Frame(m)),
         NEW p \in 1 .. Len(f), \A i \in 1 .. Len(f) : i # p => f[i] = Frame(m)[i]
  PROVE  Good(f, {m})
<1> DEFINE F == Frame(m)
           n == Len(F)
<1>1. n \in Nat /\ n >= 5 /\ F[1] = 58 /\ F[n - 1] = 13 /\ F[n] = 10 /\ Len(f) = n
  BY FrameEnds
<1>10. \A i \in 1 .. n : F[i] = 58 => i = 1
  BY FrameEnds
<1>11. \A i \in 1 .. n : F[i] = 13 => i = n - 1
  BY FrameEnds
<1>12. \A i \in 1 .. n : F[i] = 10 => i = n
  BY FrameEnds
<1>2. \A i \in 1 .. n : i # p => f[i] = F[i]
  OBVIOUS
<1> HIDE DEF F, n
<1>3. ASSUME NEW i \in Int, NEW j \in Int, Segment(f, i, j), Whole(SubSeq(f, i + 1, j))
      PROVE  i = 0 /\ j = n
  <2>1. /\ i \in 0 .. n /\ j \in i + 1 .. n /\ (i = 0 \/ f[i] = 10) /\ f[j] = 10
        /\ \A k \in i + 1 .. j - 1 : f[k] # 10
    BY <1>1, <1>3 DEF Segment
  <2>2. f[i + 1] = 58 /\ f[j - 1] = 13 /\ j - i >= 5
    BY <1>3, WholeSegment
  <2>3. CASE f[p] = 10
    <3>1. i + 1 \in 1 .. n /\ j - 1 \in 1 .. n /\ i + 1 # p /\ j - 1 # p
      BY <1>1, <2>1, <2>2, <2>3
    <3>2. F[i + 1] = 58 /\ F[j - 1] = 13
      BY <1>2, <2>2, <3>1
    <3>3. i + 1 = 1 /\ j - 1 = n - 1
      BY <1>10, <1>11, <3>1, <3>2
    <3> QED BY <1>1, <2>1, <3>3
  <2>4. CASE f[p] # 10
    <3>1. j = n
      <4>1. j \in 1 .. n /\ j # p
        BY <1>1, <2>1, <2>4
      <4>2. F[j] = 10
        BY <1>2, <2>1, <4>1
      <4> QED BY <1>12, <4>1, <4>2
    <3>2. i = 0
      <4>1. SUFFICES ASSUME i # 0 PROVE FALSE
        OBVIOUS
      <4>2. i \in 1 .. n /\ f[i] = 10
        BY <1>1, <2>1, <4>1
      <4>3. i # p
        BY <2>4, <4>2
      <4>4. i = n
        BY <1>2, <1>12, <4>2, <4>3
      <4> QED BY <1>1, <2>1, <4>4
    <3> QED BY <3>1, <3>2
  <2> QED BY <2>3, <2>4
<1>4. ASSUME NEW i \in Int, NEW j \in Int, Segment(f, i, j)
      PROVE  Fine(SubSeq(f, i + 1, j), {m})
  <2> DEFINE c == SubSeq(f, i + 1, j)
  <2>1. SUFFICES ASSUME Whole(c) PROVE Near(Read(c), WithLrc(m))
    BY DEF Fine
  <2>2. i = 0 /\ j = n
    BY <1>3, <1>4, <2>1
  <2>3. c \in Seq(Byte) /\ Len(c) = j - i /\ \A k \in 1 .. j - i : c[k] = f[i + k]
    BY <1>4, <2>1, WholeSegment
  <2> HIDE DEF c
  <2>4. c \in Seq(Byte) /\ Len(c) = n /\ \A k \in 1 .. n : c[k] = f[k]
    BY <1>1, <2>2, <2>3
  <2>5. Len(c) = Len(Frame(m)) /\ \A k \in 1 .. Len(c) : k # p => c[k] = Frame(m)[k]
    BY <1>2, <2>4 DEF F, n
  <2>6. p \in Int
    BY <1>1
  <2> QED BY <2>1, <2>4, <2>5, <2>6, ReadNear
<1>5. f[n] = 10 \/ Open(f, {m})
  <2>1. SUFFICES ASSUME f[n] # 10 PROVE Open(f, {m})
    OBVIOUS
  <2>2. p = n
    <3>1. n \in 1 .. n
      BY <1>1
    <3> QED BY <1>1, <1>2, <2>1, <3>1
  <2>3. ASSUME NEW k \in 1 .. n PROVE f[k] # 10
    <3>1. CASE k = n
      BY <2>1, <3>1
    <3>2. CASE k # n
      BY <1>2, <1>12, <2>2, <3>2
    <3> QED BY <3>1, <3>2
  <2>4. n - 1 \in 2 .. n /\ f[n - 1] = 13 /\ n - 1 # n
    <3>1. n - 1 \in 2 .. n /\ n - 1 \in 1 .. n /\ n - 1 # n
      BY <1>1
    <3> QED BY <1>1, <1>2, <2>2, <3>1
  <2> QED BY <1>1, <2>3, <2>4 DEF Open
<1> QED BY <1>1, <1>4, <1>5 DEF Good

(* A frame without one of its characters.                                  *)
LEMMA LostGood ==
  ASSUME NEW m \in Seq(Byte), NEW f \in Seq(Byte), Len(f) = Len(Frame(m)) - 1,
         NEW p \in 1 .. Len(Frame(m)),
         \A i \in 1 .. Len(f) : f[i] = IF i < p THEN Frame(m)[i] ELSE Frame(m)[i + 1]
  PROVE  Good(f, {m})
<1> DEFINE F == Frame(m)
           n == Len(F)
<1>1. /\ n \in Nat /\ n >= 5 /\ F[n - 1] = 13 /\ F[n] = 10 /\ Len(f) = n - 1
      /\ FrameLength(n)
  BY FrameEnds
<1>2. \A i \in 1 .. n : F[i] = 10 => i = n
  BY FrameEnds
<1>3. \A i \in 1 .. n - 1 : f[i] = IF i < p THEN F[i] ELSE F[i + 1]
  BY <1>1
<1>4. p \in 1 .. n
  OBVIOUS
<1> HIDE DEF F, n
<1>5. ASSUME NEW i \in 1 .. n - 1, f[i] = 10
      PROVE  i = n - 1 /\ p < n
  <2>1. i \in 1 .. n /\ i + 1 \in 1 .. n /\ i # n
    BY <1>1
  <2>2. ~(i < p) /\ F[i + 1] = 10
    BY <1>2, <1>3, <1>5, <2>1
  <2>3. i + 1 = n
    BY <1>2, <2>1, <2>2
  <2> QED BY <1>1, <1>4, <2>2, <2>3
<1>6. ASSUME NEW i \in Int, NEW j \in Int, Segment(f, i, j)
      PROVE  Fine(SubSeq(f, i + 1, j), {m})
  <2>1. SUFFICES ASSUME Whole(SubSeq(f, i + 1, j)) PROVE FALSE
    BY DEF Fine
  <2>2. /\ i \in 0 .. n - 1 /\ j \in i + 1 .. n - 1 /\ (i = 0 \/ f[i] = 10) /\ f[j] = 10
    BY <1>1, <1>6 DEF Segment
  <2>3. j = n - 1
    <3>1. j \in 1 .. n - 1
      BY <1>1, <2>2
    <3> QED BY <1>5, <2>2, <3>1
  <2>4. i = 0
    <3>1. SUFFICES ASSUME i # 0 PROVE FALSE
      OBVIOUS
    <3>2. i \in 1 .. n - 1 /\ f[i] = 10
      BY <1>1, <2>2, <3>1
    <3>3. i = n - 1
      BY <1>5, <3>2
    <3> QED BY <1>1, <2>2, <3>3
  <2>5. FrameLength(j - i)
    BY <1>6, <2>1, WholeSegment
  <2> QED BY <1>1, <2>3, <2>4, <2>5 DEF FrameLength
<1>7. f[n - 1] = 10 \/ Open(f, {m})
  <2>1. n - 1 \in 1 .. n - 1
    BY <1>1
  <2>2. CASE p < n
    <3>1. f[n - 1] = F[n - 1 + 1] /\ n - 1 + 1 = n
      BY <1>1, <1>3, <1>4, <2>1, <2>2
    <3> QED BY <1>1, <3>1
  <2>3. CASE p = n
    <3>1. \A k \in 1 .. n - 1 : f[k] = F[k]
      BY <1>1, <1>3, <2>3
    <3>2. \A k \in 1 .. n - 1 : f[k] # 10
      BY <1>1, <1>5, <2>3
    <3>3. n - 1 \in 2 .. Len(f) /\ f[n - 1] = 13
      BY <1>1, <2>1, <3>1
    <3>4. Len(Frame(m)) = n - 1 + 1 /\ \A i \in 1 .. n - 1 : f[i] = Frame(m)[i]
      BY <1>1, <3>1 DEF F, n
    <3> QED BY <1>1, <3>2, <3>3, <3>4 DEF Open
  <2> QED BY <1>1, <1>4, <2>2, <2>3
<1> QED BY <1>1, <1>6, <1>7 DEF Good

(* A frame with a character too many.                                      *)
LEMMA InsertedGood ==
  ASSUME NEW m \in Seq(Byte), NEW f \in Seq(Byte), Len(f) = Len(Frame(m)) + 1,
         NEW p \in 1 .. Len(Frame(m)),
         \A i \in 1 .. Len(f) :
           i # p => f[i] = IF i < p THEN Frame(m)[i] ELSE Frame(m)[i - 1]
  PROVE  Good(f, {m})
<1> DEFINE F == Frame(m)
           n == Len(F)
<1>1. /\ n \in Nat /\ n >= 5 /\ F[1] = 58 /\ F[n - 1] = 13 /\ F[n] = 10 /\ Len(f) = n + 1
      /\ FrameLength(n)
  BY FrameEnds
<1>0. n \in Nat /\ n >= 5
  BY <1>1
<1>10. \A i \in 1 .. n : F[i] = 58 => i = 1
  BY FrameEnds
<1>11. \A i \in 1 .. n : F[i] = 13 => i = n - 1
  BY FrameEnds
<1>12. \A i \in 1 .. n : F[i] = 10 => i = n
  BY FrameEnds
<1>3. \A i \in 1 .. n + 1 : i # p => f[i] = IF i < p THEN F[i] ELSE F[i - 1]
  BY <1>1
<1>4. p \in 1 .. n
  OBVIOUS
<1> HIDE DEF F, n
<1>5. ASSUME NEW i \in 1 .. n + 1, i # p
      PROVE  /\ f[i] = 10 => i = n + 1
             /\ f[i] = 58 => i = 1 \/ (i = 2 /\ p = 1)
             /\ f[i] = 13 => (i = n - 1 /\ p = n) \/ i = n
  <2>1. CASE i < p
    <3>1. i \in 1 .. n /\ f[i] = F[i] /\ i # n
      BY <1>1, <1>3, <1>4, <1>5, <2>1
    <3> QED BY <1>1, <1>4, <1>10, <1>11, <1>12, <2>1, <3>1
  <2>2. CASE ~(i < p)
    <3>1. i - 1 \in 1 .. n /\ f[i] = F[i - 1]
      BY <1>1, <1>3, <1>4, <1>5, <2>2
    <3>2. (F[i - 1] = 10 => i - 1 = n) /\ (F[i - 1] = 58 => i - 1 = 1) /\ (F[i - 1] = 13 => i - 1 = n - 1)
      BY <1>10, <1>11, <1>12, <3>1
    <3> QED BY <1>1, <1>4, <1>5, <2>2, <3>1, <3>2
  <2> QED BY <2>1, <2>2
<1>6. ASSUME NEW i \in Int, NEW j \in Int, Segment(f, i, j)
      PROVE  Fine(SubSeq(f, i + 1, j), {m})
  <2> DEFINE c == SubSeq(f, i + 1, j)
  <2>1. SUFFICES ASSUME Whole(c) PROVE Near(Read(c), WithLrc(m))
    BY DEF Fine
  <2>2. /\ i \in 0 .. n + 1 /\ j \in i + 1 .. n + 1 /\ (i = 0 \/ f[i] = 10) /\ f[j] = 10
        /\ \A k \in i + 1 .. j - 1 : f[k] # 10
    BY <1>1, <1>6 DEF Segment
  <2>20. i \in Nat /\ j \in i + 1 .. n + 1
    <3>1. i \in 0 .. n + 1 /\ j \in i + 1 .. n + 1
      BY <2>2
    <3> QED BY <3>1
  <2>3. c \in Seq(Byte) /\ Len(c) = j - i /\ \A k \in 1 .. j - i : c[k] = f[i + k]
    BY <1>6, <2>1, WholeSegment
  <2>4. f[i + 1] = 58 /\ f[j - 1] = 13 /\ j - i >= 5 /\ FrameLength(j - i)
    <3>1. Segment(f, i, j) /\ Whole(SubSeq(f, i + 1, j))
      BY <1>6, <2>1
    <3> HIDE DEF c
    <3> QED BY <3>1, WholeSegment
  <2> HIDE DEF c
  <2>5. ASSUME f[p] # 10
        PROVE  FALSE
    <3>1. j = n + 1
      <4>1. j \in 1 .. n + 1 /\ j # p
        BY <1>1, <2>2, <2>5
      <4> QED BY <1>5, <2>2, <4>1
    <3>2. i = 0
      <4>1. SUFFICES ASSUME i # 0 PROVE FALSE
        OBVIOUS
      <4>2. i \in 1 .. n + 1 /\ f[i] = 10 /\ i # p
        BY <1>1, <2>2, <2>5, <4>1
      <4>3. i = n + 1
        BY <1>5, <4>2
      <4>4. i # n + 1
        BY <1>0, <2>20
      <4> QED BY <4>3, <4>4
    <3>3. PICK r1 \in Nat : n = 2 * r1 + 3
      BY <1>1 DEF FrameLength
    <3>4. PICK r2 \in Nat : n + 1 = 2 * r2 + 3
      BY <2>4, <3>1, <3>2 DEF FrameLength
    <3> QED BY <3>3, <3>4
  <2>6. (i = 0 /\ j = n /\ p = n) \/ (i = 1 /\ j = n + 1 /\ p = 1)
    <3>1. i + 1 \in 1 .. n + 1 /\ i + 1 # p /\ j - 1 \in 1 .. n + 1 /\ j - 1 # p /\ f[p] = 10
      <4>1. f[p] = 10
        BY <2>5
      <4>2. i + 1 # p /\ j - 1 # p
        <5>1. f[i + 1] = 58 /\ f[j - 1] = 13
          BY <2>4
        <5>2. f[p] # 58 /\ f[p] # 13
          BY <4>1
        <5> QED BY <5>1, <5>2, Zenon
      <4>3. i + 1 \in 1 .. n + 1 /\ j - 1 \in 1 .. n + 1
        <5>1. j - i >= 5
          BY <2>4
        <5> QED BY <1>0, <2>20, <5>1
      <4> QED BY <4>1, <4>2, <4>3
    <3>2. i = 0 \/ (i = 1 /\ p = 1)
      <4>1. i + 1 = 1 \/ (i + 1 = 2 /\ p = 1)
        BY <1>5, <2>4, <3>1
      <4> QED BY <2>2, <4>1
    <3>3. (j = n /\ p = n) \/ j = n + 1
      <4>1. (j - 1 = n - 1 /\ p = n) \/ j - 1 = n
        BY <1>5, <2>4, <3>1
      <4> QED BY <1>1, <2>2, <4>1
    <3>4. ~(p \in i + 1 .. j - 1)
      BY <2>2, <3>1
    <3> QED BY <1>0, <1>4, <2>20, <3>2, <3>3, <3>4
  <2>7. Len(c) = n /\ \A k \in 1 .. n : c[k] = F[k]
    <3>1. CASE i = 0 /\ j = n /\ p = n
      <4>1. ASSUME NEW k \in 1 .. n PROVE c[k] = F[k]
        <5>1. c[k] = f[k] /\ k \in 1 .. n + 1
          BY <1>1, <2>3, <3>1
        <5>2. CASE k < n
          BY <1>3, <3>1, <5>1, <5>2
        <5>3. CASE k = n
          BY <1>1, <2>5, <3>1, <5>1, <5>3
        <5> QED BY <1>0, <5>2, <5>3
      <4> QED BY <1>1, <2>3, <3>1, <4>1
    <3>2. CASE i = 1 /\ j = n + 1 /\ p = 1
      <4>1. ASSUME NEW k \in 1 .. n PROVE c[k] = F[k]
        <5>1. c[k] = f[1 + k] /\ 1 + k \in 1 .. n + 1 /\ 1 + k # p /\ ~(1 + k < p) /\ 1 + k - 1 = k
          BY <1>1, <2>3, <3>2
        <5>2. f[1 + k] = F[1 + k - 1]
          BY <1>3, <5>1
        <5> QED BY <5>1, <5>2
      <4> QED BY <1>1, <2>3, <3>2, <4>1
    <3> QED BY <2>6, <3>1, <3>2
  <2>8. Len(c) = Len(Frame(m)) /\ \A k \in 1 .. Len(c) : k # 0 => c[k] = Frame(m)[k]
    BY <2>7 DEF F, n
  <2>9. 0 \in Int
    OBVIOUS
  <2> QED BY <2>1, <2>3, <2>8, <2>9, ReadNear
<1>7. f[n + 1] = 10
  <2> DEFINE q == n + 1
  <2>1. q \in 1 .. q /\ q # p /\ ~(q < p) /\ q - 1 = n
    <3>1. n \in Nat /\ p \in Nat /\ p <= n
      BY <1>1, <1>4
    <3> QED BY <3>1
  <2> HIDE DEF q
  <2>2. f[q] = F[q - 1]
    <3>1. q \in 1 .. n + 1
      BY <2>1 DEF q
    <3> QED BY <1>3, <2>1, <3>1
  <2> QED BY <1>1, <2>1, <2>2 DEF q
<1> QED BY <1>1, <1>6, <1>7 DEF Good

(* The elements in front of a place.                                       *)
LEMMA FirstPart ==
  ASSUME NEW S, NEW l \in Seq(S), NEW p \in 1 .. Len(l)
  PROVE  /\ SubSeq(l, 1, p - 1) \in Seq(S) /\ Len(SubSeq(l, 1, p - 1)) = p - 1
         /\ \A k \in 1 .. p - 1 : SubSeq(l, 1, p - 1)[k] = l[k]
<1> DEFINE j == p - 1
           i == 0
           z == SubSeq(l, i + 1, j)
<1>1. i \in 0 .. Len(l) /\ j \in i .. Len(l) /\ i + 1 = 1 /\ j - i = j /\ j \in Int
  OBVIOUS
<1>2. z \in Seq(S) /\ Len(z) = j - i /\ \A k \in 1 .. j - i : z[k] = l[i + k]
  <2> HIDE DEF i, j
  <2> QED BY <1>1, Piece
<1>3. z = SubSeq(l, 1, p - 1)
  BY <1>1
<1> HIDE DEF z, j
<1>4. \A k \in 1 .. j : z[k] = l[k]
  BY <1>1, <1>2
<1> QED BY <1>1, <1>2, <1>3, <1>4 DEF j

(* A frame, disturbed or not, is a good line.                              *)
LEMMA DisturbedGood ==
  ASSUME NEW m \in Seq(Byte), NEW f \in {Frame(m)} \cup Disturbed(Frame(m))
  PROVE  f \in Seq(Byte) /\ Len(f) >= 1 /\ Good(f, {m})
<1> DEFINE F == Frame(m)
           n == Len(F)
<1>1. F \in Seq(Byte) /\ n \in Nat /\ n >= 5
  BY FrameEnds
<1>2. Noise \subseteq Byte
  BY AsciiLineAssumption DEF Byte
<1>3. CASE f = F
  <2>1. Len(f) = Len(Frame(m)) /\ \A i \in 1 .. Len(f) : i # 1 => f[i] = Frame(m)[i]
    BY <1>3
  <2>2. f \in Seq(Byte) /\ 1 \in 1 .. Len(f) /\ Len(f) >= 1
    BY <1>1, <1>3
  <2> QED BY <2>1, <2>2, ChangedGood
<1>4. ASSUME NEW p \in 1 .. n, NEW c \in Noise, f = ReplaceAt(F, p, c)
      PROVE  f \in Seq(Byte) /\ Len(f) >= 1 /\ Good(f, {m})
  <2> HIDE DEF F
  <2>1. f = [F EXCEPT ![p] = c] /\ c \in Byte
    BY <1>2, <1>4 DEF ReplaceAt
  <2>2. f \in Seq(Byte) /\ Len(f) = n /\ \A i \in 1 .. n : i # p => f[i] = F[i]
    BY <1>1, <2>1
  <2>3. Len(f) >= 1 /\ p \in 1 .. Len(f)
    BY <1>1, <2>2
  <2>4. Len(f) = Len(Frame(m)) /\ \A i \in 1 .. Len(f) : i # p => f[i] = Frame(m)[i]
    BY <2>2 DEF F
  <2> QED BY <2>2, <2>3, <2>4, ChangedGood
<1>5. ASSUME NEW p \in 1 .. n, f = RemoveAt(F, p)
      PROVE  f \in Seq(Byte) /\ Len(f) >= 1 /\ Good(f, {m})
  <2> HIDE DEF F
  <2> DEFINE a == SubSeq(F, 1, p - 1)
             b == SubSeq(F, p + 1, n)
  <2>1. f = a \o b
    BY <1>5 DEF RemoveAt
  <2>2. a \in Seq(Byte) /\ Len(a) = p - 1 /\ \A k \in 1 .. p - 1 : a[k] = F[k]
    BY <1>1, FirstPart
  <2>3. b \in Seq(Byte) /\ Len(b) = n - p /\ \A k \in 1 .. n - p : b[k] = F[p + k]
    BY <1>1, Piece
  <2> HIDE DEF a, b
  <2> DEFINE q == p - 1
  <2>8. q \in Int /\ p = q + 1
    BY <1>1
  <2>9. Len(a) = q /\ \A k \in 1 .. q : a[k] = F[k]
    BY <2>2
  <2> HIDE DEF q
  <2>4. /\ f \in Seq(Byte) /\ Len(f) = n - 1
        /\ \A i \in 1 .. q : f[i] = a[i]
        /\ \A i \in q + 1 .. n - 1 : f[i] = b[i - q]
    <3>1. /\ f \in Seq(Byte) /\ Len(f) = Len(a) + Len(b)
          /\ \A i \in 1 .. Len(a) : f[i] = a[i]
          /\ \A i \in Len(a) + 1 .. Len(a) + Len(b) : f[i] = b[i - Len(a)]
      BY <2>1, <2>2, <2>3, Joined
    <3>2. Len(a) + Len(b) = n - 1
      BY <1>1, <2>3, <2>8, <2>9
    <3> QED BY <2>9, <3>1, <3>2
  <2>5. ASSUME NEW i \in 1 .. n - 1
        PROVE  f[i] = IF i < p THEN F[i] ELSE F[i + 1]
    <3>1. CASE i < p
      <4>1. i \in 1 .. q
        BY <1>1, <2>8, <3>1
      <4> QED BY <2>9, <2>4, <3>1, <4>1
    <3>2. CASE ~(i < p)
      <4>1. i \in q + 1 .. n - 1 /\ i - q \in 1 .. n - p /\ p + (i - q) = i + 1
        BY <1>1, <2>8, <3>2
      <4>2. f[i] = b[i - q]
        BY <2>4, <4>1
      <4>3. b[i - q] = F[p + (i - q)]
        BY <2>3, <4>1
      <4> QED BY <3>2, <4>1, <4>2, <4>3
    <3> QED BY <3>1, <3>2
  <2>6. Len(f) = Len(Frame(m)) - 1 /\ \A i \in 1 .. Len(f) : f[i] = IF i < p THEN Frame(m)[i] ELSE Frame(m)[i + 1]
    BY <2>4, <2>5 DEF F
  <2>7. Len(f) >= 1 /\ p \in 1 .. Len(Frame(m))
    BY <1>1, <2>4 DEF F
  <2> QED BY <2>4, <2>6, <2>7, LostGood
<1>6. ASSUME NEW p \in 1 .. n, NEW c \in Noise, f = InsertAt(F, p, c)
      PROVE  f \in Seq(Byte) /\ Len(f) >= 1 /\ Good(f, {m})
  <2> HIDE DEF F
  <2> DEFINE a == SubSeq(F, 1, p - 1)
             d == <<c>>
             b == SubSeq(F, p, n)
             e == a \o d
  <2>1. f = e \o b
    BY <1>6 DEF InsertAt
  <2>2. a \in Seq(Byte) /\ Len(a) = p - 1 /\ \A k \in 1 .. p - 1 : a[k] = F[k]
    BY <1>1, FirstPart
  <2>3. b \in Seq(Byte) /\ Len(b) = n - (p - 1) /\ \A k \in 1 .. n - (p - 1) : b[k] = F[p - 1 + k]
    <3> DEFINE q == p - 1
    <3>1. q \in 0 .. n /\ n \in q .. n /\ q + 1 = p
      BY <1>1
    <3> HIDE DEF q
    <3>2. b = SubSeq(F, q + 1, n)
      BY <3>1
    <3>3. b \in Seq(Byte) /\ Len(b) = n - q /\ \A k \in 1 .. n - q : b[k] = F[q + k]
      BY <1>1, <3>1, <3>2, Piece
    <3> QED BY <3>3 DEF q
  <2>4. d \in Seq(Byte) /\ Len(d) = 1
    BY <1>2
  <2> HIDE DEF a, b, d
  <2>5. e \in Seq(Byte) /\ Len(e) = p /\ \A i \in 1 .. p - 1 : e[i] = F[i]
    <3>1. e \in Seq(Byte) /\ Len(e) = Len(a) + Len(d) /\ \A i \in 1 .. Len(a) : e[i] = a[i]
      BY <2>2, <2>4, Joined
    <3>2. Len(a) + Len(d) = p
      BY <1>1, <2>2, <2>4
    <3> QED BY <2>2, <3>1, <3>2
  <2> HIDE DEF e
  <2>6. /\ f \in Seq(Byte) /\ Len(f) = n + 1
        /\ \A i \in 1 .. p : f[i] = e[i]
        /\ \A i \in p + 1 .. n + 1 : f[i] = b[i - p]
    <3>1. /\ f \in Seq(Byte) /\ Len(f) = Len(e) + Len(b)
          /\ \A i \in 1 .. Len(e) : f[i] = e[i]
          /\ \A i \in Len(e) + 1 .. Len(e) + Len(b) : f[i] = b[i - Len(e)]
      BY <2>1, <2>3, <2>5, Joined
    <3>2. Len(e) + Len(b) = n + 1
      BY <1>1, <2>3, <2>5
    <3> QED BY <2>5, <3>1, <3>2
  <2>7. ASSUME NEW i \in 1 .. n + 1, i # p
        PROVE  f[i] = IF i < p THEN F[i] ELSE F[i - 1]
    <3>1. CASE i < p
      <4>1. i \in 1 .. p - 1 /\ i \in 1 .. p
        BY <1>1, <3>1
      <4> QED BY <2>5, <2>6, <3>1, <4>1
    <3>2. CASE ~(i < p)
      <4>1. i \in p + 1 .. n + 1 /\ i - p \in 1 .. n - (p - 1) /\ p - 1 + (i - p) = i - 1
        BY <1>1, <2>7, <3>2
      <4>2. f[i] = b[i - p] /\ b[i - p] = F[p - 1 + (i - p)]
        BY <2>3, <2>6, <4>1
      <4> QED BY <3>2, <4>1, <4>2
    <3> QED BY <3>1, <3>2
  <2>8. /\ Len(f) = Len(Frame(m)) + 1
        /\ \A i \in 1 .. Len(f) : i # p => f[i] = IF i < p THEN Frame(m)[i] ELSE Frame(m)[i - 1]
    BY <2>6, <2>7 DEF F
  <2>9. Len(f) >= 1 /\ p \in 1 .. Len(Frame(m))
    BY <1>1, <2>6 DEF F
  <2> QED BY <2>6, <2>8, <2>9, InsertedGood
<1> HIDE DEF F
<1>7. CASE f \in Changed(F)
  <2>1. PICK p \in 1 .. n, c \in Noise : f = ReplaceAt(F, p, c)
    BY <1>7 DEF Changed
  <2> QED BY <1>4, <2>1
<1>8. CASE f \in Lost(F)
  <2>1. PICK p \in 1 .. n : f = RemoveAt(F, p)
    BY <1>8, Zenon DEF Lost
  <2> QED BY <1>5, <2>1
<1>9. CASE f \in Inserted(F)
  <2>1. PICK p \in 1 .. n, c \in Noise : f = InsertAt(F, p, c)
    BY <1>9 DEF Inserted
  <2> QED BY <1>6, <2>1
<1> QED BY <1>3, <1>7, <1>8, <1>9 DEF Disturbed, F

(* What comes behind a line without an end is as good as it was alone.     *)
LEMMA ConcatGood ==
  ASSUME NEW M \in SUBSET Seq(Byte), NEW m \in Seq(Byte),
         NEW r \in Seq(Byte), r = <<>> \/ Open(r, M),
         NEW f \in Seq(Byte), Len(f) >= 1, Good(f, {m})
  PROVE  Good(r \o f, M \cup {m})
<1> DEFINE z == r \o f
           a == Len(r)
           b == Len(f)
<1>1. z \in Seq(Byte) /\ Len(z) = a + b /\ a \in Nat /\ b \in Nat /\ b >= 1
  BY Joined
<1>2. \A k \in 1 .. a : z[k] = r[k]
  BY Joined
<1>3. \A k \in 1 .. b : z[a + k] = f[k]
  <2>1. \A k \in a + 1 .. a + b : z[k] = f[k - a]
    BY Joined
  <2> HIDE DEF a, b, z
  <2> SUFFICES ASSUME NEW k \in 1 .. b PROVE z[a + k] = f[k]
    OBVIOUS
  <2> DEFINE h == a + k
  <2>2. h \in a + 1 .. a + b /\ h - a = k
    BY <1>1
  <2> HIDE DEF h
  <2>3. z[h] = f[h - a]
    BY <2>1, <2>2
  <2> QED BY <2>2, <2>3 DEF h
<1>4. \A k \in 1 .. a : r[k] # 10
  BY DEF Open
<1> HIDE DEF z
<1>5. ASSUME NEW i \in Int, NEW j \in Int, Segment(z, i, j), Whole(SubSeq(z, i + 1, j))
      PROVE  \E h \in M \cup {m} : Near(Read(SubSeq(z, i + 1, j)), WithLrc(h))
  <2> DEFINE c == SubSeq(z, i + 1, j)
  <2> HIDE DEF a, b
  <2>1. /\ i \in 0 .. a + b /\ j \in i + 1 .. a + b /\ (i = 0 \/ z[i] = 10) /\ z[j] = 10
        /\ \A k \in i + 1 .. j - 1 : z[k] # 10
    BY <1>1, <1>5 DEF Segment
  <2>2. c \in Seq(Byte) /\ Len(c) = j - i /\ \A k \in 1 .. j - i : c[k] = z[i + k]
    BY <1>1, <1>5, WholeSegment
  <2>3. \A k \in i + 2 .. j - 2 : z[k] \in AsciiChars
    BY <1>1, <1>5, WholeSegment
  <2>4. j > a
    <3>1. SUFFICES ASSUME j <= a PROVE FALSE
      BY <1>1, <2>1
    <3>2. j \in 1 .. a
      BY <1>1, <2>1, <3>1
    <3> QED BY <1>2, <1>4, <2>1, <3>2
  <2>5. CASE i < a
    <3>1. i = 0
      <4>1. SUFFICES ASSUME i # 0 PROVE FALSE
        OBVIOUS
      <4>2. i \in 1 .. a
        BY <1>1, <2>1, <2>5, <4>1
      <4> QED BY <1>2, <1>4, <2>1, <4>1, <4>2
    <3>2. r # <<>>
      BY <1>1, <2>1, <2>5 DEF a
    <3>3. PICK k \in 2 .. a : /\ r[k] = 13
                              /\ k = a => \E h \in M : /\ Len(Frame(h)) = k + 1
                                                       /\ \A q \in 1 .. k : r[q] = Frame(h)[q]
      BY <3>2 DEF Open, a
    <3>4. z[k] = 13 /\ k \in 1 .. a
      BY <1>1, <1>2, <3>3
    <3>5. ~(k \in i + 2 .. j - 2)
      BY <2>3, <3>4, HexDigits
    <3>6. k = a /\ j = a + 1
      BY <1>1, <2>1, <2>4, <3>1, <3>4, <3>5
    <3>7. PICK h \in M : Len(Frame(h)) = k + 1 /\ \A q \in 1 .. k : r[q] = Frame(h)[q]
      BY <3>3, <3>6
    <3>8. Len(c) = Len(Frame(h))
      BY <1>1, <2>1, <2>2, <3>1, <3>6, <3>7
    <3>9. ASSUME NEW q \in 1 .. Len(c), q # j
          PROVE  c[q] = Frame(h)[q]
      <4>1. q \in 1 .. j - i /\ q \in 1 .. a /\ q \in 1 .. k /\ i + q = q
        BY <1>1, <2>1, <2>2, <3>1, <3>6, <3>9
      <4>2. c[q] = z[i + q]
        BY <2>2, <4>1
      <4> QED BY <1>2, <3>7, <4>1, <4>2
    <3>10. h \in Seq(Byte)
      OBVIOUS
    <3> HIDE DEF c
    <3>11. Near(Read(c), WithLrc(h))
      BY <1>5, <2>2, <3>8, <3>9, <3>10, ReadNear DEF c
    <3> QED BY <3>11 DEF c
  <2>6. CASE ~(i < a)
    <3> DEFINE u == i - a
               v == j - a
               d == SubSeq(f, u + 1, v)
    <3>1. u \in 0 .. b /\ v \in u + 1 .. b /\ v \in u .. b /\ u \in Int /\ v \in Int
          /\ i = a + u /\ j = a + v /\ v - u = j - i
      BY <1>1, <2>1, <2>6
    <3> HIDE DEF u, v, c
    <3>2. d \in Seq(Byte) /\ Len(d) = v - u /\ \A k \in 1 .. v - u : d[k] = f[u + k]
      BY <3>1, Piece DEF b
    <3> HIDE DEF d
    <3>3. c = d
      <4>1. Len(c) = Len(d)
        BY <2>2, <3>1, <3>2
      <4>2. ASSUME NEW k \in 1 .. Len(c) PROVE c[k] = d[k]
        <5>1. k \in 1 .. j - i /\ k \in 1 .. v - u /\ u + k \in 1 .. b /\ i + k = a + (u + k)
          BY <1>1, <2>1, <2>2, <3>1
        <5>2. c[k] = z[i + k] /\ d[k] = f[u + k]
          BY <2>2, <3>2, <5>1
        <5>3. z[a + (u + k)] = f[u + k]
          BY <1>3, <5>1
        <5> QED BY <5>1, <5>2, <5>3
      <4> QED BY <2>2, <3>2, <4>1, <4>2, SeqEqual
    <3>4. Segment(f, u, v)
      <4>1. u = 0 \/ f[u] = 10
        <5>1. SUFFICES ASSUME u # 0 PROVE f[u] = 10
          OBVIOUS
        <5>2. u \in 1 .. b /\ i # 0
          BY <1>1, <3>1, <5>1
        <5> QED BY <1>3, <2>1, <3>1, <5>2
      <4>2. f[v] = 10
        <5>1. v \in 1 .. b
          BY <1>1, <3>1
        <5> QED BY <1>3, <2>1, <3>1, <5>1
      <4>3. ASSUME NEW k \in u + 1 .. v - 1 PROVE f[k] # 10
        <5>1. k \in 1 .. b /\ a + k \in i + 1 .. j - 1
          BY <1>1, <3>1
        <5> QED BY <1>3, <2>1, <5>1
      <4> QED BY <3>1, <4>1, <4>2, <4>3 DEF Segment, b
    <3>5. Fine(d, {m})
      BY <3>1, <3>4 DEF Good, d
    <3> QED BY <1>5, <3>3, <3>5 DEF Fine, c
  <2> QED BY <1>1, <2>1, <2>5, <2>6
<1>6. z[a + b] = 10 \/ Open(z, M \cup {m})
  <2> HIDE DEF a, b
  <2>1. b \in 1 .. b /\ z[a + b] = f[b]
    <3>1. b \in 1 .. b
      BY <1>1
    <3> QED BY <1>3, <3>1
  <2>2. SUFFICES ASSUME f[b] # 10 PROVE Open(z, M \cup {m})
    BY <2>1
  <2>3. Open(f, {m})
    <3>1. f # <<>>
      BY <1>1 DEF b
    <3> QED BY <2>2, <3>1 DEF Good, b
  <2>4. ASSUME NEW k \in 1 .. a + b PROVE z[k] # 10
    <3>1. CASE k \in 1 .. a
      BY <1>2, <1>4, <3>1
    <3>2. CASE ~(k \in 1 .. a)
      <4> DEFINE h == k - a
      <4>1. h \in 1 .. b /\ k = a + h
        BY <1>1, <3>2
      <4> HIDE DEF h
      <4>2. z[k] = f[h] /\ f[h] # 10
        BY <1>3, <2>3, <4>1 DEF Open, b
      <4> QED BY <4>2
    <3> QED BY <3>1, <3>2
  <2>5. CASE r = <<>>
    <3>1. a = 0
      BY <2>5 DEF a
    <3>2. z = f
      <4>1. Len(z) = Len(f)
        BY <1>1, <3>1 DEF b
      <4>2. ASSUME NEW k \in 1 .. Len(z) PROVE z[k] = f[k]
        <5>1. k \in 1 .. b /\ a + k = k
          BY <1>1, <3>1
        <5> QED BY <1>3, <5>1
      <4> QED BY <1>1, <4>1, <4>2, SeqEqual
    <3> QED BY <2>3, <3>2 DEF Open
  <2>6. CASE Open(r, M)
    <3>1. PICK k \in 2 .. a : r[k] = 13
      BY <2>6 DEF Open, a
    <3>2. k \in 2 .. a + b /\ k # a + b /\ k \in 1 .. a
      BY <1>1
    <3>3. z[k] = 13
      BY <1>2, <3>1, <3>2
    <3>4. Len(z) = a + b
      BY <1>1
    <3> QED BY <2>4, <3>2, <3>3, <3>4 DEF Open
  <2> QED BY <2>5, <2>6
<1> QED BY <1>1, <1>5, <1>6 DEF Good, Fine, z

(* What is behind the first line end is a good line again.                 *)
LEMMA RestGood ==
  ASSUME NEW M \in SUBSET Seq(Byte), NEW z \in Seq(Byte), NEW e \in 1 .. Len(z), z[e] = 10, Good(z, M)
  PROVE  SubSeq(z, e + 1, Len(z)) \in Seq(Byte) /\ Good(SubSeq(z, e + 1, Len(z)), M)
<1> DEFINE n == Len(z)
           b == n - e
           t == SubSeq(z, e + 1, n)
<1>1. n \in Nat /\ e \in 0 .. n /\ n \in e .. n /\ b \in Nat /\ n = e + b
  OBVIOUS
<1> HIDE DEF n
<1>2. t \in Seq(Byte) /\ Len(t) = n - e /\ \A k \in 1 .. n - e : t[k] = z[e + k]
  BY <1>1, Piece DEF n
<1>3. \A k \in 1 .. b : t[k] = z[e + k]
  BY <1>2
<1>7. Len(t) = b
  BY <1>2
<1> HIDE DEF b, t
<1>4. ASSUME NEW i \in Int, NEW j \in Int, Segment(t, i, j)
      PROVE  Fine(SubSeq(t, i + 1, j), M)
  <2>1. /\ i \in 0 .. b /\ j \in i + 1 .. b /\ (i = 0 \/ t[i] = 10) /\ t[j] = 10
        /\ \A k \in i + 1 .. j - 1 : t[k] # 10
    BY <1>4, <1>7 DEF Segment
  <2> DEFINE u == e + i
             v == e + j
             c == SubSeq(t, i + 1, j)
             d == SubSeq(z, u + 1, v)
  <2>2. u \in 0 .. n /\ v \in u + 1 .. n /\ v \in u .. n /\ u \in Int /\ v \in Int /\ v - u = j - i
        /\ i \in 0 .. b /\ j \in i .. b
    BY <1>1, <2>1
  <2>3. c \in Seq(Byte) /\ Len(c) = j - i /\ \A k \in 1 .. j - i : c[k] = t[i + k]
    BY <1>2, <1>7, <2>2, Piece
  <2>10. \A k \in Int : u + k = e + (i + k)
    BY <1>1, <2>1
  <2>11. \A k \in u + 1 .. v - 1 : k - e \in i + 1 .. j - 1 /\ k - e \in 1 .. b /\ k = e + (k - e)
    BY <1>1, <2>1
  <2>12. u = e \/ (u # e /\ i # 0 /\ i \in 1 .. b)
    BY <1>1, <2>1
  <2>13. j \in 1 .. b
    BY <1>1, <2>1
  <2>14. z[v] = 10 /\ (u = e \/ z[u] = 10)
    BY <1>3, <2>1, <2>12, <2>13
  <2> HIDE DEF u, v, c
  <2>4. d \in Seq(Byte) /\ Len(d) = v - u /\ \A k \in 1 .. v - u : d[k] = z[u + k]
    BY <2>2, Piece DEF n
  <2> HIDE DEF d
  <2>5. c = d
    <3>1. Len(c) = Len(d)
      BY <2>2, <2>3, <2>4
    <3>2. ASSUME NEW k \in 1 .. Len(c) PROVE c[k] = d[k]
      <4>1. k \in 1 .. j - i /\ k \in 1 .. v - u /\ i + k \in 1 .. b /\ u + k = e + (i + k)
        BY <1>1, <2>1, <2>2, <2>3, <2>10
      <4>2. c[k] = t[i + k] /\ d[k] = z[u + k]
        BY <2>3, <2>4, <4>1
      <4>3. t[i + k] = z[e + (i + k)]
        BY <1>3, <4>1
      <4> QED BY <4>1, <4>2, <4>3
    <3> QED BY <2>3, <2>4, <3>1, <3>2, SeqEqual
  <2>6. Segment(z, u, v)
    <3>1. ASSUME NEW k \in u + 1 .. v - 1 PROVE z[k] # 10
      <4> DEFINE h == k - e
      <4>1. h \in i + 1 .. j - 1 /\ h \in 1 .. b /\ k = e + h
        BY <2>11
      <4> HIDE DEF h
      <4> QED BY <1>3, <2>1, <4>1
    <3> QED BY <2>2, <2>14, <3>1 DEF Segment, n
  <2> QED BY <2>2, <2>5, <2>6 DEF Good, c, d
<1>5. CASE b = 0
  <2>1. t = <<>>
    BY <1>2, <1>5, <1>7
  <2> QED BY <1>2, <1>4, <2>1 DEF Good, t, n
<1>6. CASE b # 0
  <2>1. z # <<>> /\ ~Open(z, M)
    <3>1. Len(z) # 0
      BY <1>1 DEF n
    <3> QED BY <3>1 DEF Open
  <2>2. z[n] = 10
    BY <2>1 DEF Good, n
  <2>3. b \in 1 .. b /\ t[b] = z[e + b]
    <3>1. b \in 1 .. b
      BY <1>1, <1>6
    <3> QED BY <1>3, <3>1
  <2>4. t[Len(t)] = 10
    BY <1>1, <1>7, <2>2, <2>3
  <2> QED BY <1>2, <1>4, <2>4 DEF Good, t, n
<1> QED BY <1>5, <1>6

------------------------------------------------------------------------------
(* The messages that may be on the line.                                   *)
Sent == ToSet(sent)

(* Every chunk that can come of the line will do no harm.                  *)
LineGood == Good(line, Sent)

(* If the last message was not disturbed and the line was empty before it, *)
(* the line has its frame or nothing.                                      *)
Undisturbed == ~spoilt => line = <<>> \/ (sent # <<>> /\ line = Frame(Last(sent)))

(* What passed the checksum is a message of the host, whole.               *)
Accepted ==
  pc = "frame" /\ code = ERR_NONE =>
    rcvlen <= BufSize /\ \E m \in Sent : rcvlen = Len(m) /\ Bytes(buf, rcvlen) = m

(* What did not, and still has the length its data length says, has the    *)
(* front of one: the byte that is wrong is one of the length.              *)
Refused ==
  pc = "frame" /\ code = ERR_LRC /\ rcvlen - 6 = DataLen(buf) =>
    \E m \in Sent : Bytes(buf, 4) = SubSeq(m, 1, 4)

(* The inductive invariant. The properties alone are not inductive:        *)
(* whether a chunk is read as a message is settled when it is sent, and    *)
(* what makes a refusal readable when it is received.                      *)
IInv ==
  /\ TypeOK /\ LineGood /\ Undisturbed
  /\ Accepted /\ Refused /\ Delivered /\ ReplyReadable

(* What the assumption says of a message and of RX_buf.                    *)
LEMMA Messages ==
  /\ Message \subseteq Seq(Byte)
  /\ \A m \in Message :
       /\ Len(m) \in Nat /\ Len(m) >= 6 /\ Len(m) + 5 <= BufSize
       /\ m[5] * 256 + m[6] = Len(m) - 6
  /\ BufSize \in Nat /\ BufSize >= 17 /\ BufSize < Word /\ Word \in Nat
<1>1. \A m \in Message : /\ m \in Seq(Byte) /\ Len(m) >= 6
                         /\ m[5] * 256 + m[6] = Len(m) - 6
                         /\ 2 * Len(m) + 5 <= BufSize
  BY AsciiLineAssumption, Zenon
<1>2. \A m \in Message : Len(m) \in Nat
  BY <1>1
<1>3. BufSize \in Nat /\ BufSize < Word /\ Word \in Nat /\ Message # {}
  <2>1. BufSize \in 0 .. Word - 1 /\ Message # {}
    BY AsciiLineAssumption, Zenon
  <2>2. Word \in Nat
    BY DEF Word
  <2> QED BY <2>1, <2>2
<1>4. BufSize >= 17
  <2>1. PICK m \in Message : TRUE
    BY <1>3
  <2> QED BY <1>1, <1>2, <1>3, <2>1
<1>5. \A m \in Message : Len(m) + 5 <= BufSize
  BY <1>1, <1>2, <1>3
<1> QED BY <1>1, <1>2, <1>3, <1>4, <1>5

(* The messages on the line are messages.                                  *)
LEMMA SentTyped ==
  ASSUME TypeOK
  PROVE  Sent \subseteq Message /\ Sent \in SUBSET Seq(Byte)
<1>1. Sent \subseteq Message
  BY DEF TypeOK, Sent, ToSet
<1> QED BY <1>1, Messages

(* The host's messages after the first one,                                *)
LEMMA SentFirst ==
  ASSUME NEW m
  PROVE  ToSet(<<m>>) = {m} /\ Last(<<m>>) = m
BY DEF ToSet, Last

(* and after another one.                                                  *)
LEMMA SentAppend ==
  ASSUME NEW s \in Seq(Message), NEW m \in Message, NEW t, t = Append(s, m)
  PROVE  t \in Seq(Message) /\ ToSet(t) = ToSet(s) \cup {m}
<1> DEFINE n == Len(s)
<1>1. /\ Append(s, m) \in Seq(Message) /\ Len(Append(s, m)) = n + 1
      /\ \A i \in 1 .. n : Append(s, m)[i] = s[i]
      /\ Append(s, m)[n + 1] = m
      /\ n \in Nat
  BY AppendProperties
<1>2. /\ t \in Seq(Message) /\ Len(t) = n + 1 /\ \A i \in 1 .. n : t[i] = s[i]
      /\ t[n + 1] = m
  BY <1>1
<1>3. n \in Nat /\ DOMAIN s = 1 .. n /\ DOMAIN t = 1 .. n + 1
  BY <1>1, <1>2
<1> HIDE DEF n
<1>4. ASSUME NEW x \in ToSet(t) PROVE x \in ToSet(s) \cup {m}
  <2>1. PICK i \in 1 .. n + 1 : x = t[i]
    BY <1>3, <1>4 DEF ToSet
  <2>2. i \in 1 .. n \/ i = n + 1
    BY <1>3
  <2> QED BY <1>2, <1>3, <2>1, <2>2 DEF ToSet
<1>5. ASSUME NEW x \in ToSet(s) \cup {m} PROVE x \in ToSet(t)
  <2>1. CASE x = m
    <3>1. n + 1 \in 1 .. n + 1
      BY <1>3
    <3> QED BY <1>2, <1>3, <2>1, <3>1 DEF ToSet
  <2>2. CASE x \in ToSet(s)
    <3>1. PICK i \in 1 .. n : x = s[i]
      BY <1>3, <2>2 DEF ToSet
    <3>2. i \in 1 .. n + 1
      BY <1>3
    <3> QED BY <1>2, <1>3, <3>1, <3>2 DEF ToSet
  <2> QED BY <1>5, <2>1, <2>2
<1> QED BY <1>2, <1>4, <1>5

(* The reply of HandleFrameInformation.                                    *)
LEMMA ReplyIs ==
  ASSUME TypeOK, NEW result \in 0 .. 2
  PROVE  LET a == Bytes(buf, 4) \o <<0, 1, result>>
         IN  SendData(a) = Frame(a) /\ Frame(a) \in Seq(AsciiChars \cup {58, 13, 10})
<1> DEFINE h == Bytes(buf, 4)
           t == <<0, 1, result>>
           a == h \o t
<1>1. h \in Seq(Byte)
  <2>1. \A i \in 1 .. 4 : buf[i - 1] \in Byte
    BY Messages DEF TypeOK
  <2> QED BY <2>1, IsASeq DEF Bytes
<1>2. t \in Seq(Byte)
  BY DEF Byte
<1> HIDE DEF h, t
<1>3. a \in Seq(Byte)
  BY <1>1, <1>2, Joined
<1> HIDE DEF a
<1>4. SendData(a) = Frame(a)
  BY <1>3, SendDataIsFrame
<1>5. Frame(a) \in Seq(AsciiChars \cup {58, 13, 10})
  <2> DEFINE F == Frame(a)
             n == Len(a) + 1
  <2>1. /\ F \in Seq(Byte) /\ Len(F) = 2 * n + 3
        /\ F[1] = 58 /\ F[2 * n + 2] = 13 /\ F[2 * n + 3] = 10
        /\ \A i \in 2 .. 2 * n + 1 : F[i] \in HexDigit
    BY <1>3, FrameShape
  <2>2. n \in Nat
    BY <1>3
  <2> HIDE DEF F, n
  <2>3. ASSUME NEW i \in 1 .. Len(F) PROVE F[i] \in AsciiChars \cup {58, 13, 10}
    <3>1. i = 1 \/ i \in 2 .. 2 * n + 1 \/ i = 2 * n + 2 \/ i = 2 * n + 3
      BY <2>1, <2>2
    <3> QED BY <2>1, <3>1, HexDigits
  <2>4. F \in [1 .. Len(F) -> AsciiChars \cup {58, 13, 10}] /\ Len(F) \in Nat
    <3>1. F \in [1 .. Len(F) -> Byte] /\ Len(F) \in Nat
      BY <2>1, LenProperties
    <3> QED BY <2>3, <3>1
  <2> QED BY <2>4, SeqDef DEF F
<1> QED BY <1>4, <1>5 DEF a, h, t

(* The chunk that is looked at, and what is left of the line.              *)
LEMMA ChunkIs ==
  ASSUME TypeOK, LineGood, NEW chunk \in Chunks
  PROVE  /\ chunk \in Seq(Byte) /\ Len(chunk) \in 1 .. Len(line) /\ Len(line) \in Nat
         /\ \A k \in 1 .. Len(chunk) : chunk[k] = line[k]
         /\ line[Len(chunk)] = 10 /\ \A k \in 1 .. Len(chunk) - 1 : line[k] # 10
         /\ Whole(chunk) => \E m \in Sent : Near(Read(chunk), WithLrc(m))
         /\ SubSeq(line, Len(chunk) + 1, Len(line)) \in Seq(Byte)
         /\ Len(SubSeq(line, Len(chunk) + 1, Len(line))) = Len(line) - Len(chunk)
         /\ Good(SubSeq(line, Len(chunk) + 1, Len(line)), Sent)
<1>1. PICK e \in LineEnds : (\A j \in LineEnds : e <= j) /\ chunk = SubSeq(line, 1, e)
  BY DEF Chunks
<1>2. line \in Seq(Byte) /\ Len(line) \in Nat /\ e \in 1 .. Len(line) /\ line[e] = 10
      /\ Sent \in SUBSET Seq(Byte)
  BY SentTyped DEF TypeOK, LineEnds, ASCII_TAIL_SECOND_DATA
<1>3. ASSUME NEW k \in 1 .. e - 1 PROVE line[k] # 10
  <2>1. k \in 1 .. Len(line) /\ ~(e <= k)
    BY <1>2
  <2> QED BY <1>1, <2>1 DEF LineEnds, ASCII_TAIL_SECOND_DATA
<1> DEFINE i == 0
           c == SubSeq(line, i + 1, e)
<1>4. i \in 0 .. Len(line) /\ e \in i .. Len(line) /\ e \in i + 1 .. Len(line) /\ i = 0 /\ i \in Int /\ e \in Int
  BY <1>2
<1>5. c = chunk
  BY <1>1
<1>10. \A k \in 1 .. e : i + k = k
  BY <1>2
<1>11. e - i = e
  BY <1>2
<1>12. \A k \in i + 1 .. e - 1 : line[k] # 10
  BY <1>3
<1> HIDE DEF i
<1>6. c \in Seq(Byte) /\ Len(c) = e - i /\ \A k \in 1 .. e - i : c[k] = line[i + k]
  BY <1>2, <1>4, Piece
<1>7. Segment(line, i, e)
  BY <1>2, <1>4, <1>12 DEF Segment
<1>8. Fine(c, Sent)
  BY <1>4, <1>7 DEF LineGood, Good
<1> HIDE DEF c
<1>9. Len(chunk) = e /\ chunk \in Seq(Byte) /\ \A k \in 1 .. e : chunk[k] = line[k]
  BY <1>5, <1>6, <1>10, <1>11
<1> DEFINE t == SubSeq(line, e + 1, Len(line))
<1>13. t \in Seq(Byte) /\ Good(t, Sent)
  BY <1>2, RestGood DEF LineGood
<1>14. Len(t) = Len(line) - e
  <2>1. e \in 0 .. Len(line) /\ Len(line) \in e .. Len(line)
    BY <1>2
  <2> QED BY <1>2, <2>1, Piece
<1> HIDE DEF t
<1>15. Whole(chunk) => \E m \in Sent : Near(Read(chunk), WithLrc(m))
  BY <1>5, <1>8 DEF Fine
<1> QED BY <1>2, <1>3, <1>9, <1>13, <1>14, <1>15 DEF t

------------------------------------------------------------------------------
(* The initial states have the invariant.                                  *)
LEMMA InitIInv == Init => IInv
<1> SUFFICES ASSUME Init PROVE IInv
  OBVIOUS
<1>1. TypeOK
  <2>1. 0 \in Byte /\ line = <<>> /\ sent = <<>> /\ reply = <<>>
    BY DEF Byte, Init
  <2>2. line \in Seq(Byte) /\ Len(line) = 0 /\ sent \in Seq(Message) /\ reply \in Seq(AsciiChars \cup {58, 13, 10})
    BY <2>1, EmptySeq
  <2>3. Len(line) <= BufSize /\ damage \in 0 .. MaxDamage
    BY <2>2, Messages, AsciiLineAssumption DEF Init
  <2>7. 0 \in 0 .. Word + 5
    BY Messages
  <2>4. buf \in [0 .. BufSize - 1 -> Byte]
    BY <2>1 DEF Init
  <2>5. /\ pc \in {"wait", "frame", "fault"} /\ rcvlen \in 0 .. Word + 5
        /\ code \in {ERR_NONE, ERR_ASCII, ERR_LRC, ERR_INVALID_DATA}
    BY <2>7, SMT DEF Init
  <2>6. spoilt \in BOOLEAN /\ upgrading \in BOOLEAN
    BY Zenon DEF Init
  <2> QED BY <2>2, <2>3, <2>4, <2>5, <2>6, SMT DEF TypeOK
<1>2. LineGood
  <2>1. line = <<>> /\ Len(line) = 0
    BY DEF Init
  <2>2. \A p, q \in Int : ~Segment(line, p, q)
    BY <2>1 DEF Segment
  <2> QED BY <2>1, <2>2 DEF LineGood, Good
<1> QED BY <1>1, <1>2 DEF IInv, Init, Undisturbed, Accepted, Refused, Delivered, ReplyReadable

(* A message on the line.                                                  *)
LEMMA HostSendIInv == IInv /\ HostSend => IInv'
<1> SUFFICES ASSUME IInv, HostSend PROVE IInv'
  OBVIOUS
<1>1. TypeOK /\ LineGood /\ Undisturbed
  BY DEF IInv
<1>2. PICK m \in Message :
        /\ sent' = IF line = <<>> THEN <<m>> ELSE Append(sent, m)
        /\ \/ /\ line' = line \o Frame(m)
              /\ spoilt' = (line # <<>>)
              /\ UNCHANGED damage
           \/ /\ damage < MaxDamage /\ damage' = damage + 1
              /\ \E f \in Disturbed(Frame(m)) : line' = line \o f
              /\ spoilt' = TRUE
  BY DEF HostSend
<1>3. /\ pc = "wait" /\ LineEnds = {} /\ Len(line') <= BufSize /\ reply' = <<>>
      /\ pc' = pc /\ buf' = buf /\ rcvlen' = rcvlen /\ code' = code /\ upgrading' = upgrading
  BY DEF HostSend
<1>4. PICK f \in {Frame(m)} \cup Disturbed(Frame(m)) : line' = line \o f
  <2>1. CASE line' = line \o Frame(m)
    BY <2>1, Zenon
  <2>2. CASE \E f \in Disturbed(Frame(m)) : line' = line \o f
    BY <2>2, Zenon
  <2>3. line' = line \o Frame(m) \/ \E f \in Disturbed(Frame(m)) : line' = line \o f
    BY <1>2
  <2> QED BY <2>1, <2>2, <2>3
<1>5. m \in Seq(Byte) /\ line \in Seq(Byte) /\ sent \in Seq(Message) /\ Sent \in SUBSET Seq(Byte)
  BY <1>1, Messages, SentTyped DEF TypeOK
<1>6. f \in Seq(Byte) /\ Len(f) >= 1 /\ Good(f, {m})
  BY <1>5, DisturbedGood
<1>7. line = <<>> \/ Open(line, Sent)
  <2>1. line # <<>> => Len(line) \in 1 .. Len(line)
    BY <1>5
  <2>2. line # <<>> => line[Len(line)] # 10
    BY <1>3, <2>1 DEF LineEnds, ASCII_TAIL_SECOND_DATA
  <2> QED BY <1>1, <2>2 DEF LineGood, Good
<1>8. Good(line', Sent \cup {m})
  BY <1>4, <1>5, <1>6, <1>7, ConcatGood
<1>11. sent' \in Seq(Message) /\ LineGood' /\ Undisturbed'
  <2>1. CASE line = <<>>
    <3>1. sent' = <<m>> /\ sent' \in Seq(Message) /\ sent' # <<>>
      BY <1>2, <2>1
    <3>2. Sent' = {m} /\ Last(sent') = m
      BY <3>1, SentFirst DEF Sent
    <3>3. line' = f
      BY <1>4, <1>6, <2>1, ConcatEmptySeq
    <3>4. LineGood'
      BY <1>6, <3>2, <3>3 DEF LineGood
    <3>5. ~spoilt' => line' = Frame(m)
      <4>1. Frame(m) \in Seq(Byte)
        BY <1>5, FrameEnds
      <4>2. <<>> \o Frame(m) = Frame(m)
        BY <4>1, ConcatEmptySeq
      <4> QED BY <1>2, <2>1, <4>2
    <3>6. Undisturbed'
      BY <3>1, <3>2, <3>5 DEF Undisturbed
    <3> QED BY <3>1, <3>4, <3>6
  <2>2. CASE line # <<>>
    <3>1. sent' = Append(sent, m)
      BY <1>2, <2>2
    <3>2. Sent' = Sent \cup {m} /\ sent' \in Seq(Message)
      BY <1>5, <3>1, SentAppend DEF Sent
    <3>3. LineGood'
      BY <1>8, <3>2 DEF LineGood
    <3>4. Undisturbed'
      BY <1>2, <2>2 DEF Undisturbed
    <3> QED BY <3>2, <3>3, <3>4
  <2> QED BY <2>1, <2>2
<1>12. TypeOK'
  <2>1. line' \in Seq(Byte)
    <3>1. line \o f \in Seq(Byte)
      BY <1>5, <1>6, ConcatProperties
    <3> QED BY <1>4, <3>1
  <2>2. spoilt' \in BOOLEAN
    BY <1>2, Zenon
  <2>5. damage' \in 0 .. MaxDamage
    <3>1. damage' = damage \/ (damage < MaxDamage /\ damage' = damage + 1)
      BY <1>2
    <3>2. damage \in 0 .. MaxDamage /\ MaxDamage \in Nat
      BY <1>1, AsciiLineAssumption DEF TypeOK
    <3> QED BY <3>1, <3>2
  <2>3. reply' \in Seq(AsciiChars \cup {58, 13, 10})
    BY <1>3, EmptySeq
  <2>4. /\ pc' \in {"wait", "frame", "fault"} /\ buf' \in [0 .. BufSize - 1 -> Byte]
        /\ rcvlen' \in 0 .. Word + 5
        /\ code' \in {ERR_NONE, ERR_ASCII, ERR_LRC, ERR_INVALID_DATA}
    BY <1>1, <1>3, SMT DEF TypeOK
  <2>6. upgrading \in BOOLEAN
    BY <1>1, SMT DEF TypeOK
  <2>7. upgrading' \in BOOLEAN
    BY <1>3, <2>6, Zenon
  <2> QED BY <1>3, <1>11, <2>1, <2>2, <2>3, <2>4, <2>5, <2>7, SMT DEF TypeOK
<1>13. Accepted' /\ Refused' /\ Delivered' /\ ReplyReadable'
  BY <1>3 DEF Accepted, Refused, Delivered, ReplyReadable
<1> QED BY <1>11, <1>12, <1>13 DEF IInv

(* What any look at a chunk leaves.                                        *)
LEMMA LookedLine ==
  ASSUME IInv, NEW chunk \in Chunks, Looked(chunk)
  PROVE  /\ LineGood' /\ Undisturbed' /\ ReplyReadable' /\ Sent' = Sent
         /\ sent' \in Seq(Message) /\ spoilt' \in BOOLEAN /\ damage' \in 0 .. MaxDamage
         /\ line' \in Seq(Byte) /\ Len(line') <= BufSize /\ upgrading' \in BOOLEAN
         /\ reply' \in Seq(AsciiChars \cup {58, 13, 10})
         /\ Len(chunk) \in Nat /\ Len(chunk) <= BufSize
         /\ ~spoilt => chunk = Frame(Last(sent)) /\ Last(sent) \in Sent
<1>1. TypeOK /\ LineGood /\ Undisturbed
  BY DEF IInv
<1>2. /\ chunk \in Seq(Byte) /\ Len(chunk) \in 1 .. Len(line) /\ Len(line) \in Nat
      /\ \A k \in 1 .. Len(chunk) : chunk[k] = line[k]
      /\ line[Len(chunk)] = 10
      /\ SubSeq(line, Len(chunk) + 1, Len(line)) \in Seq(Byte)
      /\ Len(SubSeq(line, Len(chunk) + 1, Len(line))) = Len(line) - Len(chunk)
      /\ Good(SubSeq(line, Len(chunk) + 1, Len(line)), Sent)
  BY <1>1, ChunkIs
<1>3. /\ line' = SubSeq(line, Len(chunk) + 1, Len(line))
      /\ reply' = <<>> /\ sent' = sent /\ spoilt' = spoilt /\ damage' = damage /\ upgrading' = upgrading
  BY DEF Looked
<1>4. Len(line) <= BufSize /\ BufSize \in Nat
  BY <1>1, Messages DEF TypeOK
<1>5. LineGood' /\ Sent' = Sent
  BY <1>2, <1>3 DEF LineGood, Sent
<1>6. ASSUME ~spoilt
      PROVE  chunk = Frame(Last(sent)) /\ Last(sent) \in Sent /\ line' = <<>>
  <2>1. sent # <<>> /\ line = Frame(Last(sent))
    <3>1. line # <<>>
      BY <1>2
    <3> QED BY <1>1, <1>6, <3>1 DEF Undisturbed
  <2>2. Last(sent) \in Sent
    <3>1. sent \in Seq(Message) /\ Len(sent) \in 1 .. Len(sent)
      BY <1>1, <2>1 DEF TypeOK
    <3> QED BY <3>1 DEF Sent, ToSet, Last
  <2>3. Last(sent) \in Seq(Byte)
    BY <1>1, <2>2, SentTyped
  <2>4. Len(chunk) = Len(line)
    <3>1. \A i \in 1 .. Len(line) : line[i] = 10 => i = Len(line)
      BY <2>1, <2>3, FrameEnds
    <3> QED BY <1>2, <3>1
  <2>5. line \in Seq(Byte)
    BY <1>1 DEF TypeOK
  <2>6. chunk = line
    BY <1>2, <2>4, <2>5, SeqEqual
  <2>7. line' = <<>>
    <3>1. Len(line') = 0 /\ line' \in Seq(Byte)
      BY <1>2, <1>3, <2>4
    <3> QED BY <3>1, EmptySeq
  <2> QED BY <2>1, <2>2, <2>6, <2>7
<1>7. Undisturbed'
  BY <1>3, <1>6 DEF Undisturbed
<1>8. ReplyReadable'
  BY <1>3 DEF ReplyReadable
<1>9. line' \in Seq(Byte) /\ Len(line') <= BufSize /\ Len(chunk) \in Nat /\ Len(chunk) <= BufSize
  BY <1>2, <1>3, <1>4
<1>10. reply' \in Seq(AsciiChars \cup {58, 13, 10})
  BY <1>3, EmptySeq
<1>11. /\ sent' \in Seq(Message) /\ spoilt' \in BOOLEAN /\ damage' \in 0 .. MaxDamage
       /\ upgrading' \in BOOLEAN
  BY <1>1, <1>3 DEF TypeOK
<1> QED BY <1>5, <1>6, <1>7, <1>8, <1>9, <1>10, <1>11, Zenon

(* RX_buf holds bytes after a chunk was copied to it.                      *)
LEMMA CopiedTyped ==
  ASSUME TypeOK, NEW chunk \in Seq(Byte)
  PROVE  Copied(chunk) \in [0 .. BufSize - 1 -> Byte]
<1>1. ASSUME NEW i \in 0 .. BufSize - 1, i < Len(chunk)
      PROVE  chunk[i + 1] \in Byte
  <2>1. i + 1 \in 1 .. Len(chunk)
    BY <1>1, Messages
  <2> QED BY <2>1
<1> QED BY <1>1 DEF Copied, TypeOK

(* The data length is a uint16_t.                                          *)
LEMMA DataLenTyped ==
  ASSUME NEW b \in [0 .. BufSize - 1 -> Byte]
  PROVE  DataLen(b) \in Nat /\ DataLen(b) < Word
<1>1. b[4] \in Byte /\ b[5] \in Byte
  BY Messages
<1>3. DataLen(b) = b[4] * 256 + b[5]
  BY DEF DataLen
<1> DEFINE x == b[4]
           y == b[5]
<1>4. x \in Byte /\ y \in Byte /\ DataLen(b) = x * 256 + y
  BY <1>1, <1>3
<1> HIDE DEF x, y
<1> QED BY <1>4, SMT DEF Byte, Word

(* The types after a look at a chunk.                                      *)
LEMMA LookedTyped ==
  ASSUME IInv, NEW chunk \in Chunks, Looked(chunk),
         pc' \in {"frame", "fault"}, buf' \in [0 .. BufSize - 1 -> Byte],
         rcvlen' \in 0 .. Word + 5, code' \in {ERR_NONE, ERR_ASCII, ERR_LRC, ERR_INVALID_DATA}
  PROVE  TypeOK'
<1>1. /\ sent' \in Seq(Message) /\ spoilt' \in BOOLEAN /\ damage' \in 0 .. MaxDamage
      /\ line' \in Seq(Byte) /\ Len(line') <= BufSize /\ upgrading' \in BOOLEAN
      /\ reply' \in Seq(AsciiChars \cup {58, 13, 10})
  BY LookedLine
<1>2. pc' \in {"wait", "frame", "fault"}
  OBVIOUS
<1> QED BY <1>1, <1>2, SMT DEF TypeOK

(* The length that was not assigned.                                       *)
LEMMA UnassignedTyped ==
  ASSUME Unassigned, buf' \in [0 .. BufSize - 1 -> Byte]
  PROVE  rcvlen' \in 0 .. Word + 5
<1>1. DataLen(buf') \in Nat /\ DataLen(buf') < Word /\ Word \in Nat
  BY DataLenTyped, Messages
<1> QED BY <1>1 DEF Unassigned

(* The packet in RX_buf.                                                   *)
LEMMA PacketIs ==
  ASSUME TypeOK, NEW chunk \in Seq(Byte), Whole(chunk), Len(chunk) <= BufSize
  PROVE  LET b == AsciiPacketToRtuPacket(chunk)
             n == RtuLen(chunk)
         IN  /\ b \in [0 .. BufSize - 1 -> Byte]
             /\ n \in Nat \ {0} /\ 2 * n + 3 <= BufSize
             /\ \A k \in 1 .. n : b[k - 1] = Read(chunk)[k]
<1> DEFINE b == AsciiPacketToRtuPacket(chunk)
           n == RtuLen(chunk)
           r == Read(chunk)
<1>1. /\ n \in Nat \ {0} /\ Len(chunk) = 2 * n + 3
      /\ r \in Seq(Byte) /\ Len(r) = n
      /\ \A i \in 1 .. n : r[i] = AsciiToHex(chunk[2 * i], chunk[2 * i + 1])
  BY WholeShape
<1>2. DOMAIN buf = 0 .. BufSize - 1 /\ \A i \in 0 .. BufSize - 1 : buf[i] \in Byte
  BY DEF TypeOK
<1>3. b = [i \in 0 .. BufSize - 1 |->
             IF i < n THEN AsciiToHex(chunk[2 * i + 2], chunk[2 * i + 3])
             ELSE IF i < Len(chunk) THEN chunk[i + 1]
             ELSE buf[i]]
  BY <1>2 DEF AsciiPacketToRtuPacket
<1> HIDE DEF n, b, r
<1>4. BufSize \in Nat
  BY Messages
<1>5. ASSUME NEW i \in 0 .. BufSize - 1
      PROVE  b[i] \in Byte
  <2>1. CASE i < n
    <3>1. 2 * i + 2 \in 1 .. Len(chunk) /\ 2 * i + 3 \in 1 .. Len(chunk)
      BY <1>1, <1>4, <2>1
    <3>2. chunk[2 * i + 2] \in Byte /\ chunk[2 * i + 3] \in Byte
      BY <3>1
    <3> QED BY <1>3, <2>1, <3>2, AsciiToHexIsByte
  <2>2. CASE ~(i < n) /\ i < Len(chunk)
    <3>1. i + 1 \in 1 .. Len(chunk)
      BY <1>4, <2>2
    <3> QED BY <1>3, <2>2, <3>1
  <2>3. CASE ~(i < n) /\ ~(i < Len(chunk))
    BY <1>2, <1>3, <2>3
  <2> QED BY <2>1, <2>2, <2>3
<1>6. ASSUME NEW k \in 1 .. n
      PROVE  b[k - 1] = r[k]
  <2> DEFINE i == k - 1
  <2>1. i \in 0 .. BufSize - 1 /\ i < n /\ 2 * i + 2 = 2 * k /\ 2 * i + 3 = 2 * k + 1
    BY <1>1, <1>4
  <2> HIDE DEF i
  <2>2. b[i] = AsciiToHex(chunk[2 * i + 2], chunk[2 * i + 3])
    BY <1>3, <2>1
  <2>3. b[i] = AsciiToHex(chunk[2 * k], chunk[2 * k + 1])
    BY <2>1, <2>2
  <2> QED BY <1>1, <2>3 DEF i
<1>7. b \in [0 .. BufSize - 1 -> Byte]
  BY <1>3, <1>5
<1> QED BY <1>1, <1>4, <1>6, <1>7 DEF b, n, r

(* The first bytes of RX_buf.                                              *)
LEMMA FrontBytes ==
  ASSUME NEW b \in [0 .. BufSize - 1 -> Byte], NEW n \in Nat, n <= BufSize
  PROVE  /\ Bytes(b, n) \in Seq(Byte) /\ Len(Bytes(b, n)) = n
         /\ \A i \in 1 .. n : Bytes(b, n)[i] = b[i - 1]
<1>1. BufSize \in Nat
  BY Messages
<1>2. \A i \in 1 .. n : b[i - 1] \in Byte
  BY <1>1
<1>3. Bytes(b, n) = [i \in 1 .. n |-> b[i - 1]]
  BY DEF Bytes
<1>4. Bytes(b, n) \in [1 .. n -> Byte]
  BY <1>2, <1>3
<1>5. Bytes(b, n) \in Seq(Byte) /\ Len(Bytes(b, n)) = n
  <2> DEFINE z == Bytes(b, n)
  <2>1. z \in [1 .. n -> Byte]
    BY <1>4
  <2> HIDE DEF z
  <2>2. z \in Seq(Byte) /\ Len(z) = n
    BY <2>1
  <2> QED BY <2>2 DEF z
<1> QED BY <1>3, <1>5

(* The front bytes of a message that is in RX_buf.                         *)
LEMMA HeaderIs ==
  ASSUME NEW b \in [0 .. BufSize - 1 -> Byte], NEW m \in Message,
         \A i \in 1 .. 4 : b[i - 1] = m[i]
  PROVE  Bytes(b, 4) = SubSeq(m, 1, 4)
<1>1. BufSize >= 4 /\ m \in Seq(Byte) /\ Len(m) \in Nat /\ Len(m) >= 6
  BY Messages
<1> DEFINE z == Bytes(b, 4)
           i == 0
           j == 4
           y == SubSeq(m, i + 1, j)
<1>2. z \in Seq(Byte) /\ Len(z) = 4 /\ \A k \in 1 .. 4 : z[k] = b[k - 1]
  <2>1. 4 \in Nat /\ 4 <= BufSize
    BY <1>1, Messages
  <2> QED BY <2>1, FrontBytes
<1>3. i \in 0 .. Len(m) /\ j \in i .. Len(m) /\ j - i = 4 /\ \A k \in 1 .. 4 : i + k = k
  BY <1>1
<1>4. y = SubSeq(m, 1, 4)
  OBVIOUS
<1> HIDE DEF i, j, z
<1>5. y \in Seq(Byte) /\ Len(y) = j - i /\ \A k \in 1 .. j - i : y[k] = m[i + k]
  BY <1>1, <1>3, Piece
<1> HIDE DEF y
<1>6. Len(y) = 4 /\ \A k \in 1 .. 4 : y[k] = m[k]
  BY <1>3, <1>5
<1>7. z = y
  <2>1. \A k \in 1 .. Len(z) : z[k] = y[k]
    BY <1>2, <1>6
  <2> QED BY <1>2, <1>5, <1>6, <2>1, SeqEqual
<1> QED BY <1>4, <1>7 DEF z

(* The two findings of the checksum: the packet is a message of the host,  *)
(* or its length does not fit unless its front is that of one.             *)
LEMMA PacketTold ==
  ASSUME TypeOK, NEW chunk \in Seq(Byte), Whole(chunk), Len(chunk) <= BufSize,
         NEW m \in Message, Near(Read(chunk), WithLrc(m)),
         NEW b, b = AsciiPacketToRtuPacket(chunk), NEW n, n = RtuLen(chunk)
  PROVE  /\ b \in [0 .. BufSize - 1 -> Byte] /\ n \in Nat \ {0} /\ n <= BufSize /\ n = Len(m) + 1
         /\ LrcRight(b, n) <=> Read(chunk) = WithLrc(m)
         /\ LrcRight(b, n) => Bytes(b, n - 1) = m
         /\ n - 6 = DataLen(b) => Bytes(b, 4) = SubSeq(m, 1, 4)
<1> DEFINE r == Read(chunk)
           B == WithLrc(m)
           l == Len(m)
<1>1. /\ b \in [0 .. BufSize - 1 -> Byte] /\ n \in Nat \ {0} /\ 2 * n + 3 <= BufSize
      /\ \A k \in 1 .. n : b[k - 1] = r[k]
  BY PacketIs
<1>2. r \in Seq(Byte) /\ Len(r) = n
  BY WholeShape
<1>3. /\ B \in Seq(Byte) /\ Len(B) = l + 1 /\ l \in Nat /\ l >= 6
      /\ \A i \in 1 .. l : B[i] = m[i]
  BY Messages, BytesOfFrame
<1>4. PICK p \in Int : \A i \in 1 .. Len(r) : i # p => r[i] = B[i]
  BY DEF Near
<1>5. Len(r) = Len(B)
  BY DEF Near
<1>6. BufSize \in Nat
  BY Messages
<1> HIDE DEF r, B, l
<1>7. n = l + 1 /\ n <= BufSize /\ l <= BufSize
  BY <1>1, <1>2, <1>3, <1>5, <1>6
<1> DEFINE z == Bytes(b, l)
<1>8. z \in Seq(Byte) /\ Len(z) = l /\ \A i \in 1 .. l : z[i] = b[i - 1]
  BY <1>1, <1>3, <1>7, FrontBytes
<1> HIDE DEF z
<1>9. \A i \in 1 .. l : z[i] = r[i]
  <2> SUFFICES ASSUME NEW i \in 1 .. l PROVE z[i] = r[i]
    OBVIOUS
  <2>1. i \in 1 .. n
    BY <1>3, <1>7
  <2> QED BY <1>1, <1>8, <2>1
<1>10. GetLrc(z) = r[l + 1] <=> r = B
  <2>1. Len(r) = l + 1 /\ Near(r, WithLrc(m)) /\ m \in Seq(Byte)
    BY <1>2, <1>7, Messages DEF r
  <2>2. z \in Seq(Byte) /\ Len(z) = l /\ l \in Nat /\ r \in Seq(Byte)
    BY <1>2, <1>3, <1>8
  <2>3. GetLrc(z) = r[l + 1] <=> r = WithLrc(m)
    BY <1>9, <2>1, <2>2, LrcTells
  <2> QED BY <2>3 DEF B
<1>11. LrcRight(b, n) <=> GetLrc(z) = r[l + 1]
  <2>1. n - 1 = l /\ n \in 1 .. n
    BY <1>1, <1>3, <1>7
  <2>2. b[n - 1] = r[n]
    BY <1>1, <2>1
  <2> QED BY <1>7, <2>1, <2>2 DEF LrcRight, z
<1>12. r = B => z = m
  <2> SUFFICES ASSUME r = B PROVE z = m
    OBVIOUS
  <2>1. \A i \in 1 .. Len(z) : z[i] = m[i]
    BY <1>3, <1>8, <1>9
  <2>2. m \in Seq(Byte) /\ Len(m) = l
    BY Messages DEF l
  <2> QED BY <1>8, <2>1, <2>2, SeqEqual
<1>13. n - 6 = DataLen(b) => Bytes(b, 4) = SubSeq(m, 1, 4)
  <2> SUFFICES ASSUME n - 6 = DataLen(b) PROVE Bytes(b, 4) = SubSeq(m, 1, 4)
    OBVIOUS
  <2>1. \A k \in 1 .. 6 : k \in 1 .. n /\ k \in 1 .. l /\ k \in 1 .. Len(r)
    BY <1>2, <1>3, <1>7
  <2>2. \A k \in 1 .. 6 : b[k - 1] = r[k] /\ (k # p => r[k] = m[k])
    BY <1>1, <1>3, <1>4, <2>1
  <2>3. p = 5 \/ p = 6
    <3>1. SUFFICES ASSUME p # 5, p # 6 PROVE FALSE
      OBVIOUS
    <3>2. b[5 - 1] = m[5] /\ b[6 - 1] = m[6]
      BY <2>2, <3>1
    <3>3. b[4] = m[5] /\ b[5] = m[6]
      BY <3>2
    <3>4. m[5] * 256 + m[6] = l - 6
      BY Messages DEF l
    <3>5. DataLen(b) = l - 6
      BY <3>3, <3>4 DEF DataLen
    <3> QED BY <1>3, <1>7, <3>5
  <2>4. \A i \in 1 .. 4 : b[i - 1] = m[i]
    BY <2>2, <2>3
  <2> QED BY <1>1, <2>4, HeaderIs
<1>14. n - 1 = l
  BY <1>3, <1>7
<1> QED BY <1>1, <1>7, <1>10, <1>11, <1>12, <1>13, <1>14 DEF r, B, l, z

(* The error codes differ.                                                 *)
LEMMA Codes ==
  /\ ERR_NONE # ERR_ASCII /\ ERR_NONE # ERR_LRC /\ ERR_NONE # ERR_INVALID_DATA
  /\ ERR_LRC # ERR_ASCII /\ ERR_LRC # ERR_INVALID_DATA
BY DEF ERR_NONE, ERR_ASCII, ERR_LRC, ERR_INVALID_DATA

(* A chunk that is an undisturbed frame is none of the errors.             *)
LEMMA FrameIsWhole ==
  ASSUME IInv, NEW chunk \in Chunks, Looked(chunk), ~spoilt
  PROVE  /\ Whole(chunk) /\ Last(sent) \in Sent /\ Last(sent) \in Message
         /\ Read(chunk) = WithLrc(Last(sent)) /\ Near(Read(chunk), WithLrc(Last(sent)))
<1>1. chunk = Frame(Last(sent)) /\ Last(sent) \in Sent
  BY LookedLine
<1>2. Last(sent) \in Message /\ Last(sent) \in Seq(Byte)
  BY <1>1, SentTyped, Messages DEF IInv
<1>3. Whole(chunk) /\ Read(chunk) = WithLrc(Last(sent))
  BY <1>1, <1>2, FrameWhole
<1>4. Near(Read(chunk), WithLrc(Last(sent)))
  <2>1. 0 \in Int
    OBVIOUS
  <2> QED BY <1>3, <2>1 DEF Near
<1> QED BY <1>1, <1>2, <1>3, <1>4

(* A chunk that does not get as far as the checksum.                       *)
LEMMA ErrorIInv ==
  ASSUME IInv, NEW chunk \in Chunks, Looked(chunk), ~Whole(chunk),
         pc' = "frame", buf' = Copied(chunk), Unassigned,
         code' \in {ERR_ASCII, ERR_INVALID_DATA}
  PROVE  IInv'
<1>1. chunk \in Seq(Byte)
  BY ChunkIs DEF IInv
<1>2. buf' \in [0 .. BufSize - 1 -> Byte]
  BY <1>1, CopiedTyped DEF IInv
<1>3. rcvlen' \in 0 .. Word + 5
  BY <1>2, UnassignedTyped
<1>4. TypeOK'
  BY <1>2, <1>3, LookedTyped
<1>5. LineGood' /\ Undisturbed' /\ ReplyReadable'
  BY LookedLine
<1>6. Accepted' /\ Refused'
  BY Codes DEF Accepted, Refused
<1>7. Delivered'
  <2>1. spoilt' = spoilt
    BY DEF Looked
  <2>2. spoilt
    BY FrameIsWhole
  <2> QED BY <2>1, <2>2 DEF Delivered
<1> QED BY <1>4, <1>5, <1>6, <1>7 DEF IInv

(* Recv_Invalid keeps the invariant.                                       *)
LEMMA RecvInvalidIInv ==
  ASSUME IInv, NEW chunk \in Chunks, Recv_Invalid(chunk)
  PROVE  IInv'
BY ErrorIInv DEF Recv_Invalid, Whole

(* Recv_Ascii keeps the invariant.                                         *)
LEMMA RecvAsciiIInv ==
  ASSUME IInv, NEW chunk \in Chunks, Recv_Ascii(chunk)
  PROVE  IInv'
BY ErrorIInv DEF Recv_Ascii, Whole

(* Recv_Empty keeps the invariant.                                         *)
LEMMA RecvEmptyIInv ==
  ASSUME IInv, NEW chunk \in Chunks, Recv_Empty(chunk)
  PROVE  IInv'
<1>0. Looked(chunk) /\ pc' = "fault" /\ buf' = Copied(chunk) /\ rcvlen' = rcvlen /\ code' = code
  BY DEF Recv_Empty
<1>1. chunk \in Seq(Byte)
  BY ChunkIs DEF IInv
<1>2. buf' \in [0 .. BufSize - 1 -> Byte]
  BY <1>0, <1>1, CopiedTyped DEF IInv
<1>3. rcvlen' \in 0 .. Word + 5 /\ code' \in {ERR_NONE, ERR_ASCII, ERR_LRC, ERR_INVALID_DATA}
  BY <1>0, SMT DEF IInv, TypeOK
<1>4. TypeOK'
  BY <1>0, <1>2, <1>3, LookedTyped
<1>5. LineGood' /\ Undisturbed' /\ ReplyReadable'
  BY <1>0, LookedLine
<1>6. Accepted' /\ Refused' /\ Delivered'
  BY <1>0 DEF Accepted, Refused, Delivered
<1> QED BY <1>4, <1>5, <1>6 DEF IInv

(* Recv_Packet keeps the invariant: with LrcTells for Accepted and         *)
(* Delivered, and with the length for Refused.                             *)
LEMMA RecvPacketIInv ==
  ASSUME IInv, NEW chunk \in Chunks, Recv_Packet(chunk)
  PROVE  IInv'
<1> DEFINE b == AsciiPacketToRtuPacket(chunk)
           n == RtuLen(chunk)
<1>0. /\ Looked(chunk) /\ Whole(chunk) /\ pc' = "frame" /\ buf' = b
      /\ \/ LrcRight(buf', n) /\ code' = ERR_NONE /\ rcvlen' = n - 1
         \/ ~LrcRight(buf', n) /\ code' = ERR_LRC /\ rcvlen' = n
  BY DEF Recv_Packet, Whole
<1>1. TypeOK /\ LineGood /\ Sent' = Sent
  BY <1>0, LookedLine DEF IInv
<1>2. /\ chunk \in Seq(Byte) /\ Len(chunk) <= BufSize
      /\ \E m \in Sent : Near(Read(chunk), WithLrc(m))
  BY <1>0, <1>1, ChunkIs, LookedLine
<1> HIDE DEF b, n
<1>3. ASSUME NEW m \in Sent, Near(Read(chunk), WithLrc(m))
      PROVE  /\ b \in [0 .. BufSize - 1 -> Byte] /\ n \in Nat \ {0} /\ n <= BufSize /\ n = Len(m) + 1
             /\ LrcRight(b, n) <=> Read(chunk) = WithLrc(m)
             /\ LrcRight(b, n) => Bytes(b, n - 1) = m
             /\ n - 6 = DataLen(b) => Bytes(b, 4) = SubSeq(m, 1, 4)
  <2>1. m \in Message
    BY <1>1, SentTyped
  <2>2. b = AsciiPacketToRtuPacket(chunk) /\ n = RtuLen(chunk)
    BY DEF b, n
  <2> QED BY <1>0, <1>1, <1>2, <1>3, <2>1, <2>2, PacketTold
<1>4. PICK m \in Sent : Near(Read(chunk), WithLrc(m))
  BY <1>2
<1>5. /\ b \in [0 .. BufSize - 1 -> Byte] /\ n \in Nat \ {0} /\ n <= BufSize /\ n = Len(m) + 1
      /\ LrcRight(b, n) => Bytes(b, n - 1) = m
      /\ n - 6 = DataLen(b) => Bytes(b, 4) = SubSeq(m, 1, 4)
  BY <1>3, <1>4
<1>6. BufSize \in Nat /\ BufSize < Word /\ Word \in Nat /\ Len(m) \in Nat
  BY <1>1, SentTyped, Messages
<1>7. rcvlen' \in 0 .. Word + 5 /\ code' \in {ERR_NONE, ERR_ASCII, ERR_LRC, ERR_INVALID_DATA}
  BY <1>0, <1>5, <1>6
<1>8. TypeOK'
  BY <1>0, <1>5, <1>7, LookedTyped
<1>9. LineGood' /\ Undisturbed' /\ ReplyReadable'
  BY <1>0, LookedLine
<1>10. Accepted'
  <2>1. SUFFICES ASSUME code' = ERR_NONE
                 PROVE  rcvlen' <= BufSize /\ \E h \in Sent : rcvlen' = Len(h) /\ Bytes(buf', rcvlen') = h
    BY <1>1 DEF Accepted
  <2>2. LrcRight(b, n) /\ rcvlen' = n - 1
    BY <1>0, <2>1, Codes
  <2>3. n - 1 = Len(m) /\ n - 1 <= BufSize
    BY <1>5, <1>6
  <2> QED BY <1>0, <1>5, <2>2, <2>3
<1>11. Refused'
  <2>1. SUFFICES ASSUME code' = ERR_LRC, rcvlen' - 6 = DataLen(buf')
                 PROVE  \E h \in Sent : Bytes(buf', 4) = SubSeq(h, 1, 4)
    BY <1>1 DEF Refused
  <2>2. rcvlen' = n
    BY <1>0, <2>1, Codes
  <2> QED BY <1>0, <1>5, <2>1, <2>2
<1>12. Delivered'
  <2>1. spoilt' = spoilt /\ sent' = sent
    BY <1>0 DEF Looked
  <2>2. SUFFICES ASSUME ~spoilt
                 PROVE  code' = ERR_NONE /\ Bytes(buf', rcvlen') = Last(sent)
    BY <2>1 DEF Delivered
  <2>3. /\ Last(sent) \in Sent
        /\ Read(chunk) = WithLrc(Last(sent)) /\ Near(Read(chunk), WithLrc(Last(sent)))
    BY <1>0, <2>2, FrameIsWhole
  <2>4. LrcRight(b, n) /\ Bytes(b, n - 1) = Last(sent)
    BY <1>3, <2>3
  <2> QED BY <1>0, <2>4
<1> QED BY <1>8, <1>9, <1>10, <1>11, <1>12 DEF IInv

(* The four outcomes of RecvData together.                                 *)
LEMMA RecvIInv == IInv /\ Recv => IInv'
BY RecvInvalidIInv, RecvAsciiIInv, RecvEmptyIInv, RecvPacketIInv DEF Recv

------------------------------------------------------------------------------
(* What any handling leaves.                                               *)
LEMMA HandledIInv ==
  ASSUME IInv, Handled, buf' \in [0 .. BufSize - 1 -> Byte], upgrading' \in BOOLEAN,
         reply' \in Seq(AsciiChars \cup {58, 13, 10}), ReplyReadable'
  PROVE  IInv'
<1>1. /\ pc' = "wait" /\ sent' = sent /\ spoilt' = spoilt /\ damage' = damage /\ line' = line
      /\ rcvlen' = rcvlen /\ code' = code
  BY DEF Handled
<1>2. TypeOK'
  <2>1. /\ sent' \in Seq(Message) /\ damage' \in 0 .. MaxDamage
        /\ line' \in Seq(Byte) /\ Len(line') <= BufSize /\ rcvlen' \in 0 .. Word + 5
        /\ code' \in {ERR_NONE, ERR_ASCII, ERR_LRC, ERR_INVALID_DATA}
    BY <1>1, SMT DEF IInv, TypeOK
  <2>2. spoilt \in BOOLEAN
    BY SMT DEF IInv, TypeOK
  <2>3. spoilt' \in BOOLEAN
    BY <1>1, <2>2, Zenon
  <2> QED BY <1>1, <2>1, <2>3, SMT DEF TypeOK
<1>3. LineGood' /\ Undisturbed'
  BY <1>1 DEF IInv, LineGood, Undisturbed, Sent
<1>4. Accepted' /\ Refused' /\ Delivered'
  BY <1>1 DEF Accepted, Refused, Delivered
<1> QED BY <1>2, <1>3, <1>4 DEF IInv

(* Ignore keeps the invariant.                                             *)
LEMMA IgnoreIInv == IInv /\ Ignore => IInv'
<1> SUFFICES ASSUME IInv, Ignore PROVE IInv'
  OBVIOUS
<1>1. Handled /\ buf' = buf /\ upgrading' = upgrading /\ reply' = reply
  BY DEF Ignore
<1>2. ReplyReadable'
  BY <1>1 DEF IInv, ReplyReadable, Handled
<1>3. /\ buf' \in [0 .. BufSize - 1 -> Byte]
      /\ reply' \in Seq(AsciiChars \cup {58, 13, 10})
  BY <1>1, SMT DEF IInv, TypeOK
<1>4. upgrading \in BOOLEAN
  BY SMT DEF IInv, TypeOK
<1>5. upgrading' \in BOOLEAN
  BY <1>1, <1>4, Zenon
<1> QED BY <1>1, <1>2, <1>3, <1>5, HandledIInv

(* The results of a reply.                                                 *)
LEMMA Results ==
  RESPONSE_ERR_NONE \in 0 .. 2 /\ RESPONSE_REC_ERR \in 0 .. 2 /\ RESPONSE_LRC_ERR \in 0 .. 2
BY DEF RESPONSE_ERR_NONE, RESPONSE_REC_ERR, RESPONSE_LRC_ERR

(* A reply to a packet.                                                    *)
LEMMA Replied ==
  ASSUME IInv, Handled, Passes, pc = "frame",
         NEW result \in {RESPONSE_ERR_NONE, RESPONSE_REC_ERR, RESPONSE_LRC_ERR}, Reply(result)
  PROVE  reply' \in Seq(AsciiChars \cup {58, 13, 10}) /\ ReplyReadable'
<1>1. /\ code' = code /\ sent' = sent
  BY DEF Handled
<1> DEFINE a == Bytes(buf, 4) \o <<0, 1, result>>
<1>2. reply' = Frame(a) /\ Frame(a) \in Seq(AsciiChars \cup {58, 13, 10})
  BY ReplyIs, Results DEF Reply, IInv
<1>3. ASSUME code \in {ERR_NONE, ERR_LRC}
      PROVE  \E m \in Sent : Bytes(buf, 4) = SubSeq(m, 1, 4)
  <2>1. CASE code = ERR_NONE
    <3>1. PICK m \in Sent : rcvlen <= BufSize /\ rcvlen = Len(m) /\ Bytes(buf, rcvlen) = m
      BY <2>1 DEF IInv, Accepted
    <3>2. m \in Message /\ Len(m) \in Nat /\ Len(m) >= 6 /\ buf \in [0 .. BufSize - 1 -> Byte]
      BY SentTyped, Messages DEF IInv, TypeOK
    <3>3. \A i \in 1 .. rcvlen : Bytes(buf, rcvlen)[i] = buf[i - 1]
      BY <3>1, <3>2, FrontBytes
    <3>4. \A i \in 1 .. 4 : buf[i - 1] = m[i]
      BY <3>1, <3>2, <3>3
    <3>5. Bytes(buf, 4) = SubSeq(m, 1, 4)
      BY <3>2, <3>4, HeaderIs
    <3> QED BY <3>5
  <2>2. CASE code = ERR_LRC
    BY <2>2 DEF IInv, Refused, Passes
  <2> QED BY <1>3, <2>1, <2>2
<1> HIDE DEF a
<1>4. ReplyReadable'
  <2>1. SUFFICES ASSUME code \in {ERR_NONE, ERR_LRC}
        PROVE \E q \in {RESPONSE_ERR_NONE, RESPONSE_REC_ERR, RESPONSE_LRC_ERR}, m \in ToSet(sent) :
                reply' = Frame(SubSeq(m, 1, 4) \o <<0, 1, q>>)
    BY <1>1 DEF ReplyReadable
  <2>2. PICK m \in ToSet(sent) : Bytes(buf, 4) = SubSeq(m, 1, 4)
    BY <1>3, <2>1 DEF Sent
  <2>3. reply' = Frame(SubSeq(m, 1, 4) \o <<0, 1, result>>)
    BY <1>2, <2>2 DEF a
  <2> QED BY <2>3, Zenon
<1> QED BY <1>2, <1>4

(* Refuse keeps the invariant.                                             *)
LEMMA RefuseIInv == IInv /\ Refuse => IInv'
<1> SUFFICES ASSUME IInv, Refuse PROVE IInv'
  OBVIOUS
<1>1. Handled /\ Passes /\ pc = "frame" /\ Reply(RESPONSE_LRC_ERR) /\ buf' = buf /\ upgrading' = upgrading
  BY DEF Refuse, Handled
<1>2. reply' \in Seq(AsciiChars \cup {58, 13, 10}) /\ ReplyReadable'
  BY <1>1, Replied
<1>3. buf' \in [0 .. BufSize - 1 -> Byte]
  BY <1>1, SMT DEF IInv, TypeOK
<1>4. upgrading \in BOOLEAN
  BY SMT DEF IInv, TypeOK
<1>5. upgrading' \in BOOLEAN
  BY <1>1, <1>4, Zenon
<1> QED BY <1>1, <1>2, <1>3, <1>5, HandledIInv

(* The exclusive or of two bytes is one.                                   *)
LEMMA XorIsByte ==
  ASSUME NEW a \in Byte, NEW b \in Byte
  PROVE  Xor(a, b) \in Byte
<1> DEFINE bit(p) == (a \div p + b \div p) % 2
<1>1. \A p \in {1, 2, 4, 8, 16, 32, 64, 128} : bit(p) \in {0, 1}
  <2>1. \A x, y \in Int : (x + y) % 2 \in {0, 1}
    BY SMT
  <2>2. \A p \in {1, 2, 4, 8, 16, 32, 64, 128} : a \div p \in Int /\ b \div p \in Int
    BY DEF Byte
  <2> QED BY <2>1, <2>2
<1>2. Xor(a, b) = 1 * bit(1) + 2 * bit(2) + 4 * bit(4) + 8 * bit(8)
                    + 16 * bit(16) + 32 * bit(32) + 64 * bit(64) + 128 * bit(128)
  BY DEF Xor
<1> HIDE DEF bit
<1>3. /\ bit(1) \in {0, 1} /\ bit(2) \in {0, 1} /\ bit(4) \in {0, 1} /\ bit(8) \in {0, 1}
      /\ bit(16) \in {0, 1} /\ bit(32) \in {0, 1} /\ bit(64) \in {0, 1} /\ bit(128) \in {0, 1}
  BY <1>1
<1> QED BY <1>2, <1>3, SMT DEF Byte

(* The data of a packet, decoded and moved, are bytes.                     *)
LEMMA UnpackedTyped ==
  ASSUME IInv, pc = "frame", Passes, code = ERR_NONE
  PROVE  Unpacked \in [0 .. BufSize - 1 -> Byte]
<1> DEFINE d == DataLen(buf)
           e == Len(encryptionString)
<1>1. BufSize \in Nat /\ buf \in [0 .. BufSize - 1 -> Byte] /\ DOMAIN buf = 0 .. BufSize - 1
  BY Messages DEF IInv, TypeOK
<1>2. d \in Nat /\ rcvlen = d + 6 /\ rcvlen <= BufSize
  <2>1. rcvlen - 6 = d /\ rcvlen <= BufSize /\ rcvlen \in 0 .. Word + 5
    BY DEF IInv, TypeOK, Accepted, Passes
  <2>2. d \in Nat /\ Word \in Nat
    BY <1>1, DataLenTyped, Messages
  <2> QED BY <1>1, <2>1, <2>2
<1>3. encryptionString \in Seq(Byte) /\ e \in Nat \ {0}
  BY AsciiLineAssumption, EmptySeq
<1>4. ASSUME NEW i \in Nat, i < d - 4
      PROVE  Decoded(i) \in Byte
  <2>1. buf[10 + i] \in Byte
    <3>1. 10 + i \in 0 .. BufSize - 1
      BY <1>1, <1>2, <1>4
    <3> QED BY <1>1, <3>1
  <2> DEFINE x == encryptionString[1 + (i % e)]
             y == (x + 11) % 256
  <2>2. x \in Byte
    <3>1. i % e \in 0 .. e - 1
      BY <1>3
    <3>2. 1 + (i % e) \in 1 .. e
      BY <1>3, <3>1
    <3> QED BY <1>3, <3>2
  <2>3. Decoded(i) = Xor(buf[10 + i], y)
    BY DEF Decoded
  <2> HIDE DEF x
  <2>4. y \in Byte
    BY <2>2, SMT DEF Byte
  <2> HIDE DEF y
  <2> QED BY <2>1, <2>3, <2>4, XorIsByte
<1>5. ASSUME NEW i \in 0 .. BufSize - 1
      PROVE  (IF i < d - 4 THEN Decoded(i)
              ELSE IF i - 10 \in 0 .. d - 5 THEN Decoded(i - 10)
              ELSE buf[i]) \in Byte
  <2>1. CASE i < d - 4
    <3>1. i \in Nat
      BY <1>1
    <3> QED BY <1>4, <2>1, <3>1
  <2>2. CASE ~(i < d - 4) /\ i - 10 \in 0 .. d - 5
    <3> DEFINE k == i - 10
    <3>1. k \in Nat /\ k < d - 4
      BY <1>1, <1>2, <2>2
    <3> HIDE DEF k
    <3>2. Decoded(k) \in Byte
      BY <1>4, <3>1
    <3> QED BY <2>2, <3>2 DEF k
  <2>3. CASE ~(i < d - 4) /\ ~(i - 10 \in 0 .. d - 5)
    BY <1>1, <2>3
  <2> QED BY <2>1, <2>2, <2>3
<1>6. Unpacked = [i \in 0 .. BufSize - 1 |->
                    IF i < d - 4 THEN Decoded(i)
                    ELSE IF i - 10 \in 0 .. d - 5 THEN Decoded(i - 10)
                    ELSE buf[i]]
  BY <1>1 DEF Unpacked
<1> HIDE DEF d
<1> QED BY <1>5, <1>6

(* Execute keeps the invariant.                                            *)
LEMMA ExecuteIInv == IInv /\ Execute => IInv'
<1> SUFFICES ASSUME IInv, Execute PROVE IInv'
  OBVIOUS
<1>1. Handled /\ Passes /\ pc = "frame" /\ code = ERR_NONE
  BY DEF Execute, Handled
<1>2. PICK result \in {RESPONSE_ERR_NONE, RESPONSE_REC_ERR} : Reply(result)
  BY DEF Execute
<1>3. reply' \in Seq(AsciiChars \cup {58, 13, 10}) /\ ReplyReadable'
  <2>1. result \in {RESPONSE_ERR_NONE, RESPONSE_REC_ERR, RESPONSE_LRC_ERR}
    OBVIOUS
  <2> QED BY <1>1, <1>2, <2>1, Replied
<1>4. buf' \in [0 .. BufSize - 1 -> Byte]
  <2>1. buf' = buf \/ buf' = Unpacked
    BY DEF Execute
  <2>2. buf \in [0 .. BufSize - 1 -> Byte]
    BY SMT DEF IInv, TypeOK
  <2> QED BY <1>1, <2>1, <2>2, UnpackedTyped
<1>5. upgrading' \in BOOLEAN
  <2>1. upgrading' = (upgrading \/ MsgId(buf) = 1)
    BY DEF Execute
  <2> QED BY <2>1, Zenon
<1> QED BY <1>1, <1>3, <1>4, <1>5, HandledIInv

(* PowerCycle keeps the invariant.                                         *)
LEMMA PowerCycleIInv == IInv /\ PowerCycle => IInv'
<1> SUFFICES ASSUME IInv, PowerCycle PROVE IInv'
  OBVIOUS
<1>1. /\ pc' = "wait" /\ line' = <<>> /\ buf' = [i \in DOMAIN buf |-> 0]
      /\ rcvlen' = 0 /\ code' = ERR_NONE /\ upgrading' \in BOOLEAN /\ reply' = <<>>
      /\ sent' = sent /\ spoilt' = spoilt /\ damage' = damage
  BY DEF PowerCycle
<1>2. TypeOK'
  <2>1. sent' \in Seq(Message) /\ damage' \in 0 .. MaxDamage /\ DOMAIN buf = 0 .. BufSize - 1
    BY <1>1, SMT DEF IInv, TypeOK
  <2>2. spoilt \in BOOLEAN
    BY SMT DEF IInv, TypeOK
  <2>3. spoilt' \in BOOLEAN
    BY <1>1, <2>2, Zenon
  <2>4. buf' \in [0 .. BufSize - 1 -> Byte]
    BY <1>1, <2>1 DEF Byte
  <2>5. /\ line' \in Seq(Byte) /\ Len(line') = 0
        /\ reply' \in Seq(AsciiChars \cup {58, 13, 10})
    BY <1>1, EmptySeq
  <2>6. 0 <= BufSize /\ rcvlen' \in 0 .. Word + 5
    BY <1>1, Messages
  <2> QED BY <1>1, <2>1, <2>3, <2>4, <2>5, <2>6, SMT DEF TypeOK
<1>3. LineGood'
  <2>1. line' = <<>> /\ Len(line') = 0
    BY <1>1
  <2>2. \A p, q \in Int : ~Segment(line', p, q)
    BY <2>1 DEF Segment
  <2> QED BY <2>1, <2>2 DEF LineGood, Good
<1>4. Undisturbed' /\ Accepted' /\ Refused' /\ Delivered' /\ ReplyReadable'
  BY <1>1 DEF Undisturbed, Accepted, Refused, Delivered, ReplyReadable
<1> QED BY <1>2, <1>3, <1>4 DEF IInv

(* A step that changes nothing keeps the invariant.                        *)
LEMMA StutterIInv == IInv /\ UNCHANGED vars => IInv'
<1> SUFFICES ASSUME IInv, UNCHANGED vars PROVE IInv'
  OBVIOUS
<1>1. /\ sent' = sent /\ spoilt' = spoilt /\ damage' = damage /\ line' = line /\ pc' = pc
      /\ buf' = buf /\ rcvlen' = rcvlen /\ code' = code /\ upgrading' = upgrading /\ reply' = reply
  BY DEF vars
<1>2. TypeOK'
  <2>1. /\ sent' \in Seq(Message) /\ damage' \in 0 .. MaxDamage
        /\ line' \in Seq(Byte) /\ Len(line') <= BufSize /\ rcvlen' \in 0 .. Word + 5
        /\ pc' \in {"wait", "frame", "fault"} /\ buf' \in [0 .. BufSize - 1 -> Byte]
        /\ code' \in {ERR_NONE, ERR_ASCII, ERR_LRC, ERR_INVALID_DATA}
        /\ reply' \in Seq(AsciiChars \cup {58, 13, 10})
    BY <1>1, SMT DEF IInv, TypeOK
  <2>2. spoilt \in BOOLEAN /\ upgrading \in BOOLEAN
    BY SMT DEF IInv, TypeOK
  <2>3. spoilt' \in BOOLEAN /\ upgrading' \in BOOLEAN
    BY <1>1, <2>2, Zenon
  <2> QED BY <1>1, <2>1, <2>3, SMT DEF TypeOK
<1>3. LineGood' /\ Undisturbed'
  BY <1>1 DEF IInv, LineGood, Undisturbed, Sent
<1>4. Accepted'
  BY <1>1 DEF IInv, Accepted, Sent
<1>5. Refused'
  BY <1>1 DEF IInv, Refused, Sent
<1>6. Delivered' /\ ReplyReadable'
  BY <1>1 DEF IInv, Delivered, ReplyReadable
<1> QED BY <1>2, <1>3, <1>4, <1>5, <1>6 DEF IInv

(* Every step keeps the invariant.                                         *)
LEMMA StepIInv == IInv /\ [Next]_vars => IInv'
BY HostSendIInv, RecvIInv, IgnoreIInv, RefuseIInv, ExecuteIInv, PowerCycleIInv, StutterIInv
   DEF Next, Handle

(* All reachable states have the invariant.                                *)
LEMMA Invariant == Spec => []IInv
BY InitIInv, StepIInv, PTL DEF Spec

(* RX_buf, the line and the reply hold bytes and characters of the format  *)
(* in all reachable states, and the indices HandleFrameInformation         *)
(* computes from a received length stay within RX_buf (menu_uart.c).       *)
THEOREM AsciiLineTypeOK == Spec => []TypeOK
<1>1. IInv => TypeOK
  BY DEF IInv
<1> QED BY <1>1, Invariant, PTL

(* A frame that nothing disturbed reaches the handler as it was sent: no   *)
(* error, its length and every byte, whatever lay in RX_buf before         *)
(* (MODBUS_ASCII_RecvData).                                                *)
THEOREM FrameDelivered == Spec => []Delivered
<1>1. IInv => Delivered
  BY DEF IInv
<1> QED BY <1>1, Invariant, PTL

(* Whatever becomes of frames of which a character was changed, lost or    *)
(* added, cut in two or joined: what passes the checksum is a message the  *)
(* host sent (MODBUS_ASCII_RecvData, MODBUS_ASCII_GetLrc). The number of   *)
(* disturbances is not bounded, one of them at most being in a frame.      *)
THEOREM FrameNeverMisread == Spec => []NeverMisread
<1>1. IInv => NeverMisread
  BY DEF IInv, Accepted, NeverMisread, Sent
<1> QED BY <1>1, Invariant, PTL

(* Every reply to a packet, to a disturbed one included, is a frame of the *)
(* format that names a message the host sent (HandleFrameInformation,      *)
(* MODBUS_ASCII_SendData).                                                 *)
THEOREM ReplyIsReadable == Spec => []ReplyReadable
<1>1. IInv => ReplyReadable
  BY DEF IInv
<1> QED BY <1>1, Invariant, PTL
===============================================================================
