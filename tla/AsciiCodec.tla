------------------------------ MODULE AsciiCodec ------------------------------
(***************************************************************************)
(* The operators of the bootloader's line codec (modbus_ascii.c): a byte   *)
(* travels as two hexadecimal characters, a message with a checksum (LRC)  *)
(* that brings the sum of its bytes to zero.  Characters are ASCII codes.  *)
(***************************************************************************)
EXTENDS Integers, Sequences, SequencesExt

Byte == 0 .. 255

ASCII_HEAD_DATA        == 58    \* ':'
ASCII_TAIL_FIRST_DATA  == 13    \* CR
ASCII_TAIL_SECOND_DATA == 10    \* LF

HexChar_NoLetters(d) == d + 48    \* mutant
HexChar(d) == IF d < 10 THEN d + 48 ELSE d - 10 + 65

HexToAscii(b) == <<HexChar(b \div 16), HexChar(b % 16)>>

(* Both cases are understood; what is no hexadecimal character has a value *)
(* too, which only CheckAscii keeps out.                                   *)
HexValue_LowerOnly(c) == IF c < 65 THEN c - 48 ELSE c - 97 + 10    \* mutant
HexValue(c) ==
  IF c < 65 THEN c - 48
  ELSE IF c < 97 THEN c - 65 + 10
  ELSE c - 97 + 10

AsciiToHex(high, low) == (HexValue(high) * 16 + HexValue(low)) % 256

AsciiChars == 48 .. 57 \cup 65 .. 70 \cup 97 .. 102

CheckAscii(chars) == \A i \in 1 .. Len(chars) : chars[i] \in AsciiChars

(* Mutant: the last byte is left out.                                      *)
GetLrc_SkipsLast(bytes) == (-FoldLeft(LAMBDA s, b : s + b, 0, Front(bytes))) % 256
GetLrc(bytes)           == (-FoldLeft(LAMBDA s, b : s + b, 0, bytes)) % 256

RtuPacketToAsciiPacket(bytes) == FoldLeft(LAMBDA s, b : s \o HexToAscii(b), <<>>, bytes)

(* MODBUS_ASCII_SendData, without its wait for the transmitter.  The       *)
(* bootloader's replies have seven bytes, far below its limit.             *)
SendData(bytes) ==
  <<ASCII_HEAD_DATA>> \o RtuPacketToAsciiPacket(bytes) \o HexToAscii(GetLrc(bytes))
    \o <<ASCII_TAIL_FIRST_DATA, ASCII_TAIL_SECOND_DATA>>
===============================================================================
