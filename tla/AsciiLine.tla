------------------------------ MODULE AsciiLine -------------------------------
(***************************************************************************)
(* A host's messages on their way into the bootloader's command handler:   *)
(* the frame on a line that may disturb it, MODBUS_ASCII_RecvData          *)
(* (modbus_ascii.c), the checks at the front of HandleFrameInformation and *)
(* its reply (menu_uart.c).  Bootloader has what the messages do; here a   *)
(* message that passes is executed, with either outcome.                   *)
(*                                                                         *)
(* The LF at the end of a frame raises the character-match interrupt, and  *)
(* what came since the LF before is the chunk that is looked at (UartRx).  *)
(* RecvData decodes it in place, in the one buffer RX_buf, which keeps     *)
(* what a shorter chunk does not overwrite.  The host waits for a reply    *)
(* or its time to pass before it sends again.                              *)
(***************************************************************************)
EXTENDS AsciiCodec

CONSTANTS
  Message,          \* messages the host sends, as sequences of bytes
  Device_Addr,      \* the device's address
  encryptionString, \* the key of the packets' data, repeated
  Noise,            \* characters a disturbed line may carry
  MaxDamage,        \* bound: disturbances, at most one of them in a frame
  BufSize           \* bound: bytes of RX_buf, and of what is on the line

Word == 256 * 256    \* values of a uint16_t

(* A message: address, function 0x41, number, length of the data, data.    *)
(* Message 3 has a packet count and a packet number in front of its data;  *)
(* message 4 ends the waiting for others and is in Bootloader alone.       *)
(* RX_buf has place for a message's frame; lengths in it are uint16_t.     *)
ASSUME AsciiLineAssumption ==
  /\ Message # {}
  /\ \A m \in Message :
       /\ m \in Seq(Byte) /\ Len(m) >= 6
       /\ m[2] = 65 /\ m[3] * 256 + m[4] \in 1 .. 3
       /\ m[5] * 256 + m[6] = Len(m) - 6
       /\ m[4] = 3 => Len(m) >= 10
       /\ 2 * Len(m) + 5 <= BufSize
  /\ Device_Addr \in Byte \ {0}
  /\ encryptionString \in Seq(Byte) /\ encryptionString # <<>>
  /\ Noise \subseteq 0 .. 255
  /\ MaxDamage \in Nat /\ BufSize \in 0 .. Word - 1

ERR_NONE         == 0
ERR_ASCII        == 1
ERR_LRC          == 2
ERR_INVALID_DATA == 3

RESPONSE_ERR_NONE == 0
RESPONSE_REC_ERR  == 1
RESPONSE_LRC_ERR  == 2

VARIABLES
  sent,       \* the messages the host sent since the line was last empty
  spoilt,     \* the last was disturbed, or came behind the rest of another
  damage,     \* disturbances so far
  line,       \* characters received and not looked at yet
  pc,         \* "wait", "frame" between RecvData and the checks, or "fault"
  buf,        \* RX_buf
  rcvlen,     \* HandleFrameInformation's local variable
  code,       \* fmerror
  upgrading,  \* UpgradeWaitTime = -1
  reply       \* the reply to the last frame, or nothing

vars == <<sent, spoilt, damage, line, pc, buf, rcvlen, code, upgrading, reply>>

------------------------------------------------------------------------------
(* The host and the line.  The host's side of the format is written from   *)
(* the format, not from the device's operators.                            *)
Digits == <<48, 49, 50, 51, 52, 53, 54, 55, 56, 57, 65, 66, 67, 68, 69, 70>>

Lrc(m) ==
  LET sum == FoldLeft(LAMBDA x, y : x + y, 0, m)
  IN  CHOOSE b \in Byte : (b + sum) % 256 = 0

Frame(m) ==
  LET bytes == Append(m, Lrc(m))
  IN  <<58>>
      \o [i \in 1 .. 2 * Len(bytes) |->
            LET b == bytes[(i + 1) \div 2]
            IN  Digits[1 + (IF i % 2 = 1 THEN b \div 16 ELSE b % 16)]]
      \o <<13, 10>>

(* A character read as another, not read, or one that was not sent.        *)
Changed(f)  == {ReplaceAt(f, i, c) : i \in 1 .. Len(f), c \in Noise} \ {f}
Lost(f)     == {RemoveAt(f, i) : i \in 1 .. Len(f)}
Inserted(f) == {InsertAt(f, i, c) : i \in 1 .. Len(f), c \in Noise}

Disturbed(f) == Changed(f) \cup Lost(f) \cup Inserted(f)

LineEnds == {i \in 1 .. Len(line) : line[i] = ASCII_TAIL_SECOND_DATA}

HostSend ==
  /\ pc = "wait" /\ LineEnds = {}
  /\ \E m \in Message :
       /\ sent' = IF line = <<>> THEN <<m>> ELSE Append(sent, m)
       /\ \/ /\ line' = line \o Frame(m)
             /\ spoilt' = (line # <<>>)
             /\ UNCHANGED damage
          \/ /\ damage < MaxDamage /\ damage' = damage + 1
             /\ \E f \in Disturbed(Frame(m)) : line' = line \o f
             /\ spoilt' = TRUE
  /\ Len(line') <= BufSize
  /\ reply' = <<>>
  /\ UNCHANGED <<pc, buf, rcvlen, code, upgrading>>

------------------------------------------------------------------------------
(* MODBUS_ASCII_RecvData                                                   *)

(* What GetReceData finds: up to the first LF that was not looked at.      *)
Chunks == {SubSeq(line, 1, i) : i \in {i \in LineEnds : \A j \in LineEnds : i <= j}}

(* Sensor_USART_GetReceData copies the chunk over the front of RX_buf.     *)
Copied(chunk) == [i \in DOMAIN buf |-> IF i < Len(chunk) THEN chunk[i + 1] ELSE buf[i]]

WellFramed(chunk) ==
  /\ Len(chunk) - 2 > 0
  /\ chunk[1] = ASCII_HEAD_DATA
  /\ chunk[Len(chunk) - 1] = ASCII_TAIL_FIRST_DATA

Body(chunk) == SubSeq(chunk, 2, Len(chunk) - 2)

(* The packet's length in bytes, or 0 where the characters are odd.        *)
RtuLen(chunk) ==
  LET n == Len(chunk) - 3
  IN  IF n % 2 = 1 THEN 0 ELSE n \div 2

(* The bytes are written over the characters, behind those still to read.  *)
AsciiPacketToRtuPacket(chunk) ==
  [i \in DOMAIN buf |->
     IF i < RtuLen(chunk) THEN AsciiToHex(chunk[2 * i + 2], chunk[2 * i + 3])
     ELSE IF i < Len(chunk) THEN chunk[i + 1]
     ELSE buf[i]]

Bytes(b, n) == [i \in 1 .. n |-> b[i - 1]]

MsgId(b)   == b[2] * 256 + b[3]
DataLen(b) == b[4] * 256 + b[5]

Looked(chunk) ==
  /\ pc = "wait"
  /\ line' = SubSeq(line, Len(chunk) + 1, Len(line))
  /\ reply' = <<>>
  /\ UNCHANGED <<sent, spoilt, damage, upgrading>>

(* On these errors rcvlen is not assigned: what the stack holds there fits *)
(* the data length or does not.                                            *)
Unassigned == rcvlen' \in {0, DataLen(buf') + 6}

Recv_Invalid(chunk) ==
  /\ Looked(chunk) /\ ~WellFramed(chunk)
  /\ pc' = "frame" /\ code' = ERR_INVALID_DATA
  /\ buf' = Copied(chunk)
  /\ Unassigned

Recv_Ascii(chunk) ==
  /\ Looked(chunk) /\ WellFramed(chunk) /\ ~CheckAscii(Body(chunk))
  /\ pc' = "frame" /\ code' = ERR_ASCII
  /\ buf' = Copied(chunk)
  /\ Unassigned

(* An empty packet has its checksum computed over 65535 bytes, (uint16_t)  *)
(* (0 - 1), far past the end of RAM: the processor ends in HardFault.      *)
Recv_Empty(chunk) ==
  /\ Looked(chunk) /\ WellFramed(chunk) /\ CheckAscii(Body(chunk)) /\ RtuLen(chunk) = 0
  /\ pc' = "fault"
  /\ buf' = Copied(chunk)
  /\ UNCHANGED <<rcvlen, code>>

(* The length loses the checksum's byte only when the checksum is right.   *)
LrcRight_Unchecked(b, n) == TRUE     \* mutant: not compared
LrcRight(b, n) == GetLrc(Bytes(b, n - 1)) = b[n - 1]

Recv_Packet(chunk) ==
  /\ Looked(chunk) /\ WellFramed(chunk) /\ CheckAscii(Body(chunk)) /\ RtuLen(chunk) > 0
  /\ pc' = "frame"
  /\ buf' = AsciiPacketToRtuPacket(chunk)
  /\ \/ LrcRight(buf', RtuLen(chunk)) /\ code' = ERR_NONE /\ rcvlen' = RtuLen(chunk) - 1
     \/ ~LrcRight(buf', RtuLen(chunk)) /\ code' = ERR_LRC /\ rcvlen' = RtuLen(chunk)

------------------------------------------------------------------------------
(* HandleFrameInformation                                                  *)

Passes ==
  /\ buf[1] = 65
  /\ buf[0] # 0 /\ buf[0] = Device_Addr
  /\ rcvlen - 6 = DataLen(buf)
  /\ upgrading \/ MsgId(buf) \in {1, 4}

Handled ==
  /\ pc = "frame" /\ pc' = "wait"
  /\ UNCHANGED <<sent, spoilt, damage, line, rcvlen, code>>

Reply(result) == reply' = SendData(Bytes(buf, 4) \o <<0, 1, result>>)

Ignore ==
  /\ Handled /\ ~Passes
  /\ UNCHANGED <<buf, upgrading, reply>>

Refuse ==
  /\ Handled /\ Passes /\ code # ERR_NONE
  /\ Reply(RESPONSE_LRC_ERR)
  /\ UNCHANGED <<buf, upgrading>>

(* The bits of two bytes, at the places of the powers of two, differ where *)
(* their sum is odd.                                                       *)
Xor(a, b) ==
  LET differ(p) == p * ((a \div p + b \div p) % 2)
  IN  differ(1) + differ(2) + differ(4) + differ(8)
        + differ(16) + differ(32) + differ(64) + differ(128)

(* Decoding, and the move of a packet's data to the front of RX_buf, from  *)
(* where it is programmed.                                                 *)
Decoded(i) == Xor(buf[10 + i], (encryptionString[1 + (i % Len(encryptionString))] + 11) % 256)

Unpacked ==
  [i \in DOMAIN buf |->
     IF i < DataLen(buf) - 4 THEN Decoded(i)
     ELSE IF i - 10 \in 0 .. DataLen(buf) - 5 THEN Decoded(i - 10)
     ELSE buf[i]]

Execute ==
  /\ Handled /\ Passes /\ code = ERR_NONE
  /\ upgrading' = (upgrading \/ MsgId(buf) = 1)
  /\ \E result \in {RESPONSE_ERR_NONE, RESPONSE_REC_ERR} : Reply(result)
  /\ \/ UNCHANGED buf
     \/ MsgId(buf) = 3 /\ buf' = Unpacked

(* HardFault_Handler loops; only a new start gets the device out of it.    *)
PowerCycle ==
  /\ pc = "fault"
  /\ pc' = "wait"
  /\ line' = <<>>
  /\ buf' = [i \in DOMAIN buf |-> 0]
  /\ rcvlen' = 0 /\ code' = ERR_NONE
  /\ upgrading' \in BOOLEAN
  /\ reply' = <<>>
  /\ UNCHANGED <<sent, spoilt, damage>>

------------------------------------------------------------------------------
Init ==
  /\ sent = <<>> /\ spoilt = FALSE /\ damage = 0
  /\ line = <<>>
  /\ pc = "wait"
  /\ buf = [i \in 0 .. BufSize - 1 |-> 0]
  /\ rcvlen = 0 /\ code = ERR_NONE
  /\ upgrading \in BOOLEAN
  /\ reply = <<>>

Recv ==
  \E chunk \in Chunks :
    Recv_Invalid(chunk) \/ Recv_Ascii(chunk) \/ Recv_Empty(chunk) \/ Recv_Packet(chunk)

Handle == Ignore \/ Refuse \/ Execute

Next == HostSend \/ Recv \/ Handle \/ PowerCycle

Spec == Init /\ [][Next]_vars

------------------------------------------------------------------------------
(* What is sent in reply are characters of the format, and RX_buf holds    *)
(* bytes whatever came.                                                    *)
TypeOK ==
  /\ sent \in Seq(Message) /\ spoilt \in BOOLEAN /\ damage \in 0 .. MaxDamage
  /\ line \in Seq(Byte) /\ Len(line) <= BufSize
  /\ pc \in {"wait", "frame", "fault"}
  /\ buf \in [0 .. BufSize - 1 -> Byte]
  /\ rcvlen \in 0 .. Word + 5
  /\ code \in {ERR_NONE, ERR_ASCII, ERR_LRC, ERR_INVALID_DATA}
  /\ upgrading \in BOOLEAN
  /\ reply \in Seq(AsciiChars \cup {58, 13, 10})

(* A frame that nothing disturbed reaches the handler as it was sent: its  *)
(* length, its checksum and every byte, whatever lay in RX_buf before and  *)
(* whatever was disturbed before it.                                       *)
Delivered ==
  pc = "frame" /\ ~spoilt => code = ERR_NONE /\ Bytes(buf, rcvlen) = Last(sent)

(* A frame of which one character was changed, lost or added, that was cut *)
(* in two by a false LF or joined to the next for want of one, is never    *)
(* taken for another message than the host sent: the one before comes late *)
(* at worst, when the next one's first character is read as its LF.        *)
NeverMisread ==
  pc = "frame" /\ code = ERR_NONE => Bytes(buf, rcvlen) \in ToSet(sent)

(* Every reply to a packet, a refusal of a disturbed one included, is a    *)
(* frame in the format that names a message the host sent.                 *)
ReplyReadable ==
  reply # <<>> /\ code \in {ERR_NONE, ERR_LRC} =>
    \E result \in {RESPONSE_ERR_NONE, RESPONSE_REC_ERR, RESPONSE_LRC_ERR}, m \in ToSet(sent) :
      reply = Frame(SubSeq(m, 1, 4) \o <<0, 1, result>>)

(* The results listed over RecvData (modbus_ascii.c:214-218), and over its *)
(* conversion (:124-126), whose error is 0: whatever was received, it      *)
(* returns one of them.                                                    *)
Returns == pc # "fault"
===============================================================================
