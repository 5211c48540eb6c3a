----------------------------- MODULE MCAsciiLine ------------------------------
(* Instances of AsciiLine for TLC.  MCMessage: message 1 and a packet of   *)
(* message 3 for this device, and a message 2 for another one.  The packet *)
(* has bytes whose characters read as the address and the function, where  *)
(* a frame is cut in two.  MCShort: messages 1 and 2 for this device, both *)
(* without data.                                                           *)
EXTENDS AsciiLine

MCMessage == {<<65, 65, 0, 1, 0, 2, 0, 3>>,
              <<65, 65, 0, 3, 0, 6, 0, 3, 0, 1, 170, 255>>,
              <<193, 65, 0, 2, 0, 0>>}

MCShort == {<<65, 65, 0, 1, 0, 0>>, <<65, 65, 0, 2, 0, 0>>}

(* The characters that end a frame and begin one, the first and last       *)
(* hexadecimal ones and what lies beside them, and one that makes a length *)
(* one greater.                                                            *)
MCNoise == {10, 13, 58, 47, 48, 49, 51, 57, 65, 70, 71, 96, 97, 102, 103, 255}

MCFewNoise == {10, 13, 49, 58}

MCKey == <<83, 104>>
===============================================================================
