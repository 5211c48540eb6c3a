------------------------------ MODULE MCModbusTx ------------------------------
(* Small instances of ModbusTx.                                            *)
EXTENDS ModbusTx

(* Every command to this device, the broadcasts that are answered or acted *)
(* on in a way of their own, and a request to another device.              *)
AllRequests ==
  [bc : {FALSE}, do : {"none", "thaw", "freeze", "reinit", "reset"}]
    \cup [bc : {TRUE}, do : {"none", "reset", "read_addr"}] \cup {Foreign}

(* For liveness without the broadcasts that are not answered: what they do *)
(* is what the others here do, with the answer dropped.                    *)
SomeRequests ==
  [bc : {FALSE}, do : {"none", "thaw", "freeze", "reinit", "reset"}]
    \cup [bc : {TRUE}, do : {"read_addr"}]
==============================================================================
