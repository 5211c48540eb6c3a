---------------------------- MODULE MCParamStore ----------------------------
(* Small instances of ParamStore: two basic addresses (initialised mark and *)
(* device address), two calibration addresses, the written mark.  The       *)
(* second calibration address is CAPADMAX, whose factory value is 0xFFFF.   *)
EXTENDS ParamStore

CONSTANTS ff, z, d, aa, one

MCDefault == [i \in 0 .. 4 |->
                CASE i = 0 -> one [] i = 1 -> z [] i = 2 -> d [] i = 3 -> ff [] i = 4 -> aa]
MCFields == {{1}, {2, 3}}
MCSolid  == {0, 1, 4}

(* A store of three addresses, for the runs with failing flash operations.  *)
SmallDefault == [i \in 0 .. 2 |-> CASE i = 0 -> one [] i = 1 -> z [] i = 2 -> aa]
SmallFields  == {{1}}
SmallSolid   == {0, 2}
=============================================================================
