------------------------------ MODULE Transmitter ------------------------------
(***************************************************************************)
(* What sending over the line promises, without buffers, flags, DMA or     *)
(* builds: the transmitter belongs to nobody, to one user or to the frame  *)
(* on the line; users that found it taken get it in the order they came;   *)
(* and while the device keeps silent no frame is begun.  A user gives it   *)
(* up by beginning a frame, which gives it up at its end, or as it is.     *)
(* Module ModbusTx implements this.                                        *)
(***************************************************************************)
EXTENDS Sequences

CONSTANT Users

VARIABLES
  holder,   \* a user, "line" or "nobody"
  queue,    \* users that wait, first come first
  silent

tvars == <<holder, queue, silent>>

TInit ==
  /\ holder = "nobody"
  /\ queue = << >>
  /\ silent = FALSE

Take(u) ==
  /\ holder = "nobody"
  /\ holder' = u
  /\ UNCHANGED <<queue, silent>>

Wait(u) ==
  /\ holder # "nobody"
  /\ queue' = Append(queue, u)
  /\ UNCHANGED <<holder, silent>>

(* The first that waits has it at once.                                    *)
PassOn ==
  IF queue = << >>
    THEN holder' = "nobody" /\ UNCHANGED queue
    ELSE holder' = Head(queue) /\ queue' = Tail(queue)

Begin(u) ==
  /\ holder = u
  /\ ~silent
  /\ holder' = "line"
  /\ UNCHANGED <<queue, silent>>

End == holder = "line" /\ PassOn /\ UNCHANGED silent

GiveUp(u) == holder = u /\ PassOn /\ UNCHANGED silent

(* The device is silenced when no user is about to begin a frame.          *)
Silence ==
  /\ holder \notin Users
  /\ silent' = TRUE
  /\ UNCHANGED <<holder, queue>>

Speak ==
  /\ silent' = FALSE
  /\ UNCHANGED <<holder, queue>>

(* Only a user that has the transmitter resets the device.                 *)
Reset(u) ==
  /\ holder = u
  /\ holder' = "nobody"
  /\ queue' = << >>
  /\ silent' = FALSE

TNext ==
  \/ \E u \in Users : Take(u) \/ Wait(u) \/ Begin(u) \/ GiveUp(u) \/ Reset(u)
  \/ End \/ Silence \/ Speak

TSpec == TInit /\ [][TNext]_tvars
==============================================================================
