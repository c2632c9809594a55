----------------------------- MODULE MeterBridge -----------------------------
(***************************************************************************)
(* The way of a measurement from the meter to a client: update_meter_task  *)
(* (src/main.cpp) reads the meter in two requests, and copies the          *)
(* registers it has into the SunSpec image under sunspec_mutex; the Modbus *)
(* server and the page /measurements read the image under the same mutex.  *)
(* Whether the power is inverted is set by the webserver at any time.      *)
(*                                                                         *)
(* A register is known by its age, the failed readouts of its half since   *)
(* the last good one, and by the copy that put it into the image.  Three   *)
(* registers stand for all: one of each readout, and the inverted power.   *)
(***************************************************************************)
EXTENDS Integers, Sequences

CONSTANTS
  Clients,      \* threads that read the image
  Nobody,       \* the mutex is free
  Meter,        \* the mutex is held by update_meter_task
  MaxAge,       \* bound: ages are not told apart from here on
  Copies        \* bound: copies are numbered modulo this

ASSUME ClientAssumption == Meter \notin Clients /\ Nobody \notin Clients \cup {Meter}
ASSUME CopyAssumption   == MaxAge \in Nat /\ Copies \in Nat /\ Copies > 1

\* The registers in the order of the copy, and the readout each comes from.
Copied == <<"phases", "lines", "power">>
Fields == {"phases", "lines", "power"}
Half   == {1, 2}
HalfOf == [f \in Fields |-> IF f = "lines" THEN 2 ELSE 1]
Age    == 0 .. MaxAge
Older(a) == IF a < MaxAge THEN a + 1 ELSE a

VARIABLES
  age,          \* the eastron registers: half -> its age
  image,        \* the sunspec registers: the age and the copy of each
  inverted,     \* g::invert_watts()
  f_watts,      \* the task's reading of it, and ...
  sign,         \* ... the one in the image
  copy,         \* number of the copy
  mpc,          \* step of the task
  field,        \* register it copies next
  holder,       \* of sunspec_mutex
  cpc,          \* client -> its step
  seen          \* client -> the registers it has read so far, in the order of Copied

readout    == <<age, f_watts, field>>
sunspec    == <<image, sign, copy>>
clientVars == <<cpc, seen>>
bridgeVars == <<readout, sunspec, inverted, mpc, holder, clientVars>>

Register == [age : Age, copy : 0 .. Copies - 1]

BridgeTypeOK ==
  /\ age \in [Half -> Age] /\ image \in [Fields -> Register]
  /\ inverted \in BOOLEAN /\ f_watts \in BOOLEAN /\ sign \in BOOLEAN
  /\ copy \in 0 .. Copies - 1 /\ field \in 1 .. 3
  /\ mpc \in {"first", "second", "sign", "lock", "copy", "unlock"}
  /\ holder \in Clients \cup {Meter, Nobody}
  /\ cpc \in [Clients -> {"idle", "lock", "read"}]
  /\ seen \in [Clients -> Seq(Register)]

BridgeInit ==
  /\ age = [h \in Half |-> MaxAge] /\ image = [f \in Fields |-> [age |-> MaxAge, copy |-> 0]]
  /\ inverted \in BOOLEAN /\ f_watts = FALSE /\ sign = FALSE
  /\ copy = 0 /\ mpc = "first" /\ field = 1
  /\ holder = Nobody /\ cpc = [c \in Clients |-> "idle"] /\ seen = [c \in Clients |-> <<>>]

-----------------------------------------------------------------------------
(* sunspec_mutex: scoped_lock, and the callbacks of the Modbus actor.      *)

MutantNoLock(who) == UNCHANGED holder
Take(who) == holder = Nobody /\ holder' = who
Give      == holder' = Nobody

-----------------------------------------------------------------------------
(* update_meter_task.                                                      *)

Task(from, to) == mpc = from /\ mpc' = to /\ UNCHANGED <<inverted, clientVars>>

\* read_remote for one half: a failed one is logged and leaves the registers
\* as they are.
Readout(h, from, to) ==
  /\ Task(from, to)
  /\ \E ok \in BOOLEAN : age' = [age EXCEPT ![h] = IF ok THEN 0 ELSE Older(@)]
  /\ UNCHANGED <<f_watts, field, sunspec, holder>>
ReadFirst  == Readout(1, "first", "second")
ReadSecond == Readout(2, "second", "sign")

MutantKeepsSign == f_watts
WantedSign == inverted
ReadSign ==
  /\ Task("sign", "lock")
  /\ f_watts' = WantedSign
  /\ UNCHANGED <<age, field, sunspec, holder>>

Lock ==
  /\ Task("lock", "copy") /\ Take(Meter)
  /\ copy' = (copy + 1) % Copies
  /\ UNCHANGED <<readout, image, sign>>
\* s.write(e.read(...)) for every register.
Copy ==
  /\ Task("copy", IF field = 3 THEN "unlock" ELSE "copy")
  /\ LET f == Copied[field] IN
       /\ image' = [image EXCEPT ![f] = [age |-> age[HalfOf[f]], copy |-> copy]]
       /\ sign' = IF f = "power" THEN f_watts ELSE sign
  /\ field' = IF field = 3 THEN 1 ELSE field + 1
  /\ UNCHANGED <<age, f_watts, copy, holder>>
\* The end of the block; the task sleeps for the rest of 250 ms.
Unlock ==
  /\ Task("unlock", "first") /\ Give
  /\ UNCHANGED <<readout, sunspec>>

Meters == ReadFirst \/ ReadSecond \/ ReadSign \/ Lock \/ Copy \/ Unlock

-----------------------------------------------------------------------------
(* The other threads.                                                      *)

Client(c, from, to) ==
  /\ cpc[c] = from /\ cpc' = [cpc EXCEPT ![c] = to]
  /\ UNCHANGED <<readout, sunspec, inverted, mpc>>

\* A Modbus request or GET /measurements arrives, and takes the mutex.
Ask(c) == Client(c, "idle", "lock") /\ UNCHANGED <<holder, seen>>
ClientLock(c) == Client(c, "lock", "read") /\ Take(c) /\ UNCHANGED seen
\* One register after the other.
ReadRegister(c) ==
  /\ Client(c, "read", "read") /\ Len(seen[c]) < 3
  /\ seen' = [seen EXCEPT ![c] = Append(@, image[Copied[Len(@) + 1]])]
  /\ UNCHANGED holder
ClientUnlock(c) ==
  /\ Client(c, "read", "idle") /\ Len(seen[c]) = 3
  /\ Give /\ seen' = [seen EXCEPT ![c] = <<>>]
Serves(c) == ClientLock(c) \/ ReadRegister(c) \/ ClientUnlock(c)

\* set_invert_watts.
SetInvert ==
  /\ inverted' = ~inverted
  /\ UNCHANGED <<readout, sunspec, mpc, holder, clientVars>>

-----------------------------------------------------------------------------
BridgeNext == Meters \/ SetInvert \/ \E c \in Clients : Ask(c) \/ Serves(c)

\* The task runs, and FreeRTOS wakes the longest waiter of the mutex.
BridgeSpec ==
  /\ BridgeInit /\ [][BridgeNext]_bridgeVars
  /\ WF_bridgeVars(Meters) /\ SF_bridgeVars(Lock)
  /\ \A c \in Clients : WF_bridgeVars(Serves(c)) /\ SF_bridgeVars(ClientLock(c))

-----------------------------------------------------------------------------
(* Properties.                                                             *)

\* What a client reads under the mutex comes from one copy, and registers of
\* the same readout are of the same age: values of two rounds never mix,
\* wherever a failed readout left old ones.
ServedTogether ==
  \A c \in Clients : \A i, j \in DOMAIN seen[c] :
    /\ seen[c][i].copy = seen[c][j].copy
    /\ HalfOf[Copied[i]] = HalfOf[Copied[j]] => seen[c][i].age = seen[c][j].age

\* The image as it is once the copy that has begun is done: only the thread that
\* copies can tell the difference.
Pending(f) == mpc = "copy" /\ \E i \in field .. 3 : Copied[i] = f
Published ==
  [f \in Fields |->
     IF Pending(f) THEN [age |-> age[HalfOf[f]], copy |-> copy] ELSE image[f]]

\* More than that: when a copy is taken as done from the moment its mutex is
\* held, the image is a board on which rounds appear as a whole, and a client
\* reads all its registers from the round that was the latest when it began:
\* MeasurementBoard.
Readers == {c \in Clients : cpc[c] = "read"}
Board == INSTANCE MeasurementBoard WITH
  Order <- Copied, round <- copy, published <- Published, reading <- Readers,
  view <- [c \in Clients |-> Published], read <- seen
IsMeasurementBoard == Board!Spec

\* The sign of the power follows invert_watts, in whichever step of the task
\* that is set: the reading before the lock may be a round old, not older.
SignFollows == sign # inverted ~> sign = inverted
=============================================================================
