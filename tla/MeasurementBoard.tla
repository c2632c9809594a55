-------------------------- MODULE MeasurementBoard --------------------------
(***************************************************************************)
(* What the meter bridge promises to those who read measurements: a board  *)
(* on which a round of measurements appears as a whole.  A client reads    *)
(* register after register from the round that was on the board when it    *)
(* began, whatever is put up meanwhile.  A round has one age per readout.  *)
(***************************************************************************)
EXTENDS Integers, Sequences

CONSTANTS
  Clients,    \* those who read
  Order,      \* the registers, in the order they are read
  Fields,     \* the registers
  HalfOf,     \* register -> the readout it comes from
  Half,       \* the readouts
  Age,        \* ages of a readout
  Copies      \* rounds are numbered modulo this

VARIABLES
  round,      \* number of the round on the board
  published,  \* register -> its age and its round
  reading,    \* clients that have begun
  view,       \* client -> the round it reads from
  read        \* client -> the registers it has read

vars == <<round, published, reading, view, read>>

Round(n, ages) == [f \in Fields |-> [age |-> ages[HalfOf[f]], copy |-> n]]

Init ==
  /\ round = 0 /\ reading = {} /\ read = [c \in Clients |-> <<>>]
  /\ \E ages \in [Half -> Age] : published = Round(0, ages)
  /\ view = [c \in Clients |-> published]

\* Another round: clients that have begun do not see it.
Publish ==
  /\ round' = (round + 1) % Copies
  /\ \E ages \in [Half -> Age] : published' = Round(round', ages)
  /\ view' = [c \in Clients |-> IF c \in reading THEN view[c] ELSE published']
  /\ UNCHANGED <<reading, read>>

Begin(c) ==
  /\ c \notin reading /\ reading' = reading \cup {c}
  /\ UNCHANGED <<round, published, view, read>>

Read(c) ==
  /\ c \in reading /\ Len(read[c]) < Len(Order)
  /\ read' = [read EXCEPT ![c] = Append(@, view[c][Order[Len(@) + 1]])]
  /\ UNCHANGED <<round, published, reading, view>>

\* A client that has read all of it leaves, and finds the latest next time.
Leave(c) ==
  /\ c \in reading /\ Len(read[c]) = Len(Order)
  /\ reading' = reading \ {c} /\ read' = [read EXCEPT ![c] = <<>>]
  /\ view' = [view EXCEPT ![c] = published]
  /\ UNCHANGED <<round, published>>

Next == Publish \/ \E c \in Clients : Begin(c) \/ Read(c) \/ Leave(c)
Spec == Init /\ [][Next]_vars
=============================================================================
