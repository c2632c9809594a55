------------------------------ MODULE Settings ------------------------------
(***************************************************************************)
(* What the settings store promises while nothing fails: each setting is a *)
(* register.  A call of write takes its data once, writes the whole of it  *)
(* to its own setting and nothing to another, in one step, and returns     *)
(* after that.  Calls overlap; what a read returns is `stored`.            *)
(***************************************************************************)
CONSTANTS
  Callers,    \* those who write
  Fields,     \* the settings
  Data,       \* setting -> the contents it can have
  Nothing     \* no data

VARIABLES
  stored,     \* setting -> its content
  at,         \* caller -> how far its call has come
  field,      \* caller -> the setting it writes
  data        \* caller -> what it writes

vars == <<stored, at, field, data>>

Init ==
  /\ stored \in [Fields -> UNION {Data[f] : f \in Fields}]
  /\ \A f \in Fields : stored[f] \in Data[f]
  /\ at = [c \in Callers |-> "idle"] /\ data = [c \in Callers |-> Nothing]
  /\ field \in [Callers -> Fields]

Advance(c, from, to) == at[c] = from /\ at' = [at EXCEPT ![c] = to]

Call(c, f) ==
  /\ Advance(c, "idle", "called")
  /\ field' = [field EXCEPT ![c] = f] /\ UNCHANGED <<stored, data>>

Give(c, d) ==
  /\ Advance(c, "called", "given")
  /\ data' = [data EXCEPT ![c] = d] /\ UNCHANGED <<stored, field>>

Write(c) ==
  /\ Advance(c, "given", "written")
  /\ stored' = [stored EXCEPT ![field[c]] = data[c]] /\ UNCHANGED <<field, data>>

Return(c) ==
  /\ Advance(c, "written", "idle")
  /\ data' = [data EXCEPT ![c] = Nothing] /\ UNCHANGED <<stored, field>>

Next == \E c \in Callers :
  \/ \E f \in Fields : Call(c, f)
  \/ \E d \in Data[field[c]] : Give(c, d)
  \/ Write(c) \/ Return(c)

Spec == Init /\ [][Next]_vars
=============================================================================
