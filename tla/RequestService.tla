--------------------------- MODULE RequestService ---------------------------
(***************************************************************************)
(* What the Modbus server promises to clients that wait for their answers: *)
(* a session has at most one request under way, which is executed once     *)
(* while the session is open, and then answered to that session or not at  *)
(* all; requests are served one at a time.  A request that comes while its *)
(* buffer is read may be torn: only such a one can be executed with bytes  *)
(* of another, and that counts as its execution.  The promise ends with    *)
(* the first disturbance of the connection list, from which on nothing is  *)
(* said.                                                                   *)
(***************************************************************************)
EXTENDS Integers

CONSTANTS
  Sessions,   \* session numbers, in the order in which clients connect
  Numbers,    \* request numbers of a session
  Idle        \* no request is being served

VARIABLES
  begun,      \* clients that have connected so far
  open,       \* sessions that are open
  received,   \* session -> number of its last request
  torn,       \* requests that may have lost bytes to another
  serving,    \* the request that is executed and not yet answered
  executed,   \* the requests that were executed as they were sent
  mixed,      \* the requests that were executed with bytes of another
  answered,   \* session -> number of its last request that was answered to it
  disturbed

vars == <<begun, open, received, torn, serving, executed, mixed, answered, disturbed>>

Init ==
  /\ begun = 0 /\ open = {} /\ torn = {} /\ serving = Idle
  /\ executed = {} /\ mixed = {} /\ disturbed = FALSE
  /\ received = [s \in Sessions |-> 0] /\ answered = [s \in Sessions |-> 0]

Request(s) == <<s, received[s]>>

\* A client connects, and is accepted or turned away.
Begin ==
  /\ begun' = begun + 1 /\ open' \in {open, open \cup {begun + 1}}
  /\ UNCHANGED <<received, torn, serving, executed, mixed, answered>>

End(s) ==
  /\ s \in open /\ open' = open \ {s}
  /\ UNCHANGED <<begun, received, torn, serving, executed, mixed, answered>>

\* Requests of an open session are torn.
Tear(s) == s \in open /\ torn \subseteq torn' /\ torn' \subseteq torn \cup ({s} \X Numbers)

Receive(s) ==
  /\ answered[s] = received[s] /\ received' = [received EXCEPT ![s] = @ + 1]
  /\ Tear(s)
  /\ UNCHANGED <<begun, open, serving, executed, mixed, answered>>

TearOnly(s) ==
  /\ Tear(s) /\ UNCHANGED <<begun, open, received, serving, executed, mixed, answered>>

Execute(s) ==
  /\ s \in open /\ answered[s] < received[s]
  /\ serving = Idle /\ serving' = Request(s)
  /\ Request(s) \notin executed \cup mixed
  /\ \/ executed' = executed \cup {Request(s)} /\ UNCHANGED mixed
     \/ Request(s) \in torn /\ mixed' = mixed \cup {Request(s)} /\ UNCHANGED executed
  /\ UNCHANGED <<begun, open, received, torn, answered>>

Answer(s) ==
  /\ s \in open /\ serving = Request(s) /\ serving' = Idle
  /\ answered[s] = received[s] - 1 /\ answered' = [answered EXCEPT ![s] = received[s]]
  /\ UNCHANGED <<begun, open, received, torn, executed, mixed>>

\* The answer cannot be sent.
GiveUp ==
  /\ serving # Idle /\ serving' = Idle
  /\ UNCHANGED <<begun, open, received, torn, executed, mixed, answered>>

Serve(s)  == End(s) \/ Receive(s) \/ TearOnly(s) \/ Execute(s) \/ Answer(s)
Orderly   == ~disturbed /\ ~disturbed' /\ (Begin \/ GiveUp \/ \E s \in Sessions : Serve(s))
Disturbed == disturbed'
Next      == Orderly \/ Disturbed

Spec == Init /\ [][Next]_vars
=============================================================================
