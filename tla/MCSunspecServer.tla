-------------------------- MODULE MCSunspecServer --------------------------
(* The Modbus TCP server on a small instance: two pcb addresses and two    *)
(* connection slots, so that an entry that a reset leaves behind and a     *)
(* live one fill the list, a removal swaps them, and addresses are reused. *)
EXTENDS SunspecServer, TLC

\* The addresses are interchangeable; used where only safety is checked.
PcbSymmetry == Permutations(Pcbs)

\* With clients that send without waiting nothing depends on what was executed
\* or answered so far; the invariants of that run do not mention it.
Seen == <<lwip, list, tcpip, pc, locals, cur_client, mixed, wait, ghosts, fault>>

\* Bound for clients that wait: three requests in all, and nothing after the
\* disturbance that ends what the properties say of them.
FewRequests == sent[1] + sent[2] <= 3 /\ ~everMoved
=============================================================================
