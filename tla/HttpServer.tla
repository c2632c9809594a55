----------------------------- MODULE HttpServer -----------------------------
(***************************************************************************)
(* The connections of the webserver (include/tcp_server/tcp_server.h): the *)
(* table client_pcbs and lwIP's callbacks on it.  The tcpip thread runs    *)
(* them one at a time, each of them one action, but for the recv callback: *)
(* it answers the request before it returns, in frames of one send buffer  *)
(* any of which may fail or find no room for ever, and no other callback   *)
(* runs until it has returned.  The buffers are taken and given back       *)
(* within the callback, so there is always one free and they are not part  *)
(* of the state.  The handlers that a request runs are other modules'      *)
(* business.                                                               *)
(*                                                                         *)
(* lwIP keeps the control block (pcb) of a session at an address of a      *)
(* pool.  tcp_close gives the address back, as does a reset by the peer or *)
(* an abort by lwIP, and a later session may get it again.                 *)
(***************************************************************************)
EXTENDS Integers, FiniteSets

CONSTANTS
  Pcbs,         \* addresses of the pool
  NoPcb,        \* the null pointer
  Slots,        \* message_buffers: entries of client_pcbs (4)
  Window,       \* requests a session may send: tcp_recved is never called, so
                \* its receive window never reopens
  MaxSessions,  \* bound: sessions opened in one behaviour
  MaxAborts     \* bound: connections lwIP aborts

ASSUME PoolAssumption  == IsFiniteSet(Pcbs) /\ NoPcb \notin Pcbs
ASSUME SizeAssumption  == Slots \in Nat \ {0}
ASSUME BoundAssumption == Window \in Nat /\ MaxSessions \in Nat /\ MaxAborts \in Nat

Index    == 0 .. Slots - 1
Sessions == 1 .. MaxSessions

VARIABLES
  owner,        \* pcb -> its session, 0 when the address is free
  nsess,        \* sessions opened so far
  sent,         \* session -> requests received from it
  busy,         \* the pcb whose request is being answered, or NoPcb
  hung,         \* send_data waits for room in a send buffer for ever
  client_pcbs,  \* the connection table
  aborts,       \* connections lwIP has aborted
  fault         \* tcp_close was called on a freed pcb: anything may follow

vars == <<owner, nsess, sent, busy, hung, client_pcbs, aborts, fault>>

\* Between two callbacks of the tcpip thread, so that another one may run.
Idle == ~fault /\ ~hung /\ busy = NoPcb

Open     == {p \in Pcbs : owner[p] # 0}
Taken    == {i \in Index : client_pcbs[i] # NoPcb}
SlotsOf(p) == {i \in Index : client_pcbs[i] = p}

TypeOK ==
  /\ owner \in [Pcbs -> 0 .. MaxSessions] /\ nsess \in 0 .. MaxSessions
  /\ sent \in [Sessions -> 0 .. Window]
  /\ busy \in Pcbs \cup {NoPcb} /\ hung \in BOOLEAN
  /\ client_pcbs \in [Index -> Pcbs \cup {NoPcb}]
  /\ aborts \in 0 .. MaxAborts /\ fault \in BOOLEAN

Init ==
  /\ owner = [p \in Pcbs |-> 0] /\ nsess = 0
  /\ sent = [s \in Sessions |-> 0] /\ busy = NoPcb /\ hung = FALSE
  /\ client_pcbs = [i \in Index |-> NoPcb] /\ aborts = 0 /\ fault = FALSE

-----------------------------------------------------------------------------
(* tcp_server_result.                                                      *)

\* A slot of S whose pcb is free, or is freed by an earlier slot of S, hands
\* freed memory to tcp_close.
ClosesFreed(S) ==
  \E i \in S : \/ owner[client_pcbs[i]] = 0
              \/ \E j \in S : j # i /\ client_pcbs[j] = client_pcbs[i]

\* (A definition named Mutant... is not part of the model: it is a plausible
\* bug, used to confirm that a property would notice it.)
MutantKeepsSlot(S) ==
  /\ owner' = [p \in Pcbs |-> IF \E i \in S : client_pcbs[i] = p THEN 0 ELSE owner[p]]
  /\ fault' \in {FALSE, ClosesFreed(S)}
  /\ UNCHANGED client_pcbs
MutantNotClosed(S) ==
  /\ client_pcbs' = [i \in Index |-> IF i \in S THEN NoPcb ELSE client_pcbs[i]]
  /\ UNCHANGED <<owner, fault>>

\* clear_client_pcb for every slot of S: detach the callbacks, close the pcb,
\* empty the slot.
ClearSlots(S) ==
  /\ owner' = [p \in Pcbs |-> IF \E i \in S : client_pcbs[i] = p THEN 0 ELSE owner[p]]
  /\ client_pcbs' = [i \in Index |-> IF i \in S THEN NoPcb ELSE client_pcbs[i]]
  /\ fault' \in {FALSE, ClosesFreed(S)}

\* tcp_server_result for one client: every slot with its pcb.
MutantNoResult(p) == UNCHANGED <<owner, client_pcbs, fault>>
Result(p) == ClearSlots(SlotsOf(p))

\* tcp_server_result without a client: every slot.
ResultAll == ClearSlots(Taken)

-----------------------------------------------------------------------------
(* The callbacks.                                                          *)

MutantNoBreak(i) == i \in SlotsOf(NoPcb)
IsFirstFree(i)   == i \in SlotsOf(NoPcb) /\ \A j \in SlotsOf(NoPcb) : i <= j

\* tcp_server_accept: the first free slot; without one the client is closed.
Accept(p) ==
  /\ Idle /\ owner[p] = 0 /\ nsess < MaxSessions
  /\ nsess' = nsess + 1
  /\ \/ /\ Taken # Index
        /\ client_pcbs' = [i \in Index |-> IF IsFirstFree(i) THEN p ELSE client_pcbs[i]]
        /\ owner' = [owner EXCEPT ![p] = nsess + 1]
     \/ /\ Taken = Index
        /\ UNCHANGED <<client_pcbs, owner>>
  /\ UNCHANGED <<sent, busy, hung, aborts, fault>>

\* tcp_server_accept without a pcb: lwIP had none left for the new client.
AcceptFailed ==
  /\ Idle /\ nsess < MaxSessions
  /\ nsess' = nsess + 1
  /\ ResultAll
  /\ UNCHANGED <<sent, busy, hung, aborts>>

\* tcp_server_recv with data: process_request runs the handler, and frames of
\* the response are written out.  Those that lwIP takes change nothing here.
MutantNoWindow(p) ==
  /\ Idle /\ owner[p] # 0
  /\ sent' = [sent EXCEPT ![owner[p]] = @ + 1] /\ busy' = p
  /\ UNCHANGED <<owner, nsess, hung, client_pcbs, aborts, fault>>
Recv(p) ==
  /\ Idle /\ owner[p] # 0 /\ sent[owner[p]] < Window
  /\ sent' = [sent EXCEPT ![owner[p]] = @ + 1] /\ busy' = p
  /\ UNCHANGED <<owner, nsess, hung, client_pcbs, aborts, fault>>

\* send_data gives a frame up: the session is closed, and nobody is told.  The
\* handler goes on, so that every later frame meets a pcb that is closed, is
\* given up as well and closes the client once more.
SendFails ==
  /\ ~fault /\ ~hung /\ busy # NoPcb
  /\ Result(busy)
  /\ UNCHANGED <<nsess, sent, busy, hung, aborts>>

\* send_data finds no room in the send buffer: writing nothing succeeds, so no
\* retry is counted, and the acknowledgement that makes room is never read.
SendHangs ==
  /\ ~fault /\ ~hung /\ busy # NoPcb /\ owner[busy] # 0
  /\ hung' = TRUE
  /\ UNCHANGED <<owner, nsess, sent, busy, client_pcbs, aborts, fault>>

\* The last frame has been sent or given up, and the callback returns.
RecvReturns ==
  /\ ~fault /\ ~hung /\ busy # NoPcb
  /\ busy' = NoPcb
  /\ UNCHANGED <<owner, nsess, sent, hung, client_pcbs, aborts, fault>>

\* tcp_server_recv without data: the peer has closed.
PeerClose(p) ==
  /\ Idle /\ owner[p] # 0
  /\ Result(p)
  /\ UNCHANGED <<nsess, sent, busy, hung, aborts>>

\* tcp_server_poll: poll_time_s seconds without an acknowledgement.
Poll(p) ==
  /\ Idle /\ owner[p] # 0
  /\ Result(p)
  /\ UNCHANGED <<nsess, sent, busy, hung, aborts>>

\* tcp_server_err with ERR_RST, which lwIP reports before it frees the pcb:
\* the table is cleared, and with it every other client is closed.
Reset(p) ==
  /\ Idle /\ owner[p] # 0
  /\ ResultAll
  /\ UNCHANGED <<nsess, sent, busy, hung, aborts>>

\* tcp_server_err with ERR_ABRT, which lwIP reports after it freed the pcb, as
\* when the address of the interface changes: nothing is done.
Abort(p) ==
  /\ Idle /\ owner[p] # 0 /\ aborts < MaxAborts
  /\ aborts' = aborts + 1
  /\ owner' = [owner EXCEPT ![p] = 0]
  /\ UNCHANGED <<nsess, sent, busy, hung, client_pcbs, fault>>

-----------------------------------------------------------------------------
Next ==
  \/ \E p \in Pcbs : Accept(p) \/ Recv(p) \/ PeerClose(p) \/ Poll(p) \/ Reset(p) \/ Abort(p)
  \/ AcceptFailed \/ SendFails \/ SendHangs \/ RecvReturns

\* A handler writes a bounded response, so the callback returns unless it hangs.
\* A client keeps a session from being polled only by acknowledging responses,
\* and its receive window bounds how many it can ask for.
Spec == Init /\ [][Next]_vars /\ WF_vars(RecvReturns) /\ \A p \in Pcbs : WF_vars(Poll(p))

-----------------------------------------------------------------------------
(* Properties.                                                             *)

\* Every open session has a slot, whatever was closed, refused or aborted and
\* whatever address it got: its poll will find it and close it.
OpenHasSlot == \A p \in Open : SlotsOf(p) # {}

\* A slot is taken for an open session, and only for one: aborted connections
\* are the one thing that leaks slots, at most one each.
SlotsAccounted ==
  /\ Cardinality(Open) <= Cardinality(Taken)
  /\ Cardinality(Taken) <= Cardinality(Open) + aborts

\* Without aborted connections tcp_close is only called on live pcbs, although
\* send_data closes the client again for every frame after the one it gave up.
ClosesLivePcbs == fault => aborts > 0

\* A full table does not stay full, unless connections were aborted or the
\* tcpip thread never gets out of send_data: then no session is polled.
Full == Taken = Index
FullEnds == Full ~> ~Full \/ aborts > 0 \/ hung

\* tcp_server_result reports "deinitializing no client" when it is called
\* without one, as tcp_server_err does: a client that resets its connection
\* would leave the others alone.
ResetClosesNoOther ==
  [][\A p \in Pcbs : Reset(p) => \A q \in Pcbs \ {p} : owner'[q] = owner[q]]_vars
=============================================================================
