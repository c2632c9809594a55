--------------------------- MODULE SunspecServer ---------------------------
(***************************************************************************)
(* The SunSpec Modbus TCP server on port 502: the transport `tcp_io`       *)
(* (include/sunspec_modbus.h) and its lwIP callbacks (src/sunspec_modbus   *)
(* .cpp), shared without a lock by two threads:                            *)
(*                                                                         *)
(*   - lwIP's tcpip thread runs the callbacks accept, recv, poll and err,  *)
(*     one at a time;                                                      *)
(*   - sunspec_server_task (src/main.cpp) calls poll_update_state for      *)
(*     ever: read_bytes, handle the request, write_bytes.                  *)
(*                                                                         *)
(* Both run on cores of their own and are cut into one step per access to  *)
(* the shared connection list.  A request <<session, number>> is a Modbus  *)
(* frame of two parts, its head and its tail; one cell of a connection's   *)
(* buffer holds a part.  A session is one TCP connection; its control      *)
(* block (pcb) lives at an address of a small pool, and a freed address is *)
(* given to a later session.                                               *)
(***************************************************************************)
EXTENDS Integers, FiniteSets

CONSTANTS
  Pcbs,         \* addresses of lwIP's pool of TCP control blocks
  NoPcb,        \* the null pointer
  Slots,        \* capacity of conns (8 in the code)
  Cells,        \* parts a connection's buffer holds (1024 bytes in the code)
  Window,       \* requests a session may send before its receive window is
                \* used up: tcp_recved is never called, so it never reopens
  MaxSessions,  \* bound: sessions accepted in one behaviour
  MaxResets,    \* bound: sessions that end by a peer reset
  Pipelined     \* TRUE: a client may send before its last request is answered

ASSUME PoolAssumption == IsFiniteSet(Pcbs) /\ NoPcb \notin Pcbs
ASSUME SizeAssumption == Slots \in Nat \ {0} /\ Cells \in Nat /\ Cells > 1
ASSUME BoundAssumption ==
  Window \in Nat /\ MaxSessions \in Nat /\ MaxResets \in Nat /\ Pipelined \in BOOLEAN

Index    == 0 .. Slots - 1
Sessions == 1 .. MaxSessions
Requests == Sessions \X (1 .. Window)
NoReq    == <<0, 0>>
Parts    == {"head", "tail"}
Part(r, h) == [of |-> r, part |-> h]
NoPart   == Part(NoReq, "tail")   \* zeroed bytes: no head
Cell     == [of : Requests, part : Parts] \cup {NoPart}

VARIABLES
  owner,        \* pcb -> the session it serves, 0 when the address is free
  nsess,        \* sessions opened so far
  resets,       \* the sessions the peer has reset
  sent,         \* session -> requests received from it
  answered,     \* session -> its last request that was answered to it
  conns,        \* the storage array of tcp_io::conns
  cur_size,     \* its length
  cpc,          \* next step of the callback that runs, "idle" when none does
  client,       \* its pcb,
  entry,        \* the slot it works on,
  pos,          \* the part or cell it has come to,
  old,          \* and the buffer's length as it has read it
  cur_client,   \* index the next write_bytes replies to, -1 for none
  armed,        \* data_retrieve_wait holds the server task's handle
  notified,     \* the server task's notification is pending
  pc, pass,     \* step of the server task; first or second scan of read_bytes
  idx, n,       \* the scan's index, and the length it saw when it started
  span, len,    \* slot whose bytes read_bytes returned, and how many
  req,          \* the request being answered
  executed,     \* the requests the actor has executed
  mixed,        \* requests executed with the tail of another one
  moved,        \* the slot being served was removed or refilled meanwhile,
                \* or lay beyond the end when it was read
  everMoved,    \* so it was, in this or an earlier request
  skipped,      \* a connection was moved across the scan
  torn,         \* requests in a buffer that was written while it was read
  refused,      \* requests whose answer lwIP did not take
  fault         \* the null pointer a callback used, "none" before that

lwip    == <<owner, nsess, resets, sent>>
list    == <<conns, cur_size>>
tcpip   == <<cpc, client, entry, pos, old>>
work    == <<cur_client, answered, executed, mixed, refused>>
locals  == <<pass, idx, n, span, len, req>>
task    == <<pc, locals, work>>
wait    == <<armed, notified>>
ghosts  == <<moved, everMoved, skipped, torn>>
vars    == <<lwip, list, tcpip, task, wait, ghosts, fault>>

Open     == {p \in Pcbs : owner[p] # 0}
Live(s)  == \E p \in Pcbs : owner[p] = s
Conn     == [client_socket : Pcbs \cup {NoPcb}, data : [0 .. Cells - 1 -> Cell], size : 0 .. Cells]
Empty(p) == [client_socket |-> p, data |-> [c \in 0 .. Cells - 1 |-> NoPart], size |-> 0]

TypeOK ==
  /\ owner \in [Pcbs -> 0 .. MaxSessions] /\ nsess \in 0 .. MaxSessions
  /\ resets \subseteq Sessions
  /\ sent \in [Sessions -> 0 .. Window] /\ answered \in [Sessions -> 0 .. Window]
  /\ conns \in [Index -> Conn] /\ cur_size \in 0 .. Slots
  /\ cpc \in {"idle", "accept", "fill", "count", "load", "store", "data", "size", "notify", "copy"}
  /\ client \in Pcbs \cup {NoPcb} /\ entry \in Index
  /\ pos \in 0 .. Cells /\ old \in 0 .. Cells - 1
  /\ cur_client \in -1 .. Slots - 1
  /\ armed \in BOOLEAN /\ notified \in BOOLEAN
  /\ pc \in {"poll", "scan", "span", "clear", "take", "head", "tail", "write"} /\ pass \in {1, 2}
  /\ idx \in 0 .. Slots /\ n \in 0 .. Slots /\ span \in Index /\ len \in 0 .. Cells
  /\ req \in Requests \cup {NoReq} /\ executed \subseteq Requests /\ mixed \subseteq Requests
  /\ moved \in BOOLEAN /\ everMoved \in BOOLEAN /\ skipped \in BOOLEAN
  /\ torn \subseteq Requests /\ refused \subseteq Requests
  /\ fault \in {"none", "nullnotify", "nullio"}

Init ==
  /\ owner = [p \in Pcbs |-> 0] /\ nsess = 0 /\ resets = {}
  /\ sent = [s \in Sessions |-> 0] /\ answered = [s \in Sessions |-> 0]
  /\ conns = [i \in Index |-> Empty(NoPcb)] /\ cur_size = 0 /\ cur_client = -1
  /\ cpc = "idle" /\ client = NoPcb /\ entry = 0 /\ pos = 0 /\ old = 0
  /\ armed = FALSE /\ notified = FALSE
  /\ pc = "poll" /\ pass = 1 /\ idx = 0 /\ n = 0 /\ span = 0 /\ len = 0
  /\ req = NoReq /\ executed = {} /\ mixed = {} /\ torn = {} /\ refused = {}
  /\ moved = FALSE /\ everMoved = FALSE /\ skipped = FALSE /\ fault = "none"

-----------------------------------------------------------------------------
(* The connection list.                                                    *)

\* static_vector::operator[]: an index past the end reads slot 0.
At(i) == IF i < cur_size THEN i ELSE 0

\* `conns | find{&connection::client_socket, p}`: the first entry with p.
Holds(i, p)  == i < cur_size /\ conns[i].client_socket = p
First(i, p)  == Holds(i, p) /\ \A j \in Index : Holds(j, p) => i <= j
Listed(p)    == \E i \in Index : Holds(i, p)

\* The task has the slot in hand, from the test of its length to the last byte.
Reading(i) == pc \in {"span", "clear", "head", "tail"} /\ span = i
\* A callback is writing the slot.
Pushing(i) == cpc \in {"load", "store", "data", "size"} /\ entry = i
Copying(i) == cpc \in {"copy", "fill"} /\ entry = i
\* The requests with bytes in the slot's buffer.
Inside(i) == {conns[i].data[c].of : c \in 0 .. Cells - 1} \ {NoReq}

\* (A definition named Mutant... is not part of the model: it is a plausible
\* bug, used to confirm that a property would notice it.)
\* `*c = *conns.pop()`: the last connection takes the place of the removed one.
\* Its length is taken first; the copy goes from the first byte to the last.
Pop(i) ==
  /\ cur_size' = cur_size - 1
  /\ LET hit == (Reading(i) \/ Reading(cur_size - 1)
                 \/ (pc = "write" /\ span \in {i, cur_size - 1}))
     IN  moved' = (moved \/ hit) /\ everMoved' = (everMoved \/ hit)
  /\ skipped' = (skipped \/ (pc = "scan" /\ idx < cur_size))
  /\ UNCHANGED torn

-----------------------------------------------------------------------------
(* The tcpip thread.  One callback runs at a time.                         *)

Callback(p) == fault = "none" /\ cpc = "idle" /\ owner[p] # 0
Runs(from)  == fault = "none" /\ cpc \in from
Goes(to)    == cpc' = to /\ UNCHANGED <<client, entry, pos, old>>
\* It returns, and its locals are gone.
Returns     == cpc' = "idle" /\ client' = NoPcb /\ entry' = 0 /\ pos' = 0 /\ old' = 0

\* tcp_server_accept: a new session takes a free pcb.  With every slot taken
\* the code calls tcp_server_result(nullptr, ...), which reads the connection
\* list through the null pointer: the client is closed, or the core faults.
Accept(p) ==
  /\ Runs({"idle"}) /\ owner[p] = 0 /\ nsess < MaxSessions
  /\ nsess' = nsess + 1
  /\ IF cur_size < Slots
     THEN /\ cpc' = "accept" /\ client' = p /\ entry' = cur_size
          /\ owner' = [owner EXCEPT ![p] = nsess + 1]
          /\ UNCHANGED fault
     ELSE /\ fault' \in {"none", "nullio"}
          /\ UNCHANGED <<owner, cpc, client, entry>>
  /\ UNCHANGED <<resets, sent, list, pos, old, task, wait, ghosts>>

\* `storage[cur_size++] = e`: the entry and the length are stored, in an order
\* that the compiler chooses.
FillEntry ==
  /\ Runs({"accept", "fill"}) /\ (IF cpc = "accept" THEN Goes("count") ELSE Returns)
  /\ conns' = [conns EXCEPT ![entry] = Empty(client)]
  /\ UNCHANGED <<lwip, cur_size, task, wait, ghosts, fault>>
CountEntry ==
  /\ Runs({"accept", "count"}) /\ (IF cpc = "accept" THEN Goes("fill") ELSE Returns)
  /\ cur_size' = cur_size + 1
  /\ UNCHANGED <<lwip, conns, task, wait, ghosts, fault>>

MaySend(s) == sent[s] < Window /\ (Pipelined \/ answered[s] = sent[s])

\* tcp_server_recv with data: the first entry of that pcb is to have it, byte
\* by byte.
Recv(p) ==
  /\ Callback(p) /\ MaySend(owner[p])
  /\ sent' = [sent EXCEPT ![owner[p]] = @ + 1]
  /\ client' = p
  /\ \/ \E i \in Index :
          /\ First(i, p) /\ entry' = i /\ cpc' = "load"
          /\ torn' = IF Reading(i)
                     THEN torn \cup Inside(i) \cup {<<owner[p], sent[owner[p]] + 1>>}
                     ELSE torn
     \/ ~Listed(p) /\ cpc' = "notify" /\ UNCHANGED <<entry, torn>>
  /\ UNCHANGED <<owner, nsess, resets, list, pos, old, task, wait, moved, everMoved, skipped, fault>>

\* The request that a recv callback has got, and the part that comes next.
Coming   == <<owner[client], sent[owner[client]]>>
NextPart == Part(Coming, IF pos = 0 THEN "head" ELSE "tail")
Advance  == /\ pos' = 1 - pos /\ old' = 0
            /\ cpc' = (IF pos = 0 THEN "load" ELSE "notify")

\* buffer.push reads the length; what does not fit is dropped.
MutantFits == conns[entry].size <= Cells
Fits == conns[entry].size < Cells
Load ==
  /\ Runs({"load"})
  /\ IF Fits THEN cpc' = "store" /\ old' = conns[entry].size /\ UNCHANGED pos ELSE Advance
  /\ UNCHANGED <<lwip, list, client, entry, task, wait, ghosts, fault>>
\* It stores the byte and the length, again in either order.
StoreData ==
  /\ Runs({"store", "data"})
  /\ conns' = [conns EXCEPT ![entry].data[old] = NextPart]
  /\ IF cpc = "store" THEN cpc' = "size" /\ UNCHANGED <<pos, old>> ELSE Advance
  /\ UNCHANGED <<lwip, cur_size, client, entry, task, wait, ghosts, fault>>
StoreSize ==
  /\ Runs({"store", "size"})
  /\ conns' = [conns EXCEPT ![entry].size = old + 1]
  /\ IF cpc = "store" THEN cpc' = "data" /\ UNCHANGED <<pos, old>> ELSE Advance
  /\ UNCHANGED <<lwip, cur_size, client, entry, task, wait, ghosts, fault>>

\* xTaskNotifyGive: the server task's handle is null until it has first waited.
MutantNoNotify == UNCHANGED <<notified, fault>>
Give ==
  /\ notified' = (armed \/ notified)
  /\ fault' = IF armed THEN "none" ELSE "nullnotify"
Notify ==
  /\ Runs({"notify"}) /\ Returns /\ Give
  /\ UNCHANGED <<lwip, list, task, armed, ghosts>>

\* tcp_server_result for a live pcb: take it out of the list, detach the
\* callbacks, close it.  tcp_close that fails is followed by tcp_abort.
Result(p) ==
  /\ Callback(p)
  /\ \/ /\ \E i \in Index : First(i, p) /\ entry' = i /\ Pop(i)
        /\ cpc' = "copy" /\ client' = p /\ UNCHANGED owner
     \/ /\ ~Listed(p) /\ owner' = [owner EXCEPT ![p] = 0]
        /\ UNCHANGED <<cur_size, cpc, client, entry, ghosts>>
  /\ UNCHANGED <<nsess, resets, sent, conns, pos, old, task, wait, fault>>
\* tcp_server_recv without data: the peer has closed.
PeerClose(p) == Result(p)
\* tcp_server_poll: a second without an acknowledgement closes the session.
Poll(p) == Result(p)

MutantLast    == conns[IF cur_size = 0 THEN 0 ELSE cur_size - 1]
Last          == conns[cur_size]   \* what pop() returned
MutantCopyEnd == Cells - 1
CopyEnd       == Cells
CopyCell ==
  /\ Runs({"copy"}) /\ pos < CopyEnd /\ pos' = pos + 1 /\ cpc' = cpc
  /\ conns' = [conns EXCEPT ![entry].data[pos] = Last.data[pos],
                            ![entry].client_socket = Last.client_socket]
  /\ UNCHANGED <<lwip, cur_size, client, entry, old, task, wait, ghosts, fault>>
MutantKeepsPcb == UNCHANGED owner
Freed == owner' = [owner EXCEPT ![client] = 0]
CopySize ==
  /\ Runs({"copy"}) /\ pos = CopyEnd /\ Returns
  /\ conns' = [conns EXCEPT ![entry].size = Last.size]
  /\ Freed
  /\ UNCHANGED <<nsess, resets, sent, cur_size, task, wait, ghosts, fault>>

\* tcp_server_err: lwIP frees the pcb, and tcp_server_result looks for a null
\* socket, which no entry has (with ERR_ABRT it is not even called).
Err(p) ==
  /\ Callback(p) /\ Cardinality(resets) < MaxResets
  /\ owner' = [owner EXCEPT ![p] = 0]
  /\ resets' = resets \cup {owner[p]}
  /\ UNCHANGED <<nsess, sent, list, tcpip, task, wait, ghosts, fault>>

-----------------------------------------------------------------------------
(* sunspec_server_task: poll_update_state(1000ms), for ever.               *)

From(p)        == fault = "none" /\ pc = p
Step(from, to) == From(from) /\ pc' = to

\* poll_update_state returns, and its locals are gone.
Ends ==
  /\ pc' = "poll" /\ pass' = 1 /\ idx' = 0 /\ n' = 0 /\ span' = 0 /\ len' = 0 /\ req' = NoReq
  /\ moved' = FALSE /\ skipped' = FALSE /\ UNCHANGED <<everMoved, torn>>

MutantScanShort(k) ==
  pass' = k /\ idx' = 0 /\ n' = (IF cur_size = 0 THEN 0 ELSE cur_size - 1) /\ UNCHANGED <<span, len, req>>
BeginScan(k) == pass' = k /\ idx' = 0 /\ n' = cur_size /\ UNCHANGED <<span, len, req>>

\* read_bytes is called: its first scan reads conns.size() once.
StartRead ==
  /\ Step("poll", "scan") /\ BeginScan(1) /\ skipped' = (cpc = "copy")
  /\ UNCHANGED <<lwip, list, tcpip, work, wait, moved, everMoved, torn, fault>>

\* An entry with bytes ...
ScanHit ==
  /\ Step("scan", "span") /\ idx < n /\ conns[At(idx)].size > 0
  /\ span' = At(idx)
  /\ moved' = (idx >= cur_size \/ Copying(At(idx))) /\ everMoved' = (everMoved \/ moved')
  /\ torn' = IF Pushing(At(idx)) THEN torn \cup Inside(At(idx)) \cup {Coming} ELSE torn
  /\ UNCHANGED <<lwip, list, tcpip, pass, idx, n, len, req, work, wait, skipped, fault>>

ScanMiss ==
  /\ Step("scan", "scan") /\ idx < n /\ conns[At(idx)].size = 0
  /\ idx' = idx + 1
  /\ UNCHANGED <<lwip, list, tcpip, pass, n, span, len, req, work, wait, ghosts, fault>>

\* ... read_bytes keeps a span over its buffer ...
Span ==
  /\ Step("span", "clear") /\ span' = At(idx) /\ len' = conns[At(idx)].size
  /\ UNCHANGED <<lwip, list, tcpip, pass, idx, n, req, work, wait, ghosts, fault>>

\* ... and clears it (its length, the bytes stay), remembering the index for
\* the answer.
MutantNotCleared(c) == c
Cleared(c) == [c EXCEPT !.size = 0]
Clear ==
  /\ Step("clear", "head")
  /\ conns' = [conns EXCEPT ![At(idx)] = Cleared(@)]
  /\ cur_client' = idx
  /\ UNCHANGED <<lwip, cur_size, tcpip, locals, answered, executed, mixed, refused, wait, ghosts, fault>>

\* The first scan found nothing: publish the handle, then wait.
Arm ==
  /\ Step("scan", "take") /\ idx = n /\ pass = 1
  /\ armed' = TRUE
  /\ UNCHANGED <<lwip, list, tcpip, locals, work, notified, ghosts, fault>>

\* ulTaskNotifyTake returns with the notification, or after 1000 ms.
Wake(taken) ==
  /\ Step("take", "scan") /\ notified = taken /\ notified' = FALSE /\ BeginScan(2)
  /\ UNCHANGED <<lwip, list, tcpip, work, armed, ghosts, fault>>
Take    == Wake(TRUE)
Timeout == Wake(FALSE)

\* The second scan found nothing.
Nothing ==
  /\ From("scan") /\ idx = n /\ pass = 2 /\ Ends
  /\ UNCHANGED <<lwip, list, tcpip, work, wait, fault>>

\* The Modbus actor takes one frame out of each span, from its first byte: what
\* is no head, or a head with nothing behind it, is reported and dropped.
IsHead(p) == p.part = "head"
ServeHead ==
  /\ From("head")
  /\ IF len > 1 /\ IsHead(conns[span].data[0])
     THEN /\ pc' = "tail" /\ req' = conns[span].data[0].of
          /\ UNCHANGED <<pass, idx, n, span, len, ghosts>>
     ELSE Ends
  /\ UNCHANGED <<lwip, list, tcpip, work, wait, fault>>
\* It executes what the head and the bytes behind it say.
ServeTail ==
  /\ From("tail")
  /\ LET tail == conns[span].data[1] IN
       IF IsHead(tail) \/ tail = NoPart
       THEN Ends /\ UNCHANGED <<executed, mixed>>
       ELSE /\ pc' = "write" /\ UNCHANGED <<locals, ghosts>>
            /\ executed' = executed \cup ({req} \cap {tail.of})
            /\ mixed' = mixed \cup ({req} \ {tail.of})
  /\ UNCHANGED <<lwip, list, tcpip, cur_client, answered, refused, wait, fault>>

\* write_bytes: tcp_write to the pcb that is at cur_client now, which lwIP may
\* refuse: that is logged.
MutantNewestClient == conns[At(cur_size - 1)].client_socket
Addressee   == conns[At(cur_client)].client_socket
ReachesPeer == Addressee \in Pcbs /\ owner[Addressee] = req[1]
WriteBytes ==
  /\ From("write") /\ Ends
  /\ \/ /\ answered' = IF ReachesPeer THEN [answered EXCEPT ![req[1]] = req[2]] ELSE answered
        /\ UNCHANGED refused
     \/ refused' = refused \cup {req} /\ UNCHANGED answered
  /\ cur_client' = -1
  /\ UNCHANGED <<lwip, list, tcpip, executed, mixed, wait, fault>>

-----------------------------------------------------------------------------
Peers    == \E p \in Pcbs : Accept(p) \/ Recv(p) \/ PeerClose(p) \/ Poll(p) \/ Err(p)
Callbacks == FillEntry \/ CountEntry \/ Load \/ StoreData \/ StoreSize \/ Notify \/ CopyCell \/ CopySize
Server   == \/ StartRead \/ ScanHit \/ ScanMiss \/ Span \/ Clear \/ Arm \/ Take \/ Timeout
            \/ Nothing \/ ServeHead \/ ServeTail \/ WriteBytes
Next     == Peers \/ Callbacks \/ Server

\* The scheduler runs both threads and the task's 1000 ms wait ends; peers owe
\* nothing.
Spec == Init /\ [][Next]_vars /\ WF_vars(Server) /\ WF_vars(Callbacks)

-----------------------------------------------------------------------------
(* Properties.                                                             *)

\* Slot accounting (tcp_server_result, tcp_server_err).  A session that ends
\* by a close or a poll gives back exactly one slot, even when its pcb address
\* is listed twice; a session the peer resets never gives one back, because
\* tcp_server_err searches the list for a null socket.
SlotsAccounted ==
  cpc = "idle" => cur_size = Cardinality(Open) + Cardinality(resets)

\* Between callbacks every open session is in the list, whatever was moved by
\* swap-removal and whatever stale entries share its address: tcp_server_recv
\* finds a buffer.
OpenIsListed == cpc = "idle" => \A p \in Open : Listed(p)

\* Wake-up (read_bytes, tcp_server_recv).  When the server task sleeps and no
\* notification is pending, nor a recv callback under way that will send one, no
\* listed buffer holds data, unless a connection was moved across the scan.
\* (The code sets the handle after its first scan and rescans after it.)
Filling(i) == cpc = "fill" /\ entry = i   \* counted, but not yet written
Unserved   == \E i \in Index : i < cur_size /\ conns[i].size > 0 /\ ~Filling(i)
Notifies == notified \/ cpc \in {"load", "store", "data", "size", "notify"}
NoLostWakeup ==
  pc = "take" /\ ~Notifies /\ fault = "none" /\ Unserved => skipped

\* Routing (write_bytes).  What is about to be written goes to the session
\* whose request is answered, unless the served slot was removed or refilled
\* since read_bytes took it.  A requester that has ended, whose request a stale
\* entry kept, is answered to nobody or to a later session on its address; but
\* only a reset leaves such an entry.
ReplyToRequester ==
  pc = "write" /\ ~moved /\ (Live(req[1]) \/ resets = {}) => ReachesPeer

\* The head of one request is executed with the tail of another only if
\* one of the two threads used a buffer while the other did.
NothingInvented == mixed \subseteq torn \/ everMoved

\* With clients that wait for their answers no request is executed twice, whole
\* or mixed, unless a slot was refilled while it was being served, or a session had been
\* reset: its stale entry then receives the data of the next session on the
\* same address, possibly while the stale request is being served.
ExecutedOnce ==
  [][ServeTail /\ pc' = "write" /\ ~everMoved /\ resets = {} => req \notin executed \cup mixed]_vars

\* More than that: until one of the two happens the transport, its callbacks
\* and the task are, for such clients, a service that takes one request of a
\* session at a time, executes it once while the session is open, and then
\* answers that session with it, whatever list operations of other sessions
\* come between: RequestService.
OpenSessions == {owner[p] : p \in Open}
InHand       == IF pc = "write" THEN req ELSE NoReq
Disturbed    == everMoved \/ resets # {}
Service == INSTANCE RequestService WITH
  begun <- nsess, open <- OpenSessions, received <- sent, serving <- InHand,
  disturbed <- Disturbed, Idle <- NoReq, Numbers <- 1 .. Window
IsRequestService == Service!Spec

\* A request that was received is answered, or its session ends, unless the
\* task read its buffer while it came or lwIP refused the answer, and under the
\* same two provisos, or the program has faulted.
Waits(s) == answered[s] < sent[s]
Lost(s)  == <<s, sent[s]>> \in torn \cup refused
RequestAnswered ==
  \A s \in Sessions :
    Waits(s) ~> ~Waits(s) \/ Lost(s) \/ ~Live(s) \/ Disturbed \/ fault # "none"
=============================================================================
