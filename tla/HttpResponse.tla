----------------------------- MODULE HttpResponse -----------------------------
(***************************************************************************)
(* How a handler's response leaves the webserver: the res_ functions of a  *)
(* message_buffer and send_data (include/tcp_server/tcp_server.h), called  *)
(* by the handlers of include/webserver.h and by process_request, all in   *)
(* lwIP's tcpip thread within the recv callback of the request.            *)
(*                                                                         *)
(* The units of a response are numbered in the order the handler gives     *)
(* them: the head (status line and headers), the empty line, the body.     *)
(* Handlers come in three kinds: those with a page, whose length is known; *)
(* those that format values between two pieces and take the length of the  *)
(* body view; and the log, which formats into the buffer and adds up what  *)
(* went in.  The second kind is shorter than the buffer by far.            *)
(***************************************************************************)
EXTENDS Integers, Sequences

CONSTANTS
  BufSize,      \* buf_size: units that a response buffer holds (4096)
  MaxChunks,    \* pieces that one res_write_body makes of a body (32)
  Retries,      \* tries that send_data has for a frame (10)
  SndBuf,       \* units that lwIP takes of an unacknowledged session, at most
  Heads,        \* lengths of heads
  Bodies        \* lengths of bodies

ASSUME BufferAssumption ==
  BufSize \in Nat /\ BufSize > 2 /\ MaxChunks \in Nat \ {0} /\ Retries \in Nat \ {0}
  /\ SndBuf \in Nat /\ Bodies \subseteq Nat
\* Heads leave room in the buffer for the empty line.
ASSUME HeadAssumption == Heads \subseteq 1 .. BufSize - 2

Frame == BufSize - 1

VARIABLES
  kind, head, body,  \* the handler's response: its kind and lengths
  hpc,          \* next step of the handler
  buffer,       \* static_string buffer
  on_stream_out,
  bodyAt,       \* where the body view begins, and ...
  bodyEmpty,    \* ... body.empty()
  left, chunk,  \* res_write_body: units still to append, and loops so far
  given,        \* units appended so far
  declared,     \* Content-Length
  data,         \* send_data: what is left of the frame,
  retry,        \* tries left,
  sndbuf,       \* tcp_sndbuf: what lwIP takes before the next acknowledgement
  sent,         \* units that lwIP took
  closed        \* send_data has closed the session

handlerVars == <<kind, head, body, declared>>
bufferVars  == <<buffer, on_stream_out, bodyAt, bodyEmpty, left, chunk, given>>
sendVars    == <<data, retry, sndbuf, sent, closed>>
responseVars == <<hpc, handlerVars, bufferVars, sendVars>>

Lengths == Nat
ResponseTypeOK ==
  /\ kind \in {"page", "values", "log"} /\ head \in Lengths /\ body \in Lengths
  /\ hpc \in {"idle", "open", "append", "format", "close", "final", "frame", "last", "done"}
  /\ buffer \in Seq(Nat) /\ Len(buffer) <= BufSize /\ on_stream_out \in BOOLEAN
  /\ bodyAt \in 0 .. BufSize /\ bodyEmpty \in BOOLEAN
  /\ left \in Nat /\ chunk \in 0 .. MaxChunks /\ given \in Nat /\ declared \in Int
  /\ data \in Seq(Nat) /\ Len(data) <= BufSize
  /\ retry \in 0 .. Retries /\ sndbuf \in 0 .. SndBuf
  /\ sent \in Seq(Nat) /\ closed \in BOOLEAN

ResponseInit ==
  /\ kind = "page" /\ head = 0 /\ body = 0 /\ declared = 0 /\ hpc = "idle"
  /\ buffer = <<>> /\ on_stream_out = FALSE /\ bodyAt = 0 /\ bodyEmpty = TRUE
  /\ left = 0 /\ chunk = 0 /\ given = 0
  /\ data = <<>> /\ retry = Retries /\ sndbuf = SndBuf /\ sent = <<>> /\ closed = FALSE

-----------------------------------------------------------------------------
(* Building the response.                                                  *)

\* The next n units, and what append leaves out of them for want of room.
Units(n) == [i \in 1 .. n |-> given + i]
Room     == BufSize - Len(buffer)
Fitting(n) == IF n <= Room THEN n ELSE Room
Handler(from, to) == hpc = from /\ hpc' = to

\* process_request takes a buffer, which was cleared (so the warnings of the
\* res_ functions do not apply); the handler sets the status line and adds its
\* headers.  Earlier responses may not be acknowledged yet.
StartHead(k, h, b) ==
  /\ Handler("idle", "open")
  /\ k = "values" => h + b + 3 < Frame
  /\ kind' = k /\ head' = h /\ body' = b /\ declared' = b
  /\ buffer' = [i \in 1 .. h |-> i] /\ given' = h
  /\ sndbuf' \in 0 .. SndBuf
  /\ UNCHANGED <<on_stream_out, bodyAt, bodyEmpty, left, chunk, data, retry, sent, closed>>

\* message_buffer::clear.
MutantKeepsStream ==
  /\ buffer' = <<>> /\ on_stream_out' = on_stream_out /\ bodyAt' = 0 /\ bodyEmpty' = TRUE
  /\ left' = 0 /\ chunk' = 0 /\ given' = 0
Clear ==
  /\ buffer' = <<>> /\ on_stream_out' = FALSE /\ bodyAt' = 0 /\ bodyEmpty' = TRUE
  /\ left' = 0 /\ chunk' = 0 /\ given' = 0

\* res_write_body, up to its loop, for a piece of n units.
WriteBody(n) ==
  LET line == IF bodyEmpty /\ ~on_stream_out THEN 1 ELSE 0 IN
    /\ buffer' = buffer \o Units(line) /\ given' = given + line
    /\ bodyAt' = IF bodyEmpty THEN Len(buffer) + line ELSE bodyAt
    /\ left' = n /\ chunk' = 0
    /\ UNCHANGED <<on_stream_out, bodyEmpty, handlerVars, sendVars>>
FirstPiece == CASE kind = "page" -> body [] kind = "values" -> 1 [] OTHER -> 0
OpenBody  == Handler("open", "append") /\ WriteBody(FirstPiece)
CloseBody == Handler("close", "append") /\ WriteBody(1)

\* One loop: a piece that is too long fills the frame, and a full frame is sent.
AppendChunk ==
  /\ hpc = "append" /\ left > 0 /\ chunk < MaxChunks
  /\ LET m == Frame - Len(buffer)
         n == IF left > m THEN m ELSE left IN
       /\ buffer' = buffer \o Units(n) /\ given' = given + n /\ left' = left - n
       /\ on_stream_out' = (on_stream_out \/ left > m)
       /\ bodyAt' = IF left > m THEN 0 ELSE bodyAt
  /\ chunk' = chunk + 1
  /\ IF Len(buffer') = Frame THEN hpc' = "frame" /\ data' = buffer'
                             ELSE hpc' = "append" /\ data' = data
  /\ UNCHANGED <<bodyEmpty, handlerVars, retry, sndbuf, sent, closed>>

\* The body view is set; /measurements and /discovered_wifis take their
\* length from it when they have closed their body.
EndBody ==
  /\ hpc = "append" /\ (left = 0 \/ chunk = MaxChunks)
  /\ bodyEmpty' = (bodyAt = Len(buffer))
  /\ LET opened == kind = "page" \/ given > head + 2 IN
       /\ hpc' = IF opened THEN "final" ELSE "format"
       /\ declared' = IF opened /\ kind = "values" THEN Len(buffer) - bodyAt ELSE declared
  /\ UNCHANGED <<buffer, on_stream_out, bodyAt, left, chunk, given, kind, head, body, sendVars>>

\* append_formatted into the buffer; /logs adds up what it returns.
Format ==
  /\ Handler("format", IF kind = "values" THEN "close" ELSE "final")
  /\ buffer' = buffer \o Units(Fitting(body)) /\ given' = given + Fitting(body)
  /\ declared' = Fitting(body)
  /\ UNCHANGED <<on_stream_out, bodyAt, bodyEmpty, left, chunk, kind, head, body, sendVars>>

\* process_request sends what the handler left in the buffer.
Last ==
  /\ Handler("final", "last") /\ data' = buffer
  /\ UNCHANGED <<handlerVars, bufferVars, retry, sndbuf, sent, closed>>

-----------------------------------------------------------------------------
(* send_data.  The tcpip thread runs it, so nothing is acknowledged        *)
(* meanwhile.  With no room left tcp_write takes zero units of an open     *)
(* session and reports success: the loop then goes on for ever, without a  *)
(* change of state.                                                        *)

Sending == hpc \in {"frame", "last"}
Taken   == IF sndbuf < Len(data) THEN sndbuf ELSE Len(data)

MutantUntilNull == FALSE
LoopEnds == data = <<>>

\* send_data returns.  Both callers clear the buffer after a frame, and none
\* looks at what send_data says.
LeaveSend ==
  /\ hpc' = IF hpc = "frame" THEN "append" ELSE "done"
  /\ buffer' = <<>> /\ data' = <<>> /\ retry' = Retries
  /\ UNCHANGED <<on_stream_out, bodyAt, bodyEmpty, left, chunk, given, handlerVars>>

TakeUnits == sent' = sent \o SubSeq(data, 1, Taken) /\ sndbuf' = sndbuf - Taken
Write ==
  /\ Sending /\ ~closed /\ Taken > 0 /\ TakeUnits
  /\ data' = SubSeq(data, Taken + 1, Len(data))
  /\ UNCHANGED <<hpc, handlerVars, bufferVars, retry, closed>>
\* lwIP is out of memory, or the pcb was closed: tcp_write refuses.  The thread
\* sleeps 10 ms and tries again, and in the end tcp_server_result closes the
\* session.  The handler knows nothing of it: it goes on to fill frames and to
\* send them to the closed pcb.
Refusable == Sending /\ (Taken > 0 \/ (closed /\ data # <<>>))
Refused ==
  /\ Refusable /\ retry > 1
  /\ retry' = retry - 1
  /\ UNCHANGED <<hpc, handlerVars, bufferVars, data, sndbuf, sent, closed>>
GiveUp == Refusable /\ retry = 1 /\ LeaveSend /\ closed' = TRUE /\ UNCHANGED <<sndbuf, sent>>
\* tcp_output fails, after any of the writes: the session is closed as well.
OutputFailed == Sending /\ ~closed /\ data # <<>> /\ TakeUnits /\ LeaveSend /\ closed' = TRUE
Sent == Sending /\ LoopEnds /\ LeaveSend /\ UNCHANGED <<sndbuf, sent, closed>>

\* The buffer is given back, and the peer acknowledges what it likes.
Done ==
  /\ Handler("done", "idle") /\ Clear
  /\ kind' = "page" /\ head' = 0 /\ body' = 0 /\ declared' = 0
  /\ data' = <<>> /\ retry' = Retries /\ sndbuf' = SndBuf /\ sent' = <<>> /\ closed' = FALSE

-----------------------------------------------------------------------------
Tcpip == OpenBody \/ CloseBody \/ AppendChunk \/ EndBody \/ Format \/ Last
         \/ Write \/ Refused \/ GiveUp \/ Sent \/ Done
ResponseNext ==
  \/ \E k \in {"page", "values", "log"}, h \in Heads, b \in Bodies : StartHead(k, h, b)
  \/ Tcpip \/ OutputFailed

\* The tcpip thread runs; that tcp_output fails is not to be relied on.
ResponseSpec == ResponseInit /\ [][ResponseNext]_responseVars /\ WF_responseVars(Tcpip)

-----------------------------------------------------------------------------
(* Properties.                                                             *)

\* Units of the body that have been sent.
BodySent == Len(sent) - head - 1
Whole == CASE kind = "page" -> body [] kind = "values" -> body + 2 [] OTHER -> body

\* Longer than all frames res_write_body makes, of which the first may be empty.
Overlong == kind = "page" /\ body > (MaxChunks - 1) * Frame
\* The buffer had no room for more of the log.
Truncated == kind = "log" /\ Len(sent) = BufSize

\* What was sent is the beginning of the response, in order and each unit once,
\* even if send_data closed the session in the middle and the handler went on.
\* A response that was not cut short has one empty line between head and body
\* and the length it declares, whatever frames it was cut into.  Only a page of
\* more frames than res_write_body makes loses its end, and the log what its
\* buffer cannot hold.
ResponseWhole ==
  hpc = "done" =>
    /\ sent = [i \in 1 .. Len(sent) |-> i]
    /\ closed \/ BodySent = declared \/ Overlong
    /\ closed \/ BodySent = Whole \/ Overlong \/ Truncated

\* send_data comes back, sent or closed ("give 10 retries"), unless lwIP has no
\* room left for the open session: then the tcpip thread never leaves the loop.
SendReturns == Sending ~> ~Sending \/ (sndbuf = 0 /\ ~closed)
=============================================================================
