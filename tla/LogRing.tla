------------------------------- MODULE LogRing -------------------------------
(***************************************************************************)
(* The log (include/log_storage.h on the static_ring_buffer of             *)
(* include/static_types.h).  Every task and the tcpip thread log through   *)
(* one ring, and the page /logs (include/webserver.h) and the USB console  *)
(* iterate over it; nothing is locked.  A push is cut at its stores to the *)
(* indices and before the caller fills the entry, a reader at its reads.   *)
(*                                                                         *)
(* An entry is its number in the order of the pushes, 0 when its slot was  *)
(* never filled.  Pushes below cur_severity return without any effect and  *)
(* are no steps; severity and text of an entry are not told apart.         *)
(***************************************************************************)
EXTENDS Integers, Sequences

CONSTANTS
  Loggers,      \* threads that log
  Size,         \* MAX_LOGS: slots of the ring (128)
  PageRoom,     \* entries that fit the response buffer; print_errors goes on
                \* after that, but append_formatted adds nothing more
  MaxPushes     \* bound: pushes in one behaviour

ASSUME LogAssumption == Size \in Nat \ {0} /\ PageRoom \in Nat /\ MaxPushes \in Nat

Slot   == 0 .. Size - 1
Entry  == 0 .. MaxPushes
Next1(i) == (i + 1) % Size

VARIABLES
  storage, cur_start, cur_write, full,   \* static_ring_buffer
  npush,        \* pushes begun
  lpc,          \* logger -> the next step of its push
  push,         \* logger -> its entry, and the indices its push has read
  raced,        \* a push met the index stores of another, or its unfilled slot
  rpc,          \* next step of the reader
  cur, last, first,  \* its iterator, the end it compares with, and `_start`
  page,         \* entries printed
  held,         \* entries in the ring when it began
  disturbed     \* it met a push that drops an entry, or that makes the ring full

ringVars   == <<storage, cur_start, cur_write, full>>
pushVars   == <<npush, lpc, push, raced>>
readerVars == <<rpc, cur, last, first, page, held, disturbed>>
logVars    == <<ringVars, pushVars, readerVars>>

LogTypeOK ==
  /\ storage \in [Slot -> Entry] /\ cur_start \in Slot /\ cur_write \in Slot /\ full \in BOOLEAN
  /\ npush \in Entry /\ lpc \in [Loggers -> {"idle", "start", "write", "full", "fill"}]
  /\ push \in [Loggers -> [n : Entry, w : Slot, s : Slot, drops : BOOLEAN]]
  /\ raced \in BOOLEAN
  /\ rpc \in {"idle", "end", "print"} /\ cur \in Slot /\ last \in Slot /\ first \in BOOLEAN
  /\ page \in Seq(Entry) /\ Len(page) <= PageRoom /\ Len(page) <= Size
  /\ held \in 0 .. Size /\ disturbed \in BOOLEAN

NoPush == [n |-> 0, w |-> 0, s |-> 0, drops |-> FALSE]

LogInit ==
  /\ storage = [i \in Slot |-> 0] /\ cur_start = 0 /\ cur_write = 0 /\ full = FALSE
  /\ npush = 0 /\ lpc = [p \in Loggers |-> "idle"] /\ raced = FALSE
  /\ push = [p \in Loggers |-> NoPush]
  /\ rpc = "idle" /\ cur = 0 /\ last = 0 /\ first = FALSE
  /\ page = <<>> /\ held = 0 /\ disturbed = FALSE

-----------------------------------------------------------------------------
(* static_ring_buffer::push, and what log_storage's callers do with it.    *)

IndexSteps == {"start", "write", "full"}

\* Logger p is about to take the slot another has not filled, or to read
\* indices another has not stored.
Meets(p) ==
  \E q \in Loggers \ {p} :
    \/ lpc[q] \in IndexSteps
    \/ lpc[q] = "fill" /\ push[q].w = cur_write

\* The indices are read; a full ring gives up its oldest entry.
MutantKeepsOldest(w, s) == s
NewStart(w, s) == IF s = w /\ full THEN Next1(s) ELSE s
PushRead(p) ==
  /\ lpc[p] = "idle" /\ npush < MaxPushes
  /\ npush' = npush + 1
  /\ LET s == NewStart(cur_write, cur_start) IN
       /\ push' = [push EXCEPT ![p] = [n |-> npush + 1, w |-> cur_write, s |-> s, drops |-> full]]
       /\ lpc' = [lpc EXCEPT ![p] = IF s # cur_start THEN "start" ELSE "write"]
  /\ raced' = (raced \/ Meets(p)) /\ disturbed' = (disturbed \/ full)
  /\ UNCHANGED <<ringVars, rpc, cur, last, first, page, held>>

PushStep(p, from, to) ==
  /\ lpc[p] = from /\ lpc' = [lpc EXCEPT ![p] = to]
  /\ push' = IF to = "idle" THEN [push EXCEPT ![p] = NoPush] ELSE push
  /\ UNCHANGED <<npush, raced, readerVars>>
PushStart(p) ==
  /\ PushStep(p, "start", "write")
  /\ cur_start' = push[p].s
  /\ UNCHANGED <<storage, cur_write, full>>
MutantWriteUnwrapped(w) == w + 1
WriteAfter(w) == Next1(w)
PushWrite(p) ==
  /\ PushStep(p, "write", "full")
  /\ cur_write' = WriteAfter(push[p].w)
  /\ UNCHANGED <<storage, cur_start, full>>
PushFull(p) ==
  /\ PushStep(p, "full", "fill")
  /\ full' = (push[p].s = Next1(push[p].w))
  /\ UNCHANGED <<storage, cur_start, cur_write>>
\* The caller fills the entry that push returned: its severity and text.
MutantFillsCurrent(p) == cur_write
FilledSlot(p) == push[p].w
Fill(p) ==
  /\ PushStep(p, "fill", "idle")
  /\ storage' = [storage EXCEPT ![FilledSlot(p)] = push[p].n]
  /\ UNCHANGED <<cur_start, cur_write, full>>

Logger(p) == PushRead(p) \/ PushStart(p) \/ PushWrite(p) \/ PushFull(p) \/ Fill(p)

-----------------------------------------------------------------------------
(* log_storage::print_errors: a range-based for over the ring.             *)

RingSize == IF full THEN Size ELSE (cur_write - cur_start) % Size

Begin ==
  /\ rpc = "idle" /\ rpc' = "end"
  /\ cur' = cur_start /\ first' = TRUE /\ page' = <<>> /\ held' = RingSize
  /\ disturbed' = \E p \in Loggers : lpc[p] # "idle" /\ push[p].drops
  /\ UNCHANGED <<ringVars, pushVars, last>>

MutantEndsBefore == (cur_write + Size - 1) % Size
EndOfRing == cur_write
End ==
  /\ rpc = "end" /\ rpc' = "print"
  /\ last' = EndOfRing
  /\ UNCHANGED <<ringVars, pushVars, cur, first, page, held, disturbed>>

\* iterator::operator==: it reads `full` anew at each comparison.
AtEnd == (~full \/ ~first) /\ cur = last

MutantForgetsStart == cur' = Next1(cur) /\ first' = first
Advance == cur' = Next1(cur) /\ first' = FALSE
PrintEntry ==
  /\ rpc = "print" /\ ~AtEnd
  /\ page' = IF Len(page) < PageRoom THEN Append(page, storage[cur]) ELSE page
  /\ Advance
  /\ UNCHANGED <<ringVars, pushVars, rpc, last, held, disturbed>>
Finish ==
  /\ rpc = "print" /\ AtEnd /\ rpc' = "idle"
  /\ disturbed' = (disturbed \/ \E p \in Loggers : lpc[p] = "full")
  /\ cur' = 0 /\ last' = 0 /\ first' = FALSE
  /\ UNCHANGED <<ringVars, pushVars, page, held>>

Reader == End \/ PrintEntry \/ Finish

-----------------------------------------------------------------------------
LogNext == Begin \/ Reader \/ \E p \in Loggers : Logger(p)

LogSpec == LogInit /\ [][LogNext]_logVars /\ WF_logVars(Reader)

-----------------------------------------------------------------------------
(* Properties.                                                             *)

Smaller(a, b) == IF a < b THEN a ELSE b

\* "A circular buffer to hold all errors from the past [which] overwrites old
\* errors": between pushes the ring is the newest entries, oldest first from
\* begin(), but for those still to be filled, as long as no push met another.
RingIsNewest ==
  ~raced /\ (\A p \in Loggers : lpc[p] \notin IndexSteps) =>
    /\ RingSize = Smaller(npush, Size)
    /\ \A i \in 0 .. RingSize - 1 :
         \/ storage[(cur_start + i) % Size] = npush - RingSize + 1 + i
         \/ \E p \in Loggers : lpc[p] = "fill" /\ push[p].n = npush - RingSize + 1 + i

\* A page shows consecutive entries in the order they were pushed, whatever is
\* pushed while it is printed, unless a push drops an entry meanwhile.
PageInOrder ==
  ~raced /\ ~disturbed =>
    \A i, j \in DOMAIN page : page[i] # 0 /\ page[j] # 0 => page[j] - page[i] = j - i

\* A finished page has every entry that was in the ring when it began, as far
\* as there is room, unless such a push was met, or the one that makes the ring
\* full: between its last two stores the full ring looks empty.
PageComplete ==
  rpc = "idle" /\ ~raced /\ ~disturbed => Len(page) >= Smaller(PageRoom, held)

\* Printing ends, however pushes interleave with it and even if they race.
PageEnds == rpc # "idle" ~> rpc = "idle"
=============================================================================
