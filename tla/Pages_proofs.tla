----------------------------- MODULE Pages_proofs -----------------------------
(***************************************************************************)
(* Proofs about the log's ring and the framing of responses, and about the *)
(* instance that runs them and the meter bridge in turn.                   *)
(***************************************************************************)
EXTENDS MCPages, MeterBridge_proofs

-----------------------------------------------------------------------------
(* Arithmetic of the ring.                                                 *)

LEMMA DivMod ==
  ASSUME NEW a \in Int, NEW M \in Nat \ {0}
  PROVE  a = M * (a \div M) + (a % M) /\ (a % M) \in 0 .. M - 1 /\ (a \div M) \in Int
BY SMT

LEMMA ModUnique ==
  ASSUME NEW k \in Int, NEW M \in Nat \ {0}, NEW r \in 0 .. M - 1
  PROVE  (k * M + r) % M = r
BY SMT

\* Where the push after k others writes.
Place(k) == k % Size

LEMMA PlaceShift ==
  ASSUME NEW k \in Nat, NEW i \in Nat
  PROVE  (Place(k) + i) % Size = Place(k + i) /\ Place(k) \in Slot
<1> DEFINE q == k \div Size
           a == k + i
           d == a \div Size
           r == a % Size
<1>0. Size \in Nat \ {0} /\ k \in Int /\ a \in Int
  BY LogAssumption
<1>1. k = Size * q + Place(k) /\ Place(k) \in 0 .. Size - 1 /\ q \in Int
  BY <1>0, DivMod, Zenon DEF Place
<1>2. a = Size * d + r /\ r \in 0 .. Size - 1 /\ d \in Int
  BY <1>0, DivMod, Zenon
<1> HIDE DEF q, d, r
<1>3. Place(k) + i = (d - q) * Size + r
  BY <1>0, <1>1, <1>2
<1>4. d - q \in Int
  BY <1>1, <1>2
<1>5. ((d - q) * Size + r) % Size = r
  BY <1>0, <1>2, <1>4, ModUnique, Zenon
<1> QED
  BY <1>1, <1>3, <1>5 DEF Place, Slot, r

\* Places repeat after Size pushes, and not before.
LEMMA PlaceSmall == ASSUME NEW k \in Nat, k < Size PROVE Place(k) = k
<1>1. k \in 0 .. Size - 1 /\ Size \in Nat \ {0} /\ 0 \in Int
  BY LogAssumption
<1>2. (0 * Size + k) % Size = k
  BY <1>1, ModUnique, Zenon
<1> QED
  BY <1>1, <1>2 DEF Place

LEMMA PlaceRepeats == ASSUME NEW k \in Nat PROVE Place(k + Size) = Place(k)
<1>0. Size \in Nat \ {0} /\ k \in Int /\ k + Size \in Int
  BY LogAssumption
<1> DEFINE q == k \div Size
<1>1. k = Size * q + Place(k) /\ Place(k) \in 0 .. Size - 1 /\ q \in Int
  BY <1>0, DivMod, Zenon DEF Place
<1> HIDE DEF q
<1>2. k + Size = (q + 1) * Size + Place(k) /\ q + 1 \in Int
  BY <1>0, <1>1
<1>3. ((q + 1) * Size + Place(k)) % Size = Place(k)
  BY <1>0, <1>1, <1>2, ModUnique, Zenon
<1> QED
  BY <1>2, <1>3 DEF Place

LEMMA PlaceDistinct ==
  ASSUME NEW a \in Nat, NEW b \in Nat, a < b, b < a + Size PROVE Place(a) # Place(b)
<1>0. Size \in Nat \ {0} /\ a \in Int /\ b \in Int
  BY LogAssumption
<1> DEFINE q == a \div Size
           e == b \div Size
<1>1. a = Size * q + Place(a) /\ Place(a) \in 0 .. Size - 1 /\ q \in Int
  BY <1>0, DivMod, Zenon DEF Place
<1>2. b = Size * e + Place(b) /\ Place(b) \in 0 .. Size - 1 /\ e \in Int
  BY <1>0, DivMod, Zenon DEF Place
<1> HIDE DEF q, e
<1> SUFFICES ASSUME Place(a) = Place(b) PROVE FALSE
  OBVIOUS
<1>3. b - a = Size * (e - q)
  BY <1>0, <1>1, <1>2
<1>4. CASE e - q <= 0
  <2>1. Size * (e - q) <= 0
    BY <1>0, <1>1, <1>2, <1>4
  <2> QED
    BY <1>3, <2>1
<1>5. CASE e - q >= 1
  <2>1. Size * (e - q) >= Size
    BY <1>0, <1>1, <1>2, <1>5
  <2> QED
    BY <1>0, <1>3, <2>1
<1> QED
  BY <1>1, <1>2, <1>4, <1>5

LEMMA Next1Place == ASSUME NEW k \in Nat PROVE Next1(Place(k)) = Place(k + 1)
  BY PlaceShift DEF Next1

LEMMA Next1Is ==
  ASSUME NEW i \in Slot
  PROVE  Next1(i) \in Slot /\ Next1(i) = IF i = Size - 1 THEN 0 ELSE i + 1
<1>0. Size \in Nat \ {0} /\ i \in Nat /\ i < Size
  BY LogAssumption DEF Slot
<1>1. Place(i) = i /\ Next1(Place(i)) = Place(i + 1)
  BY <1>0, PlaceSmall, Next1Place
<1>2. CASE i < Size - 1
  <2>1. Place(i + 1) = i + 1
    BY <1>0, <1>2, PlaceSmall
  <2> QED
    BY <1>0, <1>1, <1>2, <2>1 DEF Slot
<1>3. CASE i = Size - 1
  <2>1. Place(0 + Size) = Place(0) /\ Place(0) = 0
    BY <1>0, PlaceRepeats, PlaceSmall
  <2> QED
    BY <1>0, <1>1, <1>3, <2>1 DEF Slot
<1> QED
  BY <1>0, <1>2, <1>3

-----------------------------------------------------------------------------
(* Types of the log: a page has at most one entry per slot, since every    *)
(* step of the reader brings it nearer to the end it compares with.        *)

Steps  == {"idle", "start", "write", "full", "fill"}
Pushes == [n : Entry, w : Slot, s : Slot, drops : BOOLEAN]

Left2Print == IF cur = last THEN IF first THEN Size ELSE 0
              ELSE IF last > cur THEN last - cur ELSE last - cur + Size
PageBound ==
  /\ rpc = "end" => page = <<>> /\ first
  /\ rpc = "print" => Len(page) + Left2Print <= Size

LogTyped == LogTypeOK /\ PageBound

LEMMA LogTypedInit == LogInit => LogTyped
<1> SUFFICES ASSUME LogInit PROVE LogTyped
  OBVIOUS
<1>1. 0 \in Slot /\ 0 \in Entry /\ 0 \in 0 .. Size
  BY LogAssumption DEF Slot, Entry
<1>2. NoPush \in Pushes
  BY <1>1 DEF NoPush, Pushes
<1>3. storage \in [Slot -> Entry] /\ push \in [Loggers -> Pushes] /\ lpc \in [Loggers -> Steps]
  BY <1>1, <1>2 DEF LogInit, Steps
<1>4. page \in Seq(Entry) /\ Len(page) = 0
  BY DEF LogInit
<1>5. /\ rpc = "idle" /\ cur = 0 /\ last = 0 /\ cur_start = 0 /\ cur_write = 0
      /\ npush = 0 /\ held = 0
  BY DEF LogInit
<1>6. Len(page) <= PageRoom /\ Len(page) <= Size
  BY <1>4, LogAssumption
<1>7. first \in BOOLEAN /\ full \in BOOLEAN /\ raced \in BOOLEAN /\ disturbed \in BOOLEAN
  BY Zenon DEF LogInit
<1>8. rpc \in {"idle", "end", "print"}
  BY <1>5
<1>9. LogTypeOK
  BY <1>1, <1>3, <1>4, <1>5, <1>6, <1>7, <1>8, Zenon DEF LogTypeOK, Pushes, Steps
<1> QED
  BY <1>5, <1>9 DEF LogTyped, PageBound

\* The steps of a push leave the reader alone, but that it may be disturbed.
LEMMA PushTyped ==
  ASSUME LogTyped, NEW p \in Loggers, Logger(p)
  PROVE  LogTyped'
<1> USE DEF LogTyped
<1>0. /\ storage \in [Slot -> Entry] /\ cur_start \in Slot /\ cur_write \in Slot
      /\ npush \in Entry /\ lpc \in [Loggers -> Steps] /\ push \in [Loggers -> Pushes]
  BY DEF LogTypeOK, Steps, Pushes
<1>a. push[p] \in Pushes
  BY <1>0
<1>b. push[p].n \in Entry /\ push[p].w \in Slot /\ push[p].s \in Slot
  BY <1>a DEF Pushes
<1>1. /\ rpc' = rpc /\ cur' = cur /\ last' = last /\ first' = first /\ page' = page
      /\ held' = held
  BY DEF Logger, PushRead, PushStart, PushWrite, PushFull, Fill, PushStep, readerVars
<1>2. PageBound'
  BY <1>1 DEF PageBound, Left2Print
<1>3. ASSUME NEW st \in Steps, lpc' = [lpc EXCEPT ![p] = st] PROVE lpc' \in [Loggers -> Steps]
  BY <1>0, <1>3
<1>4. ASSUME NEW e \in Pushes, push' = [push EXCEPT ![p] = e] PROVE push' \in [Loggers -> Pushes]
  BY <1>0, <1>4
<1>5. NoPush \in Pushes
  BY LogAssumption DEF NoPush, Pushes, Slot, Entry
<1>6. CASE PushRead(p)
  <2> DEFINE s == NewStart(cur_write, cur_start)
             e == [n |-> npush + 1, w |-> cur_write, s |-> s, drops |-> full]
  <2>1. s \in Slot
    BY <1>0, Next1Is DEF NewStart
  <2>2. npush' \in Entry /\ npush' = npush + 1
    BY <1>0, <1>6, LogAssumption DEF PushRead, Entry
  <2>3. full \in BOOLEAN
    BY DEF LogTypeOK
  <2>4. e \in Pushes
    BY <1>0, <2>1, <2>2, <2>3 DEF Pushes
  <2>5. push' = [push EXCEPT ![p] = e]
    BY <1>6 DEF PushRead
  <2>6. push' \in [Loggers -> Pushes]
    BY <1>4, <2>4, <2>5
  <2>7. lpc' \in [Loggers -> Steps]
    <3>1. PICK st \in {"start", "write"} : lpc' = [lpc EXCEPT ![p] = st]
      BY <1>6 DEF PushRead
    <3> QED
      BY <1>3, <3>1 DEF Steps
  <2>8. /\ raced' \in BOOLEAN /\ disturbed' \in BOOLEAN /\ full' \in BOOLEAN
    BY <1>6, Zenon DEF PushRead, LogTypeOK, ringVars
  <2>9. storage' = storage /\ cur_start' = cur_start /\ cur_write' = cur_write
    BY <1>6 DEF PushRead, ringVars
  <2> QED
    BY <1>1, <1>2, <2>2, <2>6, <2>7, <2>8, <2>9, Zenon DEF LogTypeOK, Pushes, Steps
<1>7. ASSUME NEW from, NEW to \in Steps, PushStep(p, from, to)
      PROVE  /\ npush' = npush /\ lpc' \in [Loggers -> Steps] /\ push' \in [Loggers -> Pushes]
             /\ raced' \in BOOLEAN /\ disturbed' \in BOOLEAN
  <2>1. raced' \in BOOLEAN /\ disturbed' \in BOOLEAN
    BY <1>7, Zenon DEF PushStep, readerVars, LogTypeOK
  <2>2. push' \in [Loggers -> Pushes]
    BY <1>0, <1>4, <1>5, <1>7 DEF PushStep
  <2> QED
    BY <1>3, <1>7, <2>1, <2>2 DEF PushStep
<1>8. CASE PushStart(p)
  <2>1. storage' = storage /\ cur_write' = cur_write /\ full' = full /\ cur_start' = push[p].s
    BY <1>8 DEF PushStart
  <2>2. full' \in BOOLEAN
    BY <2>1 DEF LogTypeOK
  <2> QED
    BY <1>0, <1>1, <1>2, <1>7, <1>8, <1>b, <2>1, <2>2, Zenon
    DEF PushStart, LogTypeOK, Pushes, Steps
<1>9. CASE PushWrite(p)
  <2>1. storage' = storage /\ cur_start' = cur_start /\ full' = full
        /\ cur_write' = Next1(push[p].w)
    BY <1>9 DEF PushWrite, WriteAfter
  <2>2. cur_write' \in Slot
    BY <1>b, <2>1, Next1Is
  <2>3. full' \in BOOLEAN
    BY <2>1 DEF LogTypeOK
  <2> QED
    BY <1>0, <1>1, <1>2, <1>7, <1>9, <2>1, <2>2, <2>3, Zenon
    DEF PushWrite, LogTypeOK, Pushes, Steps
<1>10. CASE PushFull(p)
  <2>1. storage' = storage /\ cur_start' = cur_start /\ cur_write' = cur_write
    BY <1>10 DEF PushFull
  <2>2. full' \in BOOLEAN
    BY <1>10, Zenon DEF PushFull
  <2> QED
    BY <1>0, <1>1, <1>2, <1>7, <1>10, <2>1, <2>2, Zenon
    DEF PushFull, LogTypeOK, Pushes, Steps
<1>11. CASE Fill(p)
  <2>1. cur_start' = cur_start /\ cur_write' = cur_write /\ full' = full
        /\ storage' = [storage EXCEPT ![FilledSlot(p)] = push[p].n]
    BY <1>11 DEF Fill
  <2>2. storage' \in [Slot -> Entry]
    BY <1>0, <1>b, <2>1
  <2>3. full' \in BOOLEAN
    BY <2>1 DEF LogTypeOK
  <2> QED
    BY <1>0, <1>1, <1>2, <1>7, <1>11, <2>1, <2>2, <2>3, Zenon
    DEF Fill, LogTypeOK, Pushes, Steps
<1> QED
  BY <1>6, <1>8, <1>9, <1>10, <1>11 DEF Logger

LEMMA ReaderTyped ==
  ASSUME LogTyped, Begin \/ Reader
  PROVE  LogTyped'
<1> USE DEF LogTyped
<1>1. /\ storage' = storage /\ cur_start' = cur_start /\ cur_write' = cur_write /\ full' = full
      /\ npush' = npush /\ lpc' = lpc /\ push' = push /\ raced' = raced
  BY DEF Begin, Reader, End, PrintEntry, Finish, ringVars, pushVars
<1>2. ASSUME /\ rpc' \in {"idle", "end", "print"} /\ cur' \in Slot /\ last' \in Slot
             /\ first' \in BOOLEAN /\ page' \in Seq(Entry) /\ Len(page') <= PageRoom
             /\ Len(page') <= Size /\ held' \in 0 .. Size /\ disturbed' \in BOOLEAN
      PROVE  LogTypeOK'
  BY <1>1, <1>2, Zenon DEF LogTypeOK
<1>3. /\ rpc \in {"idle", "end", "print"} /\ cur \in Slot /\ last \in Slot
      /\ first \in BOOLEAN /\ page \in Seq(Entry) /\ Len(page) <= PageRoom
      /\ Len(page) <= Size /\ held \in 0 .. Size /\ disturbed \in BOOLEAN
      /\ cur_start \in Slot /\ cur_write \in Slot /\ storage \in [Slot -> Entry]
  BY DEF LogTypeOK
<1>4. Size \in Nat \ {0} /\ PageRoom \in Nat /\ 0 \in Slot
  BY LogAssumption DEF Slot
<1>5. CASE Begin
  <2>1. rpc' = "end" /\ cur' = cur_start /\ first' = TRUE /\ page' = <<>> /\ last' = last
        /\ held' = RingSize
    BY <1>5 DEF Begin
  <2>2. held' \in 0 .. Size
    <3>1. cur_write - cur_start \in Int
      BY <1>3 DEF Slot
    <3>2. ((cur_write - cur_start) % Size) \in 0 .. Size - 1
      BY <1>4, <3>1, DivMod, Zenon
    <3> QED
      BY <1>4, <2>1, <3>2 DEF RingSize
  <2>3. disturbed' \in BOOLEAN
    BY <1>5, Zenon DEF Begin
  <2>4. page' \in Seq(Entry) /\ Len(page') = 0
    BY <2>1
  <2>5. LogTypeOK'
    BY <1>2, <1>3, <1>4, <2>1, <2>2, <2>3, <2>4
  <2> QED
    BY <2>1, <2>5 DEF PageBound
<1>6. CASE End
  <2>1. /\ rpc = "end" /\ rpc' = "print" /\ last' = cur_write /\ cur' = cur /\ first' = first
        /\ page' = page /\ held' = held /\ disturbed' = disturbed
    BY <1>6 DEF End, EndOfRing
  <2>2. LogTypeOK'
    BY <1>2, <1>3, <2>1
  <2>3. Len(page) = 0
    BY <2>1 DEF PageBound
  <2>4. Left2Print' <= Size
    BY <1>3, <1>4, <2>1 DEF Left2Print, Slot
  <2>5. Left2Print' \in Int
    BY <1>3, <1>4, <2>1 DEF Left2Print, Slot
  <2>6. Len(page') = 0
    BY <2>1, <2>3
  <2>7. Len(page') + Left2Print' <= Size
    BY <2>4, <2>5, <2>6
  <2>8. PageBound'
    BY <2>1, <2>7 DEF PageBound
  <2> QED
    BY <2>2, <2>8
<1>7. CASE PrintEntry
  <2>1. /\ rpc = "print" /\ ~AtEnd /\ rpc' = rpc /\ last' = last /\ held' = held
        /\ disturbed' = disturbed /\ cur' = Next1(cur) /\ first' = FALSE
        /\ page' = IF Len(page) < PageRoom THEN Append(page, storage[cur]) ELSE page
    BY <1>7 DEF PrintEntry, Advance
  <2>2. cur' \in Slot /\ cur' = IF cur = Size - 1 THEN 0 ELSE cur + 1
    BY <1>3, <2>1, Next1Is
  <2>3. storage[cur] \in Entry
    BY <1>3
  <2>4. /\ page' \in Seq(Entry) /\ Len(page') <= Len(page) + 1 /\ Len(page') <= PageRoom
        /\ Len(page') \in Nat /\ Len(page) \in Nat
    BY <1>3, <1>4, <2>1, <2>3
  <2>5. first \/ cur # last
    BY <2>1 DEF AtEnd
  <2>6. Left2Print \in Int /\ Left2Print' = Left2Print - 1
    BY <1>3, <1>4, <2>1, <2>2, <2>5 DEF Left2Print, Slot
  <2>7. Len(page') + Left2Print' <= Size
    BY <1>4, <2>1, <2>4, <2>6 DEF PageBound
  <2>8. Left2Print' >= 0
    BY <1>3, <1>4, <2>1, <2>2 DEF Left2Print, Slot
  <2>9. Left2Print' \in Int /\ Len(page') <= Size
    BY <1>4, <2>4, <2>6, <2>7, <2>8
  <2>10. first' \in BOOLEAN
    BY <2>1, Zenon
  <2>11. LogTypeOK'
    BY <1>2, <1>3, <2>1, <2>2, <2>4, <2>9, <2>10, Zenon
  <2>12. PageBound'
    BY <2>1, <2>7 DEF PageBound
  <2> QED
    BY <2>11, <2>12
<1>8. CASE Finish
  <2>1. /\ rpc' = "idle" /\ cur' = 0 /\ last' = 0 /\ first' = FALSE /\ page' = page /\ held' = held
    BY <1>8 DEF Finish
  <2>2. disturbed' \in BOOLEAN
    BY <1>8, Zenon DEF Finish, LogTypeOK
  <2>3. LogTypeOK'
    BY <1>2, <1>3, <1>4, <2>1, <2>2
  <2> QED
    BY <2>1, <2>3 DEF PageBound
<1> QED
  BY <1>5, <1>6, <1>7, <1>8 DEF Reader

LEMMA LogTypedStep == LogTyped /\ [LogNext]_logVars => LogTyped'
<1> SUFFICES ASSUME LogTyped, [LogNext]_logVars PROVE LogTyped'
  OBVIOUS
<1>1. CASE UNCHANGED logVars
  BY <1>1 DEF logVars, ringVars, pushVars, readerVars, LogTyped, LogTypeOK, PageBound, Left2Print
<1> QED
  BY <1>1, PushTyped, ReaderTyped DEF LogNext

-----------------------------------------------------------------------------
(* The ring holds the newest entries, as long as no push met another.  The *)
(* invariant says what the indices are before, within and after the stores *)
(* of the one push that may be among them, and that every entry pushed     *)
(* within the last Size pushes is in its place or still to be filled.      *)

StartAfter(k) == IF k >= Size THEN Place(k) ELSE 0

Indices(k) ==
  /\ cur_write = Place(k) /\ cur_start = StartAfter(k)
  /\ full <=> k >= Size

Storing(p) == lpc[p] \in IndexSteps

Between(p) ==
  LET k == npush - 1 IN
    /\ push[p].n = npush /\ push[p].s = StartAfter(npush)
    /\ cur_start = IF lpc[p] = "start" THEN StartAfter(k) ELSE StartAfter(npush)
    /\ cur_write = IF lpc[p] = "full" THEN Place(npush) ELSE Place(k)
    /\ full <=> k >= Size

OneStores == \A p, q \in Loggers : Storing(p) /\ Storing(q) => p = q
Pushed ==
  \A p \in Loggers : lpc[p] # "idle" =>
    /\ push[p].n \in 1 .. npush /\ push[p].n > npush - Size
    /\ push[p].w = Place(push[p].n - 1)
Settled == (\A p \in Loggers : ~Storing(p)) => Indices(npush)
Moving  == \A p \in Loggers : Storing(p) => Between(p)
InPlace(n) == \/ storage[Place(n - 1)] = n
              \/ \E p \in Loggers : lpc[p] # "idle" /\ push[p].n = n
Stored == \A n \in 1 .. npush : n > npush - Size => InPlace(n)

Ring   == OneStores /\ Pushed /\ Settled /\ Moving /\ Stored
LogInv == LogTyped /\ (~raced => Ring)

LEMMA StartNext ==
  ASSUME NEW k \in Nat
  PROVE  /\ StartAfter(k + 1) = IF k >= Size THEN Next1(Place(k)) ELSE 0
         /\ StartAfter(k + 1) = Place(k + 1) <=> k + 1 >= Size
<1>0. Size \in Nat \ {0}
  BY LogAssumption
<1>1. Next1(Place(k)) = Place(k + 1)
  BY Next1Place
<1>2. CASE k >= Size
  BY <1>0, <1>1, <1>2 DEF StartAfter
<1>3. CASE k + 1 = Size
  <2>1. Place(0 + Size) = Place(0) /\ Place(0) = 0
    BY <1>0, PlaceRepeats, PlaceSmall
  <2>2. Place(k + 1) = 0
    BY <1>0, <1>3, <2>1
  <2> QED
    BY <1>0, <1>3, <2>2 DEF StartAfter
<1>4. CASE k + 1 < Size
  <2>1. Place(k + 1) = k + 1
    BY <1>0, <1>4, PlaceSmall
  <2> QED
    BY <1>0, <1>4, <2>1 DEF StartAfter
<1> QED
  BY <1>0, <1>2, <1>3, <1>4

LEMMA RingInitial == LogInit => LogInv
<1> SUFFICES ASSUME LogInit PROVE LogInv
  OBVIOUS
<1>0. Size \in Nat \ {0}
  BY LogAssumption
<1>1. Place(0) = 0
  BY <1>0, PlaceSmall
<1>2. /\ npush = 0 /\ cur_start = 0 /\ cur_write = 0 /\ full = FALSE
      /\ \A p \in Loggers : lpc[p] = "idle"
  BY DEF LogInit
<1>3. \A p \in Loggers : ~Storing(p)
  BY <1>2 DEF Storing, IndexSteps
<1>4. Indices(npush)
  BY <1>0, <1>1, <1>2 DEF Indices, StartAfter
<1>5. Stored
  BY <1>2 DEF Stored
<1> QED
  BY <1>2, <1>3, <1>4, <1>5, LogTypedInit DEF LogInv, Ring, OneStores, Pushed, Settled, Moving

\* What the four steps of a push leave alone.
LEMMA OthersKept ==
  ASSUME LogTyped, NEW p \in Loggers, Logger(p)
  PROVE  \A q \in Loggers \ {p} : lpc'[q] = lpc[q] /\ push'[q] = push[q]
<1>1. /\ \E st : lpc' = [lpc EXCEPT ![p] = st]
      /\ push' = push \/ \E e : push' = [push EXCEPT ![p] = e]
  BY DEF Logger, PushRead, PushStart, PushWrite, PushFull, Fill, PushStep
<1>2. lpc \in [Loggers -> Steps] /\ push \in [Loggers -> Pushes]
  BY DEF LogTyped, LogTypeOK, Steps, Pushes
<1> QED
  BY <1>1, <1>2

\* A push that meets no other reads the indices as they are between pushes.
LEMMA ReadKeepsRing ==
  ASSUME LogInv, NEW p \in Loggers, PushRead(p), ~raced'
  PROVE  Ring'
<1>0. /\ Size \in Nat \ {0} /\ npush \in Nat /\ npush' \in Nat /\ npush' = npush + 1
      /\ npush' - 1 = npush
  BY LogAssumption DEF LogInv, LogTyped, LogTypeOK, Entry, PushRead
<1>1. Ring /\ ~Meets(p)
  BY DEF PushRead, LogInv
<1>2. \A q \in Loggers : ~Storing(q)
  BY <1>1 DEF Meets, Storing, PushRead, IndexSteps
<1>3. Indices(npush)
  BY <1>1, <1>2 DEF Ring, Settled
<1> DEFINE s == NewStart(cur_write, cur_start)
           e == [n |-> npush + 1, w |-> cur_write, s |-> s, drops |-> full]
<1>4. s = StartAfter(npush + 1) /\ (s = cur_start <=> StartAfter(npush) = StartAfter(npush + 1))
  BY <1>0, <1>3, StartNext DEF NewStart, Indices, StartAfter
<1>5. lpc \in [Loggers -> Steps] /\ push \in [Loggers -> Pushes]
  BY DEF LogInv, LogTyped, LogTypeOK, Steps, Pushes
<1>6. /\ push'[p] = e /\ lpc'[p] = IF s # cur_start THEN "start" ELSE "write"
      /\ cur_start' = cur_start /\ cur_write' = cur_write /\ full' = full /\ storage' = storage
      /\ lpc[p] = "idle"
  BY <1>5 DEF PushRead, ringVars
<1> HIDE DEF s
<1>7. push'[p].n = npush' /\ push'[p].w = cur_write /\ push'[p].s = s
  BY <1>0, <1>6
<1>8. \A q \in Loggers \ {p} : lpc'[q] = lpc[q] /\ push'[q] = push[q]
  BY OthersKept DEF Logger, LogInv
<1>9. \A q \in Loggers : Storing(q)' <=> q = p
  BY <1>2, <1>6, <1>8 DEF Storing, IndexSteps
<1>10. OneStores' /\ Settled'
  BY <1>9 DEF OneStores, Settled
<1>11. Pushed'
  <2> SUFFICES ASSUME NEW q \in Loggers, lpc'[q] # "idle"
               PROVE  /\ push'[q].n \in 1 .. npush' /\ push'[q].n > npush' - Size
                      /\ push'[q].w = Place(push'[q].n - 1)
    BY DEF Pushed
  <2>1. CASE q = p
    BY <1>0, <1>3, <1>7, <2>1 DEF Indices
  <2>2. CASE q # p
    <3>1. lpc[q] # "idle" /\ push'[q] = push[q] /\ lpc[q] = "fill"
      BY <1>2, <1>5, <1>8, <2>2 DEF Storing, IndexSteps, Steps
    <3>2. /\ push[q].n \in 1 .. npush /\ push[q].n > npush - Size
          /\ push[q].w = Place(push[q].n - 1)
      BY <1>1, <3>1 DEF Ring, Pushed
    <3>3. push[q].n # npush + 1 - Size
      <4> SUFFICES ASSUME push[q].n = npush + 1 - Size PROVE FALSE
        OBVIOUS
      <4>1. npush - Size \in Nat /\ push[q].n - 1 = npush - Size /\ npush - Size + Size = npush
        BY <1>0, <3>2
      <4>2. push[q].w = Place(npush)
        BY <3>2, <4>1, PlaceRepeats
      <4> QED
        BY <1>1, <1>3, <2>2, <3>1, <4>2 DEF Meets, Indices
    <3> QED
      BY <1>0, <3>1, <3>2, <3>3
  <2> QED
    BY <2>1, <2>2
<1>12. Moving'
  <2>1. Between(p)'
    <3>1. cur_start' = IF lpc'[p] = "start" THEN StartAfter(npush) ELSE StartAfter(npush + 1)
      BY <1>3, <1>4, <1>6 DEF Indices
    <3>2. cur_write' = Place(npush) /\ lpc'[p] # "full" /\ (full' <=> npush >= Size)
      BY <1>3, <1>6 DEF Indices
    <3> QED
      BY <1>0, <1>4, <1>7, <3>1, <3>2 DEF Between, StartAfter, Place
  <2> QED
    BY <1>9, <2>1 DEF Moving
<1>13. Stored'
  <2> SUFFICES ASSUME NEW n \in 1 .. npush', n > npush' - Size PROVE InPlace(n)'
    BY DEF Stored
  <2>1. CASE n = npush'
    BY <1>6, <1>7, <2>1 DEF InPlace
  <2>2. CASE n # npush'
    <3>1. n \in 1 .. npush /\ n > npush - Size
      BY <1>0, <2>2
    <3>2. InPlace(n)
      BY <1>1, <3>1 DEF Ring, Stored
    <3> QED
      BY <1>6, <1>8, <3>2 DEF InPlace, Place
  <2> QED
    BY <2>1, <2>2
<1> QED
  BY <1>10, <1>11, <1>12, <1>13 DEF Ring

\* A store of the indices: the push goes on as nothing else is storing.
LEMMA StoreKeepsRing ==
  ASSUME LogInv, NEW p \in Loggers, PushStart(p) \/ PushWrite(p) \/ PushFull(p), ~raced'
  PROVE  Ring'
<1>0. Size \in Nat \ {0} /\ npush \in Nat /\ npush' = npush
  BY LogAssumption DEF LogInv, LogTyped, LogTypeOK, Entry, PushStart, PushWrite, PushFull, PushStep
<1>1. Ring
  BY DEF PushStart, PushWrite, PushFull, PushStep, LogInv
<1>2. lpc \in [Loggers -> Steps] /\ push \in [Loggers -> Pushes]
  BY DEF LogInv, LogTyped, LogTypeOK, Steps, Pushes
<1>3. /\ push' = push /\ storage' = storage /\ Storing(p)
      /\ lpc'[p] = CASE lpc[p] = "start" -> "write" [] lpc[p] = "write" -> "full" [] OTHER -> "fill"
  BY <1>2 DEF PushStart, PushWrite, PushFull, PushStep, Storing, IndexSteps
<1>4. \A q \in Loggers \ {p} : lpc'[q] = lpc[q] /\ ~Storing(q)
  BY <1>1, <1>3, OthersKept DEF Logger, LogInv, Ring, OneStores
<1>5. \A q \in Loggers : Storing(q)' => q = p
  BY <1>4 DEF Storing
<1>6. \A q \in Loggers : lpc'[q] # "idle" <=> lpc[q] # "idle"
  BY <1>3, <1>4 DEF Storing, IndexSteps
<1>7. OneStores'
  BY <1>5 DEF OneStores
<1>8. Pushed'
  BY <1>0, <1>1, <1>3, <1>6 DEF Ring, Pushed, Place
<1>9. Stored'
  BY <1>0, <1>1, <1>3, <1>6 DEF Ring, Stored, InPlace, Place
<1>10. Between(p)
  BY <1>1, <1>3 DEF Ring, Moving
<1> DEFINE k == npush - 1
<1>11. /\ k \in Nat /\ npush = k + 1 /\ push[p].w = Place(k) /\ push[p].n = npush
       /\ push[p].s = StartAfter(npush)
  BY <1>0, <1>1, <1>3, <1>10 DEF Ring, Pushed, Storing, IndexSteps, Between
<1> HIDE DEF k
<1>12. Next1(push[p].w) = Place(npush)
  BY <1>11, Next1Place
<1>13. CASE PushStart(p)
  <2>1. /\ cur_start' = StartAfter(npush) /\ cur_write' = Place(k) /\ lpc'[p] = "write"
        /\ (full' <=> k >= Size)
    BY <1>3, <1>10, <1>11, <1>13 DEF PushStart, PushStep, Between, k
  <2>2. Between(p)'
    BY <1>0, <1>3, <1>11, <2>1 DEF Between, StartAfter, Place, k
  <2>3. Storing(p)'
    BY <2>1 DEF Storing, IndexSteps
  <2> QED
    BY <1>5, <1>7, <1>8, <1>9, <2>2, <2>3 DEF Ring, Moving, Settled
<1>14. CASE PushWrite(p)
  <2>1. /\ cur_start' = StartAfter(npush) /\ cur_write' = Place(npush) /\ lpc'[p] = "full"
        /\ (full' <=> k >= Size)
    BY <1>3, <1>10, <1>11, <1>12, <1>14 DEF PushWrite, PushStep, WriteAfter, Between, k
  <2>2. Between(p)'
    BY <1>0, <1>3, <1>11, <2>1 DEF Between, StartAfter, Place, k
  <2>3. Storing(p)'
    BY <2>1 DEF Storing, IndexSteps
  <2> QED
    BY <1>5, <1>7, <1>8, <1>9, <2>2, <2>3 DEF Ring, Moving, Settled
<1>15. CASE PushFull(p)
  <2>1. /\ cur_start' = StartAfter(npush) /\ cur_write' = Place(npush) /\ lpc'[p] = "fill"
        /\ full' = (StartAfter(npush) = Place(npush))
    BY <1>3, <1>10, <1>11, <1>12, <1>15 DEF PushFull, PushStep, Between
  <2>2. StartAfter(npush) = Place(npush) <=> npush >= Size
    BY <1>11, StartNext
  <2>3. Indices(npush)'
    BY <1>0, <2>1, <2>2 DEF Indices, StartAfter, Place
  <2>4. ~Storing(p)'
    BY <2>1 DEF Storing, IndexSteps
  <2> QED
    BY <1>0, <1>5, <1>7, <1>8, <1>9, <2>3, <2>4 DEF Ring, Moving, Settled
<1> QED
  BY <1>13, <1>14, <1>15

\* An entry is filled in a place that belongs to no other of the newest.
LEMMA FillKeepsRing ==
  ASSUME LogInv, NEW p \in Loggers, Fill(p), ~raced'
  PROVE  Ring'
<1>0. /\ Size \in Nat \ {0} /\ npush \in Nat /\ npush' = npush
      /\ cur_start' = cur_start /\ cur_write' = cur_write /\ full' = full
      /\ lpc[p] = "fill" /\ storage \in [Slot -> Entry]
      /\ storage' = [storage EXCEPT ![push[p].w] = push[p].n]
  BY LogAssumption DEF LogInv, LogTyped, LogTypeOK, Entry, Fill, PushStep, FilledSlot
<1>1. Ring
  BY DEF Fill, PushStep, LogInv
<1>2. lpc'[p] = "idle"
  BY DEF LogInv, LogTyped, LogTypeOK, Fill, PushStep
<1>3. \A q \in Loggers \ {p} : lpc'[q] = lpc[q] /\ push'[q] = push[q]
  BY OthersKept DEF Logger, LogInv
<1>4. \A q \in Loggers : Storing(q)' <=> Storing(q)
  BY <1>0, <1>2, <1>3 DEF Storing, IndexSteps
<1>5. \A q \in Loggers : lpc'[q] # "idle" => q # p /\ lpc[q] # "idle" /\ push'[q] = push[q]
  BY <1>2, <1>3
<1>6. OneStores'
  BY <1>1, <1>4 DEF Ring, OneStores
<1>7. Pushed'
  BY <1>0, <1>1, <1>5 DEF Ring, Pushed, Place
<1>8. Settled'
  BY <1>0, <1>1, <1>4 DEF Ring, Settled, Indices, StartAfter, Place
<1>9. Moving'
  <2> SUFFICES ASSUME NEW q \in Loggers, Storing(q)' PROVE Between(q)'
    BY DEF Moving
  <2>1. q # p
    BY <1>2 DEF Storing, IndexSteps
  <2>2. Between(q) /\ lpc'[q] = lpc[q] /\ push'[q] = push[q]
    BY <1>1, <1>3, <1>4, <2>1 DEF Ring, Moving
  <2> QED
    BY <1>0, <2>2 DEF Between, StartAfter, Place
<1>10. Stored'
  <2> SUFFICES ASSUME NEW n \in 1 .. npush, n > npush - Size PROVE InPlace(n)'
    BY <1>0 DEF Stored
  <2>0. InPlace(n)
    BY <1>1 DEF Ring, Stored
  <2>1. /\ push[p].n \in 1 .. npush /\ push[p].n > npush - Size
        /\ push[p].w = Place(push[p].n - 1)
    BY <1>0, <1>1 DEF Ring, Pushed
  <2>2. Place(n - 1) \in Slot
    <3>1. n - 1 \in Nat /\ 0 \in Nat
      OBVIOUS
    <3> QED
      BY <3>1, PlaceShift
  <2>3. CASE n = push[p].n
    <3>1. storage'[Place(n - 1)] = n
      BY <1>0, <2>1, <2>2, <2>3
    <3> QED
      BY <3>1 DEF InPlace, Place
  <2>4. CASE n # push[p].n
    <3>1. Place(n - 1) # push[p].w
      <4> DEFINE a == n - 1
                 b == push[p].n - 1
      <4>1. a \in Nat /\ b \in Nat /\ ((a < b /\ b < a + Size) \/ (b < a /\ a < b + Size))
        BY <1>0, <2>1, <2>4
      <4> HIDE DEF a, b
      <4>2. Place(a) # Place(b)
        BY <4>1, PlaceDistinct
      <4> QED
        BY <2>1, <4>2 DEF a, b
    <3>2. storage'[Place(n - 1)] = storage[Place(n - 1)]
      BY <1>0, <2>2, <3>1
    <3>3. CASE storage[Place(n - 1)] = n
      BY <3>2, <3>3 DEF InPlace, Place
    <3>4. CASE \E q \in Loggers : lpc[q] # "idle" /\ push[q].n = n
      <4>1. PICK q \in Loggers : lpc[q] # "idle" /\ push[q].n = n
        BY <3>4
      <4>2. lpc'[q] # "idle" /\ push'[q].n = n
        BY <1>3, <2>4, <4>1
      <4> QED
        BY <4>2 DEF InPlace
    <3> QED
      BY <2>0, <3>3, <3>4 DEF InPlace
  <2> QED
    BY <2>3, <2>4
<1> QED
  BY <1>6, <1>7, <1>8, <1>9, <1>10 DEF Ring

LEMMA RingStep == LogInv /\ [LogNext]_logVars => LogInv'
<1> SUFFICES ASSUME LogInv, [LogNext]_logVars PROVE LogInv'
  OBVIOUS
<1>1. LogTyped'
  BY LogTypedStep DEF LogInv
<1>2. ASSUME ~raced', UNCHANGED <<ringVars, pushVars>> PROVE Ring'
  BY <1>2 DEF LogInv, Ring, OneStores, Pushed, Settled, Moving, Stored, InPlace, Indices, Between,
       StartAfter, Storing, Place, ringVars, pushVars
<1>3. ASSUME ~raced' PROVE Ring'
  <2>1. CASE Begin \/ Reader
    BY <1>2, <1>3, <2>1 DEF Begin, Reader, End, PrintEntry, Finish
  <2>2. CASE UNCHANGED logVars
    BY <1>2, <1>3, <2>2 DEF logVars
  <2>3. ASSUME NEW p \in Loggers, Logger(p) PROVE Ring'
    BY <1>3, <2>3, ReadKeepsRing, StoreKeepsRing, FillKeepsRing DEF Logger
  <2> QED
    BY <2>1, <2>2, <2>3 DEF LogNext
<1> QED
  BY <1>1, <1>3 DEF LogInv

LEMMA RingSound == LogInv => LogTypeOK /\ RingIsNewest
<1> SUFFICES ASSUME LogInv PROVE LogTypeOK /\ RingIsNewest
  OBVIOUS
<1> SUFFICES ASSUME ~raced, \A p \in Loggers : ~Storing(p)
             PROVE  /\ RingSize = Smaller(npush, Size)
                    /\ \A i \in 0 .. RingSize - 1 :
                         \/ storage[(cur_start + i) % Size] = npush - RingSize + 1 + i
                         \/ \E p \in Loggers :
                              lpc[p] = "fill" /\ push[p].n = npush - RingSize + 1 + i
  BY DEF RingIsNewest, LogInv, LogTyped, Storing
<1>0. Size \in Nat \ {0} /\ npush \in Nat
  BY LogAssumption DEF LogInv, LogTyped, LogTypeOK, Entry
<1>1. Indices(npush) /\ Stored
  BY DEF LogInv, Ring, Settled
<1>2. RingSize = Smaller(npush, Size)
  <2>1. CASE npush >= Size
    BY <1>0, <1>1, <2>1 DEF RingSize, Smaller, Indices
  <2>2. CASE npush < Size
    <3>1. Place(npush) = npush
      BY <1>0, <2>2, PlaceSmall
    <3>2. cur_write - cur_start = npush /\ ~full
      BY <1>0, <1>1, <2>2, <3>1 DEF Indices, StartAfter
    <3> QED
      BY <1>0, <2>2, <3>1, <3>2 DEF RingSize, Smaller, Place
  <2> QED
    BY <1>0, <2>1, <2>2
<1>3. ASSUME NEW i \in 0 .. RingSize - 1
      PROVE  \/ storage[(cur_start + i) % Size] = npush - RingSize + 1 + i
             \/ \E p \in Loggers : lpc[p] = "fill" /\ push[p].n = npush - RingSize + 1 + i
  <2> DEFINE m == npush - RingSize + i
  <2>1. m \in Nat /\ m + 1 \in 1 .. npush /\ m + 1 > npush - Size /\ m + 1 - 1 = m
    BY <1>0, <1>2, <1>3 DEF Smaller
  <2>2. (cur_start + i) % Size = Place(m)
    <3>1. CASE npush >= Size
      <4>1. (Place(npush) + i) % Size = Place(npush + i)
        BY <1>0, <1>3, PlaceShift
      <4>2. npush + i = m + Size
        BY <1>0, <1>2, <1>3, <3>1 DEF Smaller
      <4>3. Place(m + Size) = Place(m)
        BY <2>1, PlaceRepeats
      <4> QED
        BY <1>1, <3>1, <4>1, <4>2, <4>3 DEF Indices, StartAfter
    <3>2. CASE npush < Size
      <4>1. m = i /\ cur_start = 0 /\ cur_start + i = i
        BY <1>0, <1>1, <1>2, <1>3, <3>2 DEF Smaller, Indices, StartAfter
      <4> QED
        BY <4>1 DEF Place
    <3> QED
      BY <1>0, <3>1, <3>2
  <2> HIDE DEF m
  <2>3. InPlace(m + 1)
    BY <1>1, <2>1 DEF Stored
  <2>4. npush - RingSize + 1 + i = m + 1
    BY <1>0, <1>2, <1>3 DEF m, Smaller
  <2>5. \A p \in Loggers : lpc[p] # "idle" => lpc[p] = "fill"
    BY DEF LogInv, LogTyped, LogTypeOK, Storing, IndexSteps
  <2> QED
    BY <2>1, <2>2, <2>3, <2>4, <2>5 DEF InPlace
<1> QED
  BY <1>2, <1>3

\* The variables of the log keep their types: both indices of the ring stay
\* within it and a page never prints more entries than the ring has, however
\* pushes race with each other and with the reader.
THEOREM LogTypeCorrect == LogSpec => []LogTypeOK
  BY RingInitial, RingStep, RingSound, PTL DEF LogSpec

\* Between pushes the ring is the newest entries, oldest first, as long as no
\* push met the index stores of another or its unfilled slot.
THEOREM RingKeepsNewest == LogSpec => []RingIsNewest
  BY RingInitial, RingStep, RingSound, PTL DEF LogSpec

-----------------------------------------------------------------------------
(* Pages of the log.  What the reader meets is in the place that belongs   *)
(* to it in the order of the pushes: the number of an entry is the number  *)
(* of those the ring has given up, and how far the reader has come.        *)

Dropped == IF npush > Size THEN npush - Size ELSE 0
Written == IF \E p \in Loggers : lpc[p] \in {"start", "write"} THEN npush - 1 ELSE npush

OldestGoes == \A p \in Loggers : lpc[p] # "idle" => (push[p].drops <=> push[p].n > Size)
Clean(n) == \/ storage[Place(n - 1)] \in {0, n}
            \/ \E p \in Loggers : lpc[p] # "idle" /\ push[p].n = n /\ n > Size
AllClean == \A n \in 1 .. Dropped + Size : n > Dropped => Clean(n)
NoDrops  == \A p \in Loggers : lpc[p] # "idle" => ~push[p].drops

PageOf(k) == \A i \in DOMAIN page : page[i] \in {0, k + i}
AtEntry(k) == Len(page) < PageRoom => cur = Place(k + Len(page))
ToPrint ==
  /\ rpc = "end" => cur = Place(Dropped) /\ held <= Written
  /\ rpc = "print" => /\ Len(page) < PageRoom => held <= Len(page) + Left2Print
                      /\ first /\ cur = last /\ held > 0 => Written >= Size

Printing == NoDrops /\ PageOf(Dropped) /\ AtEntry(Dropped) /\ ToPrint
Printed  == (\E k \in Nat : PageOf(k)) /\ Len(page) >= Smaller(PageRoom, held)
PrintInv ==
  ~raced => /\ OldestGoes /\ AllClean
            /\ ~disturbed => IF rpc = "idle" THEN Printed ELSE Printing

PageInv == LogInv /\ PrintInv

LEMMA PageInitial == LogInit => PageInv
<1> SUFFICES ASSUME LogInit PROVE PageInv
  OBVIOUS
<1>0. Size \in Nat \ {0} /\ PageRoom \in Nat
  BY LogAssumption
<1>1. /\ npush = 0 /\ rpc = "idle" /\ page = <<>> /\ held = 0
      /\ storage = [i \in Slot |-> 0] /\ \A p \in Loggers : lpc[p] = "idle"
  BY DEF LogInit
<1>2. AllClean
  <2> SUFFICES ASSUME NEW n \in 1 .. Dropped + Size PROVE Clean(n)
    BY DEF AllClean
  <2>1. n - 1 \in Nat /\ 0 \in Nat
    BY <1>0, <1>1 DEF Dropped
  <2>2. Place(n - 1) \in Slot
    BY <2>1, PlaceShift
  <2> QED
    BY <1>1, <2>2 DEF Clean
<1>3. PageOf(0)
  BY <1>1 DEF PageOf
<1>4. Len(page) >= Smaller(PageRoom, held)
  BY <1>0, <1>1 DEF Smaller
<1> QED
  BY <1>1, <1>2, <1>3, <1>4, RingInitial DEF PageInv, PrintInv, OldestGoes, Printed

\* What the invariant of the ring says of a ring that no push is about to take
\* an entry from.
LEMMA Undropped ==
  ASSUME LogInv, ~raced, OldestGoes, NoDrops
  PROVE  /\ cur_start = Place(Dropped) /\ cur_write = Place(Written)
         /\ Written \in Nat /\ Written <= npush
         /\ npush > Size => Written = npush
         /\ Written >= Size => full \/ \E p \in Loggers : lpc[p] = "full"
         /\ RingSize <= Written
<1>0. Size \in Nat \ {0} /\ npush \in Nat /\ Ring
  BY LogAssumption DEF LogInv, LogTyped, LogTypeOK, Entry
<1>1. Place(0) = 0 /\ Place(Size) = 0
  <2>1. Place(0) = 0 /\ Place(0 + Size) = Place(0)
    BY <1>0, PlaceSmall, PlaceRepeats
  <2> QED
    BY <1>0, <2>1
<1>2. CASE \A p \in Loggers : ~Storing(p)
  <2>1. Indices(npush) /\ Written = npush
    BY <1>0, <1>2 DEF Ring, Settled, Written, Storing, IndexSteps
  <2>2. CASE npush >= Size
    <3>1. Dropped \in Nat /\ npush = Dropped + Size
      BY <1>0, <2>2 DEF Dropped
    <3>2. Place(npush) = Place(Dropped)
      BY <3>1, PlaceRepeats
    <3> QED
      BY <1>0, <2>1, <2>2, <3>2 DEF Indices, StartAfter, RingSize
  <2>3. CASE npush < Size
    <3>1. Place(npush) = npush /\ Dropped = 0
      BY <1>0, <2>3, PlaceSmall DEF Dropped
    <3>2. cur_start = 0 /\ cur_write = npush /\ ~full
      BY <1>0, <2>1, <2>3, <3>1 DEF Indices, StartAfter
    <3>3. RingSize = npush
      BY <1>0, <3>1, <3>2 DEF RingSize, Place
    <3> QED
      BY <1>0, <1>1, <2>1, <2>3, <3>1, <3>2, <3>3
  <2> QED
    BY <1>0, <2>2, <2>3
<1>3. CASE \E p \in Loggers : Storing(p)
  <2>1. PICK p \in Loggers : Storing(p)
    BY <1>3
  <2>2. Between(p) /\ lpc[p] # "idle"
    BY <1>0, <2>1 DEF Ring, Moving, Storing, IndexSteps
  <2>3. npush <= Size /\ npush \in 1 .. npush
    <3>1. push[p].n = npush /\ push[p].n \in 1 .. npush
      BY <1>0, <2>2 DEF Between, Ring, Pushed
    <3> QED
      BY <1>0, <2>2, <3>1 DEF OldestGoes, NoDrops
  <2> DEFINE k == npush - 1
  <2>4. k \in Nat /\ k < Size /\ npush = k + 1
    BY <1>0, <2>3
  <2>5. Written = IF lpc[p] = "full" THEN npush ELSE k
    <3>1. \A q \in Loggers : lpc[q] \in {"start", "write"} => q = p
      BY <1>0, <2>1 DEF Ring, OneStores, Storing, IndexSteps
    <3>2. lpc[p] \in {"start", "write"} <=> lpc[p] # "full"
      BY <2>1 DEF Storing, IndexSteps
    <3> QED
      BY <3>1, <3>2 DEF Written
  <2>6. StartAfter(npush) = 0 /\ StartAfter(k) = 0 /\ Dropped = 0
    <3>1. npush = Size => Place(npush) = 0
      BY <1>1
    <3> QED
      BY <1>0, <2>3, <2>4, <3>1 DEF StartAfter, Dropped
  <2>7. cur_start = 0 /\ cur_write = Place(Written) /\ ~full
    <3>1. ~full
      <4>1. full <=> npush - 1 >= Size
        BY <2>2, Zenon DEF Between
      <4> QED
        BY <1>0, <2>3, <4>1
    <3>2. cur_start = 0
      BY <2>2, <2>6 DEF Between
    <3>3. cur_write = Place(Written)
      BY <2>2, <2>5 DEF Between
    <3> QED
      BY <3>1, <3>2, <3>3
  <2>8. Written \in Nat /\ Written <= npush /\ (Written >= Size => lpc[p] = "full")
    BY <1>0, <2>4, <2>5
  <2>9. Place(Written) \in 0 .. Written
    <3>1. CASE Written < Size
      BY <2>8, <3>1, PlaceSmall
    <3>2. CASE Written = Size
      BY <1>0, <1>1, <3>2
    <3> QED
      BY <1>0, <2>3, <2>8, <3>1, <3>2
  <2>10. RingSize <= Written
    <3>1. Place(Written) \in Slot /\ 0 \in Nat
      BY <2>8, PlaceShift
    <3>2. Place(Place(Written)) = Place(Written)
      BY <1>0, <3>1, PlaceSmall DEF Slot
    <3>3. RingSize = Place(Place(Written))
      BY <2>7, <3>1 DEF RingSize, Place, Slot
    <3> QED
      BY <2>8, <2>9, <3>2, <3>3
  <2> QED
    BY <1>0, <1>1, <2>3, <2>6, <2>7, <2>8, <2>10
<1> QED
  BY <1>2, <1>3

\* What a step of a push does to the entries and to its own push.
LEMMA PushKeepsClean ==
  ASSUME PageInv, NEW p \in Loggers, Logger(p), ~raced'
  PROVE  ~raced /\ OldestGoes' /\ AllClean'
<1>0. Size \in Nat \ {0} /\ npush \in Nat
  BY LogAssumption DEF PageInv, LogInv, LogTyped, LogTypeOK, Entry
<1>1. ~raced /\ Ring /\ OldestGoes /\ AllClean
  <2>1. ~raced
    BY Zenon DEF Logger, PushRead, PushStart, PushWrite, PushFull, Fill, PushStep
  <2> QED
    BY <2>1, Zenon DEF PageInv, PrintInv, LogInv
<1>2. lpc \in [Loggers -> Steps] /\ push \in [Loggers -> Pushes] /\ storage \in [Slot -> Entry]
  BY DEF PageInv, LogInv, LogTyped, LogTypeOK, Steps, Pushes
<1>3. \A q \in Loggers \ {p} : lpc'[q] = lpc[q] /\ push'[q] = push[q]
  BY OthersKept DEF PageInv, LogInv
<1>4. CASE PushRead(p)
  <2>1. \A q \in Loggers : ~Storing(q)
    BY <1>1, <1>4 DEF PushRead, Meets, Storing, IndexSteps
  <2>2. full <=> npush >= Size
    BY <1>1, <2>1 DEF Ring, Settled, Indices
  <2>3. /\ lpc[p] = "idle" /\ storage' = storage /\ npush' = npush + 1
        /\ push'[p] = [n |-> npush + 1, w |-> cur_write, s |-> NewStart(cur_write, cur_start),
                       drops |-> full]
        /\ lpc'[p] # "idle"
    BY <1>2, <1>4 DEF PushRead, ringVars
  <2>4. push'[p].n = npush + 1 /\ (push'[p].drops <=> full)
    BY <2>3
  <2>5. OldestGoes'
    BY <1>0, <1>1, <1>3, <2>2, <2>4 DEF OldestGoes
  <2>6. ASSUME NEW n \in Nat, Clean(n) PROVE Clean(n)'
    BY <1>3, <2>3, <2>6 DEF Clean, Place
  <2>7. AllClean'
    <3> SUFFICES ASSUME NEW n \in 1 .. Dropped' + Size, n > Dropped' PROVE Clean(n)'
      BY <1>0 DEF AllClean
    <3>1. CASE npush < Size
      <4>1. n \in 1 .. Dropped + Size /\ n > Dropped
        BY <1>0, <2>3, <3>1 DEF Dropped
      <4> QED
        BY <1>1, <2>6, <4>1 DEF AllClean
    <3>2. CASE npush >= Size /\ n = npush + 1
      BY <1>0, <2>3, <2>4, <3>2 DEF Clean
    <3>3. CASE npush >= Size /\ n # npush + 1
      <4>1. n \in 1 .. Dropped + Size /\ n > Dropped
        BY <1>0, <2>3, <3>3 DEF Dropped
      <4> QED
        BY <1>1, <2>6, <4>1 DEF AllClean
    <3> QED
      BY <1>0, <3>1, <3>2, <3>3
  <2> QED
    BY <1>1, <2>5, <2>7
<1>5. CASE PushStart(p) \/ PushWrite(p) \/ PushFull(p)
  <2>1. storage' = storage /\ npush' = npush /\ push' = push
    BY <1>5 DEF PushStart, PushWrite, PushFull, PushStep
  <2>2. lpc[p] # "idle" /\ lpc'[p] # "idle"
    BY <1>2, <1>5 DEF PushStart, PushWrite, PushFull, PushStep
  <2>3. \A q \in Loggers : lpc'[q] # "idle" <=> lpc[q] # "idle"
    BY <1>3, <2>2
  <2>4. OldestGoes'
    BY <1>1, <2>1, <2>3 DEF OldestGoes
  <2>5. AllClean'
    BY <1>1, <2>1, <2>3 DEF AllClean, Clean, Dropped, Place
  <2> QED
    BY <1>1, <2>4, <2>5
<1>6. CASE Fill(p)
  <2>1. /\ npush' = npush /\ lpc[p] = "fill" /\ lpc'[p] = "idle"
        /\ storage' = [storage EXCEPT ![push[p].w] = push[p].n]
    BY <1>2, <1>6 DEF Fill, PushStep, FilledSlot
  <2>2. OldestGoes'
    BY <1>1, <1>3, <2>1 DEF OldestGoes
  <2>3. /\ push[p].n \in 1 .. npush /\ push[p].n > npush - Size
        /\ push[p].w = Place(push[p].n - 1)
    BY <1>1, <2>1 DEF Ring, Pushed
  <2>4. AllClean'
    <3> SUFFICES ASSUME NEW n \in 1 .. Dropped + Size, n > Dropped PROVE Clean(n)'
      BY <2>1 DEF AllClean, Dropped
    <3>1. Clean(n)
      BY <1>1 DEF AllClean
    <3> DEFINE a == n - 1
               b == push[p].n - 1
    <3>2. a \in Nat /\ b \in Nat /\ (a # b => (a < b /\ b < a + Size) \/ (b < a /\ a < b + Size))
      BY <1>0, <2>3 DEF Dropped
    <3>3. b = a => n = push[p].n
      BY <2>3
    <3>4. push[p].w = Place(b) /\ Place(n - 1) = Place(a)
      BY <2>3
    <3> HIDE DEF a, b
    <3>5. Place(a) \in Slot /\ 0 \in Nat
      BY <3>2, PlaceShift
    <3>6. CASE a = b
      <4>1. storage'[Place(n - 1)] = n
        BY <1>2, <2>1, <3>3, <3>4, <3>5, <3>6
      <4> QED
        BY <4>1 DEF Clean, Place
    <3>7. CASE a # b
      <4>1. Place(a) # Place(b)
        BY <3>2, <3>7, PlaceDistinct
      <4>2. storage'[Place(n - 1)] = storage[Place(n - 1)]
        BY <1>2, <2>1, <3>4, <3>5, <4>1
      <4>3. n # push[p].n
        BY <3>7 DEF a, b
      <4>4. CASE storage[Place(n - 1)] \in {0, n}
        BY <4>2, <4>4 DEF Clean, Place
      <4>5. CASE \E q \in Loggers : lpc[q] # "idle" /\ push[q].n = n /\ n > Size
        BY <1>3, <4>3, <4>5 DEF Clean
      <4> QED
        BY <3>1, <4>4, <4>5 DEF Clean
    <3> QED
      BY <3>6, <3>7
  <2> QED
    BY <1>1, <2>2, <2>4
<1> QED
  BY <1>4, <1>5, <1>6 DEF Logger

\* A push that drops no entry leaves a page, and what is still to be printed.
LEMMA PushKeepsPage ==
  ASSUME PageInv, NEW p \in Loggers, Logger(p), ~raced', ~disturbed'
  PROVE  ~disturbed /\ IF rpc' = "idle" THEN Printed' ELSE Printing'
<1>0. Size \in Nat \ {0} /\ PageRoom \in Nat /\ npush \in Nat
  BY LogAssumption DEF PageInv, LogInv, LogTyped, LogTypeOK, Entry
<1>1. ~raced /\ Ring /\ ~disturbed
  <2>1. ~raced
    BY PushKeepsClean
  <2>2. disturbed' = disturbed \/ PushRead(p)
    BY DEF Logger, PushStart, PushWrite, PushFull, Fill, PushStep, readerVars
  <2>3. ~disturbed
    BY <2>2, Zenon DEF PushRead
  <2> QED
    BY <2>1, <2>3, Zenon DEF PageInv, LogInv
<1>2. /\ rpc' = rpc /\ cur' = cur /\ last' = last /\ first' = first /\ page' = page
      /\ held' = held
  BY DEF Logger, PushRead, PushStart, PushWrite, PushFull, Fill, PushStep, readerVars
<1>3. lpc \in [Loggers -> Steps] /\ push \in [Loggers -> Pushes]
  BY DEF PageInv, LogInv, LogTyped, LogTypeOK, Steps, Pushes
<1>4. \A q \in Loggers \ {p} : lpc'[q] = lpc[q] /\ push'[q] = push[q]
  BY OthersKept DEF PageInv, LogInv
<1>5. CASE rpc = "idle"
  BY <1>1, <1>2, <1>5 DEF PageInv, PrintInv, Printed, PageOf, Smaller
<1>6. CASE rpc # "idle"
  <2>1. Printing
    BY <1>1, <1>6 DEF PageInv, PrintInv
  <2>2. NoDrops' /\ Dropped' = Dropped /\ Written' \in Int /\ Written \in Int /\ Written' >= Written
    <3>1. CASE PushRead(p)
      <4>1. \A q \in Loggers : ~Storing(q)
        BY <1>1, <3>1 DEF PushRead, Meets, Storing, IndexSteps
      <4>2. ~full /\ (full <=> npush >= Size)
        BY <1>1, <3>1, <4>1 DEF Ring, Settled, Indices, PushRead
      <4>3. /\ npush' = npush + 1 /\ lpc'[p] \in {"start", "write"}
            /\ push'[p] = [n |-> npush + 1, w |-> cur_write, s |-> NewStart(cur_write, cur_start),
                           drops |-> full]
        BY <1>3, <3>1 DEF PushRead
      <4>4. push'[p].drops <=> full
        BY <4>3
      <4>5. Dropped' = Dropped
        BY <1>0, <4>2, <4>3 DEF Dropped
      <4>6. Written = npush /\ Written' = npush
        BY <1>0, <4>1, <4>3 DEF Written, Storing, IndexSteps
      <4>7. NoDrops'
        BY <1>4, <2>1, <4>2, <4>4 DEF Printing, NoDrops
      <4> QED
        BY <1>0, <4>5, <4>6, <4>7
    <3>2. CASE PushStart(p) \/ PushWrite(p) \/ PushFull(p)
      <4>1. npush' = npush /\ push' = push
        BY <3>2 DEF PushStart, PushWrite, PushFull, PushStep
      <4>2. /\ lpc[p] # "idle" /\ Storing(p)
            /\ lpc'[p] \in {"start", "write"} => lpc[p] \in {"start", "write"}
        BY <1>3, <3>2 DEF PushStart, PushWrite, PushFull, PushStep, Storing, IndexSteps
      <4>3. NoDrops'
        BY <1>4, <2>1, <4>1, <4>2 DEF Printing, NoDrops
      <4>4. \A q \in Loggers : lpc'[q] \in {"start", "write"} => lpc[q] \in {"start", "write"}
        BY <1>4, <4>2
      <4> QED
        BY <1>0, <4>1, <4>3, <4>4 DEF Dropped, Written
    <3>3. CASE Fill(p)
      <4>1. npush' = npush /\ lpc[p] = "fill" /\ lpc'[p] = "idle"
        BY <1>3, <3>3 DEF Fill, PushStep
      <4>2. NoDrops'
        BY <1>4, <2>1, <4>1 DEF Printing, NoDrops
      <4>3. \A q \in Loggers : lpc'[q] \in {"start", "write"} <=> lpc[q] \in {"start", "write"}
        BY <1>4, <4>1
      <4> QED
        BY <1>0, <4>1, <4>2, <4>3 DEF Dropped, Written
    <3> QED
      BY <3>1, <3>2, <3>3 DEF Logger
  <2>3. held \in Int
    BY <1>0 DEF PageInv, LogInv, LogTyped, LogTypeOK
  <2>4. PageOf(Dropped)' /\ AtEntry(Dropped)'
    BY <1>2, <2>1, <2>2 DEF Printing, PageOf, AtEntry, Place
  <2>5. ToPrint'
    <3>1. Left2Print' = Left2Print
      BY <1>2 DEF Left2Print
    <3>2. ToPrint
      BY <2>1 DEF Printing
    <3>3. rpc = "end" => cur' = Place(Dropped)' /\ held' <= Written'
      BY <1>2, <2>2, <2>3, <3>2 DEF ToPrint, Place
    <3>4. rpc = "print" => /\ Len(page') < PageRoom => held' <= Len(page') + Left2Print'
                           /\ first' /\ cur' = last' /\ held' > 0 => Written' >= Size
      BY <1>0, <1>2, <2>2, <3>1, <3>2 DEF ToPrint
    <3> QED
      BY <1>2, <3>3, <3>4 DEF ToPrint
  <2> QED
    BY <1>1, <1>2, <1>6, <2>2, <2>4, <2>5 DEF Printing
<1> QED
  BY <1>5, <1>6

LEMMA BeginPage ==
  ASSUME PageInv, Begin, ~raced, ~disturbed'
  PROVE  Printing'
<1>0. Size \in Nat \ {0} /\ PageRoom \in Nat /\ npush \in Nat
  BY LogAssumption DEF PageInv, LogInv, LogTyped, LogTypeOK, Entry
<1>1. /\ rpc' = "end" /\ cur' = cur_start /\ page' = <<>> /\ held' = RingSize
      /\ npush' = npush /\ lpc' = lpc /\ push' = push
  BY DEF Begin, pushVars
<1>2. NoDrops
  BY Zenon DEF Begin, NoDrops
<1>3. cur_start = Place(Dropped) /\ RingSize <= Written
  BY <1>2, Undropped DEF PageInv, PrintInv
<1>4. Dropped \in Nat /\ Dropped' = Dropped /\ Written' = Written
  BY <1>0, <1>1 DEF Dropped, Written
<1>5. NoDrops'
  BY <1>1, <1>2 DEF NoDrops
<1>6. PageOf(Dropped)'
  BY <1>1 DEF PageOf
<1>7. AtEntry(Dropped)'
  <2>1. Len(page') = 0 /\ Dropped + 0 = Dropped
    BY <1>1, <1>4
  <2> QED
    BY <1>1, <1>3, <1>4, <2>1 DEF AtEntry, Place
<1>8. ToPrint'
  BY <1>1, <1>3, <1>4 DEF ToPrint, Place
<1> QED
  BY <1>5, <1>6, <1>7, <1>8 DEF Printing

\* The end that the reader takes is behind all entries it began with.
LEMMA EndPage ==
  ASSUME PageInv, End, ~raced, Printing
  PROVE  Printing'
<1>0. /\ Size \in Nat \ {0} /\ PageRoom \in Nat /\ npush \in Nat /\ held \in Nat /\ held <= Size
  BY LogAssumption DEF PageInv, LogInv, LogTyped, LogTypeOK, Entry
<1>1. /\ rpc = "end" /\ rpc' = "print" /\ last' = cur_write /\ cur' = cur /\ first' = first
      /\ page' = page /\ held' = held /\ npush' = npush /\ lpc' = lpc /\ push' = push
  BY DEF End, EndOfRing, pushVars
<1>2. page = <<>> /\ first /\ Len(page) = 0
  BY <1>1 DEF PageInv, LogInv, LogTyped, PageBound
<1>3. /\ cur_write = Place(Written) /\ Written \in Nat /\ Written <= npush
      /\ npush > Size => Written = npush
  BY Undropped DEF PageInv, PrintInv, Printing
<1>4. cur = Place(Dropped) /\ held <= Written
  BY <1>1 DEF Printing, ToPrint
<1>5. Dropped \in Nat /\ Dropped' = Dropped /\ Written' = Written
  BY <1>0, <1>1 DEF Dropped, Written
<1>6. NoDrops' /\ PageOf(Dropped)' /\ AtEntry(Dropped)'
  BY <1>1, <1>5 DEF Printing, NoDrops, PageOf, AtEntry, Place
<1>7. held <= 0 + Left2Print' /\ (cur = cur_write /\ held > 0 => Written >= Size)
  <2>0. Place(0) = 0 /\ Place(Size) = 0
    <3>1. Place(0) = 0 /\ Place(0 + Size) = Place(0)
      BY <1>0, PlaceSmall, PlaceRepeats
    <3> QED
      BY <1>0, <3>1
  <2>1. CASE Written >= Size
    <3>1. cur_write = cur
      <4>1. CASE npush > Size
        <5>1. Written = Dropped + Size
          BY <1>0, <1>3, <4>1 DEF Dropped
        <5>2. Place(Dropped + Size) = Place(Dropped)
          BY <1>5, PlaceRepeats
        <5> QED
          BY <1>3, <1>4, <5>1, <5>2
      <4>2. CASE npush <= Size
        <5>1. Written = Size /\ Dropped = 0
          BY <1>0, <1>3, <2>1, <4>2 DEF Dropped
        <5> QED
          BY <1>3, <1>4, <2>0, <5>1
      <4> QED
        BY <1>0, <4>1, <4>2
    <3>2. Left2Print' = Size
      BY <1>1, <1>2, <3>1 DEF Left2Print
    <3> QED
      BY <1>0, <2>1, <3>2
  <2>2. CASE Written < Size
    <3>1. cur_write = Written /\ cur = 0
      <4>1. npush <= Size /\ Dropped = 0
        BY <1>0, <1>3, <2>2 DEF Dropped
      <4> QED
        BY <1>3, <1>4, <2>0, <2>2, <4>1, PlaceSmall
    <3>2. Written # 0 => Left2Print' = Written
      BY <1>0, <1>1, <1>3, <3>1 DEF Left2Print
    <3>3. Written = 0 => Left2Print' = Size
      BY <1>1, <1>2, <3>1 DEF Left2Print
    <3> QED
      BY <1>0, <1>3, <1>4, <3>1, <3>2, <3>3
  <2> QED
    BY <1>0, <1>3, <2>1, <2>2
<1>8. ToPrint'
  BY <1>1, <1>2, <1>5, <1>7 DEF ToPrint
<1> QED
  BY <1>6, <1>8 DEF Printing

\* The entry printed next is where its number belongs.
LEMMA PrintPage ==
  ASSUME PageInv, PrintEntry, ~raced, Printing
  PROVE  Printing'
<1>0. /\ Size \in Nat \ {0} /\ PageRoom \in Nat /\ npush \in Nat /\ held \in Nat
      /\ cur \in Slot /\ last \in Slot /\ page \in Seq(Entry) /\ storage \in [Slot -> Entry]
  BY LogAssumption DEF PageInv, LogInv, LogTyped, LogTypeOK, Entry
<1>1. /\ rpc = "print" /\ ~AtEnd /\ rpc' = rpc /\ last' = last /\ held' = held
      /\ cur' = Next1(cur) /\ ~first'
      /\ page' = IF Len(page) < PageRoom THEN Append(page, storage[cur]) ELSE page
      /\ npush' = npush /\ lpc' = lpc /\ push' = push
  BY Zenon DEF PrintEntry, Advance, pushVars
<1>2. Dropped \in Nat /\ Dropped' = Dropped /\ Written' = Written
  BY <1>0, <1>1 DEF Dropped, Written
<1>3. NoDrops'
  BY <1>1 DEF Printing, NoDrops
<1>4. CASE Len(page) >= PageRoom
  <2>1. page' = page
    BY <1>0, <1>1, <1>4
  <2>2. ~(Len(page') < PageRoom)
    BY <1>0, <1>4, <2>1
  <2>3. PageOf(Dropped)'
    BY <1>2, <2>1 DEF Printing, PageOf
  <2>4. AtEntry(Dropped)'
    BY <2>2 DEF AtEntry
  <2>5. ToPrint'
    BY <1>1, <2>2 DEF ToPrint
  <2> QED
    BY <1>3, <2>3, <2>4, <2>5 DEF Printing
<1>5. CASE Len(page) < PageRoom
  <2> DEFINE k == Dropped + Len(page)
  <2>1. page' = Append(page, storage[cur]) /\ Len(page') = Len(page) + 1 /\ Len(page) \in Nat
    BY <1>0, <1>1, <1>5
  <2>2. cur = Place(k) /\ k \in Nat /\ k + 1 = Dropped + Len(page')
    BY <1>2, <1>5, <2>1 DEF Printing, AtEntry
  <2>3. cur' = Place(k + 1)
    BY <1>1, <2>2, Next1Place
  <2>4. AtEntry(Dropped)'
    BY <1>2, <2>2, <2>3 DEF AtEntry, Place
  <2>5. first \/ cur # last
    BY <1>1 DEF AtEnd
  <2>6. Left2Print \in Int /\ Left2Print >= 1 /\ Left2Print' = Left2Print - 1
    <3>1. cur' = IF cur = Size - 1 THEN 0 ELSE cur + 1
      BY <1>0, <1>1, Next1Is
    <3> QED
      BY <1>0, <1>1, <2>5, <3>1 DEF Left2Print, Slot
  <2>7. k + 1 \in 1 .. Dropped + Size /\ k + 1 > Dropped
    <3>1. Len(page) + Left2Print <= Size
      BY <1>1 DEF PageInv, LogInv, LogTyped, PageBound
    <3> QED
      BY <1>0, <1>2, <2>1, <2>6, <3>1
  <2>8. storage[cur] \in {0, k + 1}
    <3>1. Clean(k + 1) /\ OldestGoes /\ NoDrops
      BY <2>7 DEF PageInv, PrintInv, AllClean, Printing
    <3>2. ~ \E p \in Loggers : lpc[p] # "idle" /\ push[p].n = k + 1 /\ k + 1 > Size
      BY <3>1 DEF OldestGoes, NoDrops
    <3>3. k + 1 - 1 = k
      BY <2>2
    <3> QED
      BY <2>2, <3>1, <3>2, <3>3 DEF Clean
  <2>9. PageOf(Dropped)'
    <3> SUFFICES ASSUME NEW i \in DOMAIN page' PROVE page'[i] \in {0, Dropped + i}
      BY <1>2 DEF PageOf
    <3>1. i \in 1 .. Len(page) + 1
      BY <1>0, <1>1, <2>1
    <3>2. CASE i = Len(page) + 1
      <4>1. page'[i] = storage[cur] /\ Dropped + i = k + 1
        BY <1>0, <1>2, <2>1, <3>2
      <4> QED
        BY <2>8, <4>1
    <3>3. CASE i \in 1 .. Len(page)
      <4>1. page'[i] = page[i] /\ i \in DOMAIN page
        BY <1>0, <2>1, <3>3
      <4> QED
        BY <4>1 DEF Printing, PageOf
    <3> QED
      BY <2>1, <3>1, <3>2, <3>3
  <2>10. ToPrint'
    <3>1. held <= Len(page) + Left2Print
      BY <1>1, <1>5 DEF Printing, ToPrint
    <3>2. held <= Len(page') + Left2Print'
      BY <1>0, <2>1, <2>6, <3>1
    <3> QED
      BY <1>1, <3>2 DEF ToPrint
  <2> QED
    BY <1>3, <2>4, <2>9, <2>10 DEF Printing
<1> QED
  BY <1>0, <1>4, <1>5

LEMMA FinishPage ==
  ASSUME PageInv, Finish, ~raced, ~disturbed', Printing
  PROVE  Printed'
<1>0. /\ Size \in Nat \ {0} /\ PageRoom \in Nat /\ npush \in Nat /\ held \in Nat
      /\ page \in Seq(Entry)
  BY LogAssumption DEF PageInv, LogInv, LogTyped, LogTypeOK, Entry
<1>1. rpc = "print" /\ AtEnd /\ page' = page /\ held' = held /\ Len(page) \in Nat
  BY <1>0 DEF Finish
<1>2. Dropped \in Nat
  BY <1>0 DEF Dropped
<1>3. PageOf(Dropped) /\ ToPrint
  BY DEF Printing
<1>4. ASSUME Len(page) < PageRoom PROVE Len(page) >= held
  <2>1. held <= Len(page) + Left2Print /\ (first /\ cur = last /\ held > 0 => Written >= Size)
    BY <1>1, <1>3, <1>4 DEF ToPrint
  <2>2. ~full \/ ~first
    BY <1>1 DEF AtEnd
  <2>3. cur = last
    BY <1>1 DEF AtEnd
  <2>4. CASE first
    <3>1. \A p \in Loggers : lpc[p] # "full"
      BY Zenon DEF Finish
    <3>2. ~(Written >= Size)
      BY <2>2, <2>4, <3>1, Undropped DEF PageInv, PrintInv, Printing
    <3> QED
      BY <1>0, <1>1, <2>1, <2>3, <2>4, <3>2
  <2>5. CASE ~first
    BY <1>0, <1>1, <2>1, <2>3, <2>5 DEF Left2Print
  <2> QED
    BY <2>4, <2>5
<1>5. Len(page) >= Smaller(PageRoom, held)
  BY <1>0, <1>1, <1>4 DEF Smaller
<1> QED
  BY <1>1, <1>2, <1>3, <1>5 DEF Printed, PageOf, Smaller

LEMMA PageStep == PageInv /\ [LogNext]_logVars => PageInv'
<1> SUFFICES ASSUME PageInv, [LogNext]_logVars PROVE PageInv'
  OBVIOUS
<1>1. LogInv'
  BY RingStep DEF PageInv
<1>2. CASE UNCHANGED logVars
  BY <1>1, <1>2 DEF PageInv, PrintInv, OldestGoes, AllClean, Clean, Printed, Printing, NoDrops,
     PageOf, AtEntry, ToPrint, Dropped, Written, Left2Print, Smaller, Place,
     logVars, ringVars, pushVars, readerVars
<1>3. ASSUME NEW p \in Loggers, Logger(p), ~raced'
      PROVE  /\ OldestGoes' /\ AllClean'
             /\ ~disturbed' => IF rpc' = "idle" THEN Printed' ELSE Printing'
  BY <1>3, PushKeepsClean, PushKeepsPage
<1>4. ASSUME Begin \/ Reader, ~raced'
      PROVE  /\ OldestGoes' /\ AllClean'
             /\ ~disturbed' => IF rpc' = "idle" THEN Printed' ELSE Printing'
  <2>1. ~raced /\ UNCHANGED <<ringVars, pushVars>>
    <3>1. UNCHANGED ringVars /\ UNCHANGED pushVars
      BY <1>4, Zenon DEF Begin, Reader, End, PrintEntry, Finish
    <3>2. raced' = raced
      BY <3>1 DEF pushVars
    <3> QED
      BY <1>4, <3>1, <3>2
  <2>2. OldestGoes' /\ AllClean'
    BY <2>1 DEF PageInv, PrintInv, OldestGoes, AllClean, Clean, Dropped, Place, ringVars, pushVars
  <2>3. CASE Begin
    BY <2>1, <2>2, <2>3, BeginPage DEF Begin
  <2>4. CASE End
    <3>1. ~disturbed' => Printing
      BY <2>1, <2>4 DEF End, PageInv, PrintInv
    <3> QED
      BY <2>1, <2>2, <2>4, <3>1, EndPage DEF End
  <2>5. CASE PrintEntry
    <3>1. ~disturbed' => Printing
      BY <2>1, <2>5 DEF PrintEntry, PageInv, PrintInv
    <3> QED
      BY <2>1, <2>2, <2>5, <3>1, PrintPage DEF PrintEntry
  <2>6. CASE Finish
    <3>1. ~disturbed' => Printing
      BY <2>1, <2>6 DEF Finish, PageInv, PrintInv
    <3> QED
      BY <2>1, <2>2, <2>6, <3>1, FinishPage DEF Finish
  <2> QED
    BY <1>4, <2>3, <2>4, <2>5, <2>6 DEF Reader
<1>5. PrintInv'
  BY <1>2, <1>3, <1>4 DEF LogNext, PageInv, PrintInv
<1> QED
  BY <1>1, <1>5 DEF PageInv

LEMMA PageSound == PageInv => PageInOrder /\ PageComplete
<1> SUFFICES ASSUME PageInv, ~raced, ~disturbed
             PROVE  /\ \A i, j \in DOMAIN page :
                         page[i] # 0 /\ page[j] # 0 => page[j] - page[i] = j - i
                    /\ rpc = "idle" => Len(page) >= Smaller(PageRoom, held)
  BY DEF PageInOrder, PageComplete
<1>1. page \in Seq(Entry) /\ Size \in Nat /\ npush \in Nat
  BY LogAssumption DEF PageInv, LogInv, LogTyped, LogTypeOK, Entry
<1>2. \E k \in Nat : PageOf(k)
  <2>1. Dropped \in Nat
    BY <1>1 DEF Dropped
  <2> QED
    BY <2>1 DEF PageInv, PrintInv, Printed, Printing
<1>3. PICK k \in Nat : PageOf(k)
  BY <1>2
<1>4. ASSUME NEW i \in DOMAIN page, page[i] # 0 PROVE page[i] = k + i /\ i \in Int
  BY <1>1, <1>3, <1>4 DEF PageOf
<1> QED
  BY <1>4 DEF PageInv, PrintInv, Printed

\* A page shows consecutive entries in the order they were pushed, whatever is
\* pushed while it is printed, unless a push drops an entry meanwhile.
THEOREM EntriesInOrder == LogSpec => []PageInOrder
  BY PageInitial, PageStep, PageSound, PTL DEF LogSpec

\* A finished page has every entry there was when it began, as far as there is
\* room, unless a push dropped an entry or was making the ring full.
THEOREM NothingLeftOut == LogSpec => []PageComplete
  BY PageInitial, PageStep, PageSound, PTL DEF LogSpec

-----------------------------------------------------------------------------
(* The framing of responses.  The units given so far are those sent and    *)
(* those still in the buffer or in the frame being sent, in order; what    *)
(* the handler has still to give depends on its kind.                      *)

Follows(s, a) == \A i \in 1 .. Len(s) : s[i] = a + i

LEMMA AppendFollows ==
  ASSUME NEW s \in Seq(Nat), NEW a \in Nat, NEW n \in Nat, NEW g, g = a + Len(s), Follows(s, a)
  PROVE  LET u == s \o [i \in 1 .. n |-> g + i] IN
           u \in Seq(Nat) /\ Len(u) = Len(s) + n /\ Follows(u, a)
<1> DEFINE t == [i \in 1 .. n |-> g + i]
           u == s \o t
<1>1. t \in Seq(Nat) /\ Len(t) = n
  OBVIOUS
<1>2. u \in Seq(Nat) /\ Len(u) = Len(s) + n
  BY <1>1
<1>3. ASSUME NEW i \in 1 .. Len(u) PROVE u[i] = a + i
  <2>1. CASE i <= Len(s)
    BY <1>1, <1>2, <2>1 DEF Follows
  <2>2. CASE i > Len(s)
    <3>1. u[i] = t[i - Len(s)] /\ i - Len(s) \in 1 .. n
      BY <1>1, <1>2, <2>2
    <3> QED
      BY <3>1
  <2> QED
    BY <1>2, <2>1, <2>2
<1> QED
  BY <1>2, <1>3 DEF Follows

LEMMA ConcatNat ==
  ASSUME NEW s \in Seq(Nat), NEW h \in Seq(Nat)
  PROVE  s \o h \in Seq(Nat) /\ Len(s \o h) = Len(s) + Len(h)
OBVIOUS

LEMMA MoveFollows ==
  ASSUME NEW s \in Seq(Nat), NEW d \in Seq(Nat), NEW t \in 0 .. Len(d),
         Follows(s, 0), Follows(d, Len(s))
  PROVE  LET u == s \o SubSeq(d, 1, t)
             e == SubSeq(d, t + 1, Len(d)) IN
           /\ u \in Seq(Nat) /\ Len(u) = Len(s) + t /\ Follows(u, 0)
           /\ e \in Seq(Nat) /\ Len(e) = Len(d) - t /\ Follows(e, Len(u))
<1> DEFINE h == SubSeq(d, 1, t)
           u == s \o h
           e == SubSeq(d, t + 1, Len(d))
<1>1. h \in Seq(Nat) /\ Len(h) = t /\ \A i \in 1 .. t : h[i] = d[i]
  OBVIOUS
<1>2. h \in Seq(Nat) /\ Len(h) = t
  BY <1>1
<1>3. e \in Seq(Nat) /\ Len(e) = Len(d) - t /\ \A i \in 1 .. Len(e) : e[i] = d[t + i]
  OBVIOUS
<1>4. t \in Nat /\ Len(s) \in Nat
  OBVIOUS
<1> HIDE DEF h, e
<1>5. u \in Seq(Nat) /\ Len(u) = Len(s) + t
  BY <1>2, ConcatNat
<1>6. ASSUME NEW i \in 1 .. Len(u) PROVE u[i] = 0 + i
  <2>1. CASE i <= Len(s)
    BY <1>1, <1>5, <2>1 DEF Follows
  <2>2. CASE i > Len(s)
    <3>1. u[i] = h[i - Len(s)] /\ i - Len(s) \in 1 .. t
      BY <1>1, <1>5, <2>2
    <3>2. i - Len(s) \in 1 .. Len(d)
      BY <3>1
    <3>3. h[i - Len(s)] = d[i - Len(s)]
      BY <1>1, <3>1
    <3>4. d[i - Len(s)] = Len(s) + (i - Len(s))
      BY <3>2 DEF Follows
    <3> QED
      BY <1>4, <3>1, <3>3, <3>4
  <2> QED
    BY <1>5, <2>1, <2>2
<1>7. ASSUME NEW i \in 1 .. Len(e) PROVE e[i] = Len(u) + i
  <2>1. t + i \in 1 .. Len(d)
    BY <1>3
  <2> QED
    BY <1>3, <1>5, <2>1 DEF Follows
<1> QED
  BY <1>3, <1>5, <1>6, <1>7 DEF Follows, h, e

LEMMA NothingFollows == \A a : Follows(<<>>, a)
  BY DEF Follows

Building == hpc \in {"idle", "open", "append", "format", "close", "final"}
Unsent  == IF Building THEN buffer ELSE data
\* Units given before those that are not sent yet: all of them are sent, unless
\* the session was closed.
Before  == given - Len(Unsent)
Ordered ==
  /\ Follows(sent, 0) /\ Before \in Nat /\ Follows(Unsent, Before)
  /\ ~closed => Len(sent) = Before

AtRest ==
  /\ hpc = "idle" => buffer = <<>> /\ given = 0
  /\ hpc \in {"idle", "open"} =>
       /\ bodyEmpty /\ ~on_stream_out /\ ~closed
       /\ bodyAt = 0 /\ left = 0 /\ chunk = 0 /\ sent = <<>>
  /\ hpc = "open" => /\ head \in 1 .. BufSize - 2 /\ given = head /\ declared = body
                     /\ kind = "values" => head + body + 3 < Frame
  /\ Building \/ hpc = "done" => data = <<>>
  /\ hpc = "append" => Len(buffer) <= Frame
Begun  == hpc \notin {"idle", "open"}
Filled == hpc \in {"final", "last", "done"}

PagePhase ==
  kind = "page" /\ Begun =>
    /\ hpc \notin {"format", "close"}
    /\ given + left = head + 1 + body /\ left <= body /\ declared = body
    /\ left > 0 /\ chunk >= 1 => body - left >= (chunk - 1) * Frame
    /\ left > 0 /\ chunk >= 1 /\ hpc = "append" => buffer = <<>>
    /\ left > 0 /\ Filled => chunk = MaxChunks
ValuesPhase ==
  kind = "values" /\ Begun =>
    /\ head + body + 3 < Frame /\ hpc # "frame"
    /\ Building => ~closed /\ sent = <<>> /\ bodyAt = head + 1 /\ ~on_stream_out
    /\ hpc = "append" => /\ left <= 1 /\ (left > 0 => chunk = 0)
                         /\ given + left = IF bodyEmpty THEN head + 2 ELSE head + 3 + body
    /\ hpc = "format" => given = head + 2 /\ ~bodyEmpty
    /\ hpc = "close" => given = head + 2 + body /\ ~bodyEmpty
    /\ Filled => given = head + 3 + body /\ declared = body + 2
LogPhase ==
  kind = "log" /\ Begun =>
    /\ hpc \notin {"frame", "close"} /\ (Building => ~closed /\ sent = <<>>)
    /\ ~Filled => left = 0 /\ given = head + 1 /\ head + 1 < BufSize
    /\ Filled => declared = given - head - 1 /\ (declared = body \/ given = BufSize)

ResponseInv ==
  ResponseTypeOK /\ AtRest /\ Ordered /\ PagePhase /\ ValuesPhase /\ LogPhase

LEMMA ResponseSound == ResponseInv => ResponseTypeOK /\ ResponseWhole
<1> SUFFICES ASSUME ResponseInv, hpc = "done"
             PROVE  /\ sent = [i \in 1 .. Len(sent) |-> i]
                    /\ closed \/ BodySent = declared \/ Overlong
                    /\ closed \/ BodySent = Whole \/ Overlong \/ Truncated
  BY DEF ResponseInv, ResponseWhole
<1>0. BufSize \in Nat /\ BufSize > 2 /\ MaxChunks \in Nat \ {0}
  BY BufferAssumption
<1>1. /\ sent \in Seq(Nat) /\ data \in Seq(Nat) /\ given \in Nat /\ left \in Nat /\ head \in Nat /\ body \in Nat
      /\ declared \in Int /\ kind \in {"page", "values", "log"}
  BY DEF ResponseInv, ResponseTypeOK, Lengths
<1>2. /\ Follows(sent, 0) /\ (~closed => Len(sent) = given) /\ Filled /\ Begun /\ ~Building
  BY <1>1 DEF ResponseInv, Ordered, Before, Unsent, Building, AtRest, Filled, Begun
<1>3. sent = [i \in 1 .. Len(sent) |-> i]
  BY <1>1, <1>2 DEF Follows
<1> SUFFICES ASSUME ~closed
             PROVE  /\ BodySent = declared \/ Overlong
                    /\ BodySent = Whole \/ Overlong \/ Truncated
  BY <1>3
<1>4. BodySent = given - head - 1
  BY <1>2 DEF BodySent
<1>5. CASE kind = "page"
  <2>1. /\ given + left = head + 1 + body /\ declared = body
        /\ left > 0 => chunk = MaxChunks
        /\ left > 0 /\ chunk >= 1 => body - left >= (chunk - 1) * Frame
    BY <1>2, <1>5 DEF ResponseInv, PagePhase
  <2>2. CASE left = 0
    BY <1>1, <1>3, <1>4, <1>5, <2>1, <2>2 DEF Whole
  <2>3. CASE left > 0
    <3>1. (MaxChunks - 1) * Frame \in Int
      BY <1>0 DEF Frame
    <3>2. Overlong
      BY <1>0, <1>1, <1>5, <2>1, <2>3, <3>1 DEF Overlong
    <3> QED
      BY <1>3, <3>2
  <2> QED
    BY <1>1, <2>2, <2>3
<1>6. CASE kind = "values"
  <2>1. given = head + 3 + body /\ declared = body + 2
    BY <1>2, <1>6 DEF ResponseInv, ValuesPhase
  <2> QED
    BY <1>1, <1>3, <1>4, <1>6, <2>1 DEF Whole
<1>7. CASE kind = "log"
  <2>1. declared = given - head - 1 /\ (declared = body \/ given = BufSize)
    BY <1>2, <1>7 DEF ResponseInv, LogPhase
  <2> QED
    BY <1>1, <1>2, <1>3, <1>4, <1>7, <2>1 DEF Whole, Truncated
<1> QED
  BY <1>1, <1>5, <1>6, <1>7

LEMMA ResponseInitial == ResponseInit => ResponseInv
<1> SUFFICES ASSUME ResponseInit PROVE ResponseInv
  OBVIOUS
<1>0. BufSize \in Nat /\ MaxChunks \in Nat /\ Retries \in Nat /\ SndBuf \in Nat
  BY BufferAssumption
<1>1. /\ kind = "page" /\ head = 0 /\ body = 0 /\ declared = 0 /\ hpc = "idle"
      /\ buffer = <<>> /\ bodyAt = 0 /\ left = 0 /\ chunk = 0 /\ given = 0
      /\ data = <<>> /\ retry = Retries /\ sndbuf = SndBuf /\ sent = <<>>
  BY DEF ResponseInit
<1>2. ~on_stream_out /\ bodyEmpty /\ ~closed
  BY Zenon DEF ResponseInit
<1>3. on_stream_out \in BOOLEAN /\ bodyEmpty \in BOOLEAN /\ closed \in BOOLEAN
  BY Zenon DEF ResponseInit
<1>4. <<>> \in Seq(Nat) /\ Len(<<>>) = 0
  OBVIOUS
<1>5. /\ kind \in {"page", "values", "log"} /\ head \in Lengths /\ body \in Lengths
      /\ hpc \in {"idle", "open", "append", "format", "close", "final", "frame", "last", "done"}
      /\ Len(buffer) <= BufSize /\ bodyAt \in 0 .. BufSize /\ left \in Nat
      /\ chunk \in 0 .. MaxChunks /\ given \in Nat /\ declared \in Int /\ Len(data) <= BufSize
      /\ retry \in 0 .. Retries /\ sndbuf \in 0 .. SndBuf
  BY <1>0, <1>1 DEF Lengths
<1>6. ResponseTypeOK
  BY <1>1, <1>3, <1>4, <1>5, Zenon DEF ResponseTypeOK
<1>7. AtRest
  BY <1>1, <1>2 DEF AtRest
<1>8. Ordered
  <2>1. Unsent = <<>> /\ sent = <<>> /\ given = 0
    BY <1>1 DEF Unsent, Building
  <2>2. Before = 0
    <3>1. Len(Unsent) = 0
      BY <2>1, Zenon, <1>4
    <3> QED
      BY <1>1, <3>1 DEF Before
  <2> QED
    BY <1>4, <2>1, <2>2, NothingFollows DEF Ordered
<1> QED
  BY <1>1, <1>2, <1>6, <1>7, <1>8 DEF ResponseInv, PagePhase, ValuesPhase, LogPhase, Begun

\* What the steps below know of the types, without the Boolean variables.
Typed ==
  /\ kind \in {"page", "values", "log"} /\ head \in Nat /\ body \in Nat
  /\ hpc \in {"idle", "open", "append", "format", "close", "final", "frame", "last", "done"}
  /\ buffer \in Seq(Nat) /\ Len(buffer) <= BufSize /\ bodyAt \in 0 .. BufSize
  /\ left \in Nat /\ chunk \in 0 .. MaxChunks /\ given \in Nat /\ declared \in Int
  /\ data \in Seq(Nat) /\ Len(data) <= BufSize
  /\ retry \in 0 .. Retries /\ sndbuf \in 0 .. SndBuf /\ sent \in Seq(Nat)
Flags == on_stream_out \in BOOLEAN /\ bodyEmpty \in BOOLEAN /\ closed \in BOOLEAN

LEMMA TypesSplit == ResponseTypeOK <=> Typed /\ Flags
  BY Zenon DEF ResponseTypeOK, Typed, Flags, Lengths

\* The buffer after units were appended to it.
LEMMA Appended ==
  ASSUME ResponseInv, Building, NEW n \in Nat,
         buffer' = buffer \o Units(n), given' = given + n, Unsent' = buffer',
         sent' = sent, closed' = closed
  PROVE  buffer' \in Seq(Nat) /\ Len(buffer') = Len(buffer) + n /\ Ordered'
<1>1. /\ buffer \in Seq(Nat) /\ sent \in Seq(Nat) /\ given \in Nat
      /\ Before = given - Len(buffer) /\ Before \in Nat /\ Follows(buffer, Before)
      /\ Follows(sent, 0) /\ (~closed => Len(sent) = Before)
  BY TypesSplit DEF ResponseInv, Typed, Ordered, Unsent, Before
<1>2. given = Before + Len(buffer)
  BY <1>1
<1>3. buffer' \in Seq(Nat) /\ Len(buffer') = Len(buffer) + n /\ Follows(buffer', Before)
  BY <1>1, <1>2, AppendFollows DEF Units
<1>4. Before' = Before
  <2>1. Before' = given' - Len(buffer')
    BY DEF Before
  <2> QED
    BY <1>1, <1>3, <2>1
<1>5. Follows(Unsent', Before') /\ Follows(sent', 0)
  BY <1>1, <1>3, <1>4
<1> QED
  BY <1>1, <1>3, <1>4, <1>5 DEF Ordered, Follows

LEMMA Rebuilt ==
  ASSUME Typed', Flags', AtRest', Ordered', PagePhase', ValuesPhase', LogPhase'
  PROVE  ResponseInv'
<1>1. ResponseTypeOK'
  BY Zenon DEF ResponseTypeOK, Typed, Flags, Lengths
<1> QED
  BY <1>1, Zenon DEF ResponseInv

LEMMA StartHeadStep ==
  ASSUME ResponseInv, NEW k \in {"page", "values", "log"}, NEW h \in Heads, NEW b \in Bodies,
         StartHead(k, h, b)
  PROVE  ResponseInv'
<1>0. /\ BufSize \in Nat /\ h \in Nat /\ h \in 1 .. BufSize - 2 /\ b \in Nat /\ Frame = BufSize - 1
      /\ SndBuf \in Nat
  BY BufferAssumption, HeadAssumption DEF Frame
<1>1. Typed /\ Flags /\ AtRest /\ hpc = "idle"
  BY TypesSplit DEF ResponseInv, StartHead, Handler
<1>2. /\ sent = <<>> /\ data = <<>> /\ bodyAt = 0 /\ left = 0 /\ chunk = 0
      /\ bodyEmpty /\ ~on_stream_out /\ ~closed
  BY <1>1 DEF AtRest, Building, ResponseInv
<1>3. /\ kind' = k /\ head' = h /\ body' = b /\ declared' = b /\ given' = h /\ hpc' = "open"
      /\ buffer' = [i \in 1 .. h |-> i] /\ sndbuf' \in 0 .. SndBuf
      /\ sent' = sent /\ data' = data /\ bodyAt' = bodyAt /\ left' = left /\ chunk' = chunk
      /\ retry' = retry
      /\ k = "values" => h + b + 3 < Frame
  BY DEF StartHead, Handler
<1>4. on_stream_out' = on_stream_out /\ bodyEmpty' = bodyEmpty /\ closed' = closed
  BY DEF StartHead
<1>5. buffer' \in Seq(Nat) /\ Len(buffer') = h /\ Follows(buffer', 0)
  BY <1>0, <1>3 DEF Follows
<1>6. Typed'
  BY <1>0, <1>1, <1>3, <1>5 DEF Typed
<1>7. Flags'
  BY <1>1, <1>4, Zenon DEF Flags
<1>8. AtRest'
  BY <1>0, <1>2, <1>3, <1>4 DEF AtRest, Frame
<1>9. Ordered'
  BY <1>0, <1>2, <1>3, <1>5 DEF Ordered, Before, Follows, Unsent, Building
<1>10. PagePhase' /\ ValuesPhase' /\ LogPhase'
  BY <1>3 DEF PagePhase, ValuesPhase, LogPhase, Begun
<1> QED
  BY <1>6, <1>7, <1>8, <1>9, <1>10, Rebuilt

\* The body of a page, the first piece before values, nothing before the log.
LEMMA OpenBodyStep == ASSUME ResponseInv, OpenBody PROVE ResponseInv'
<1>0. BufSize \in Nat /\ Frame = BufSize - 1 /\ MaxChunks \in Nat
  BY BufferAssumption DEF Frame
<1>1. Typed /\ Flags /\ AtRest /\ hpc = "open"
  BY TypesSplit DEF ResponseInv, OpenBody, Handler
<1>2. /\ sent = <<>> /\ data = <<>> /\ head \in 1 .. BufSize - 2 /\ given = head /\ declared = body
      /\ kind = "values" => head + body + 3 < Frame
      /\ bodyEmpty /\ ~on_stream_out /\ ~closed
  BY <1>1 DEF AtRest, Building
<1>3. Ordered /\ Building
  BY <1>1 DEF ResponseInv, Building
<1>4. Len(buffer) = head
  BY <1>1, <1>2, <1>3 DEF Ordered, Before, Unsent, Typed
<1>5. /\ hpc' = "append" /\ buffer' = buffer \o Units(1) /\ given' = given + 1
      /\ bodyAt' = Len(buffer) + 1 /\ left' = FirstPiece /\ chunk' = 0
      /\ kind' = kind /\ head' = head /\ body' = body /\ declared' = declared
      /\ data' = data /\ retry' = retry /\ sndbuf' = sndbuf /\ sent' = sent
  BY <1>2 DEF OpenBody, Handler, WriteBody, handlerVars, sendVars
<1>6. on_stream_out' = on_stream_out /\ bodyEmpty' = bodyEmpty /\ closed' = closed
  BY DEF OpenBody, WriteBody, sendVars
<1>7. buffer' \in Seq(Nat) /\ Len(buffer') = head + 1 /\ Ordered'
  <2>1. Unsent' = buffer'
    BY <1>5 DEF Unsent, Building
  <2> QED
    BY <1>3, <1>4, <1>5, <1>6, <2>1, Appended
<1>8. left' \in Nat /\ left' = IF kind = "page" THEN body ELSE IF kind = "values" THEN 1 ELSE 0
  BY <1>1, <1>5 DEF FirstPiece, Typed
<1>9. Typed'
  BY <1>0, <1>1, <1>2, <1>4, <1>5, <1>7, <1>8 DEF Typed
<1>10. Flags'
  BY <1>1, <1>6, Zenon DEF Flags
<1>11. AtRest'
  BY <1>0, <1>2, <1>5, <1>7 DEF AtRest, Building
<1>13. PagePhase'
  BY <1>1, <1>2, <1>5, <1>8 DEF PagePhase, Filled, Typed
<1>14. ValuesPhase'
  BY <1>0, <1>1, <1>2, <1>4, <1>5, <1>6, <1>8 DEF ValuesPhase, Filled, Typed, Frame
<1>15. LogPhase'
  BY <1>0, <1>1, <1>2, <1>5, <1>6, <1>8 DEF LogPhase, Filled, Typed
<1> QED
  BY <1>7, <1>9, <1>10, <1>11, <1>13, <1>14, <1>15, Rebuilt

\* The closing piece, which only handlers that format values have.
LEMMA CloseBodyStep == ASSUME ResponseInv, CloseBody PROVE ResponseInv'
<1>0. BufSize \in Nat /\ Frame = BufSize - 1 /\ MaxChunks \in Nat
  BY BufferAssumption DEF Frame
<1>1. Typed /\ Flags /\ AtRest /\ hpc = "close"
  BY TypesSplit DEF ResponseInv, CloseBody, Handler
<1>2. Ordered /\ Building /\ Begun /\ data = <<>>
  BY <1>1 DEF ResponseInv, Building, Begun, AtRest
<1>3. kind = "values"
  BY <1>1, <1>2 DEF ResponseInv, PagePhase, LogPhase, Typed
<1>4. /\ head + body + 3 < Frame /\ sent = <<>> /\ bodyAt = head + 1 /\ ~on_stream_out
      /\ given = head + 2 + body /\ ~bodyEmpty /\ ~closed
  BY <1>1, <1>2, <1>3 DEF ResponseInv, ValuesPhase
<1>5. Len(buffer) = given
  BY <1>1, <1>2, <1>4 DEF Ordered, Before, Unsent, Typed
<1>6. /\ hpc' = "append" /\ buffer' = buffer \o Units(0) /\ given' = given + 0
      /\ bodyAt' = bodyAt /\ left' = 1 /\ chunk' = 0
      /\ kind' = kind /\ head' = head /\ body' = body /\ declared' = declared
      /\ data' = data /\ retry' = retry /\ sndbuf' = sndbuf /\ sent' = sent
  BY <1>4 DEF CloseBody, Handler, WriteBody, handlerVars, sendVars
<1>7. on_stream_out' = on_stream_out /\ bodyEmpty' = bodyEmpty /\ closed' = closed
  BY DEF CloseBody, WriteBody, sendVars
<1>8. buffer' \in Seq(Nat) /\ Len(buffer') = given /\ Ordered'
  <2>1. Unsent' = buffer'
    BY <1>6 DEF Unsent, Building
  <2>2. Len(buffer') = Len(buffer) + 0 /\ buffer' \in Seq(Nat) /\ Ordered'
    BY <1>2, <1>6, <1>7, <2>1, Appended
  <2> QED
    BY <1>1, <1>5, <2>2 DEF Typed
<1>9. Typed'
  BY <1>0, <1>1, <1>4, <1>6, <1>8 DEF Typed
<1>10. Flags'
  BY <1>1, <1>7, Zenon DEF Flags
<1>11. AtRest'
  BY <1>0, <1>1, <1>2, <1>4, <1>6, <1>8 DEF AtRest, Building, Typed
<1>13. ValuesPhase'
  BY <1>0, <1>1, <1>4, <1>6, <1>7 DEF ValuesPhase, Filled, Typed, Frame
<1>14. PagePhase' /\ LogPhase'
  BY <1>3, <1>6 DEF PagePhase, LogPhase
<1> QED
  BY <1>8, <1>9, <1>10, <1>11, <1>13, <1>14, Rebuilt

\* One more loop of res_write_body: a page that has still units left fills a
\* frame, and from the second loop on a whole one.
LEMMA WholeFrames ==
  ASSUME NEW d \in Int, NEW c \in Int, NEW F \in Int, d >= (c - 1) * F
  PROVE  d + F >= c * F
<1>1. (c - 1) * F + F = c * F /\ (c - 1) * F \in Int /\ c * F \in Int
  OBVIOUS
<1> QED
  BY <1>1

LEMMA AppendChunkStep == ASSUME ResponseInv, AppendChunk PROVE ResponseInv'
<1> DEFINE m == Frame - Len(buffer)
           n == IF left > m THEN m ELSE left
<1>0. BufSize \in Nat /\ BufSize > 2 /\ Frame = BufSize - 1 /\ MaxChunks \in Nat \ {0}
  BY BufferAssumption DEF Frame
<1>1. Typed /\ Flags /\ AtRest /\ hpc = "append" /\ left > 0 /\ chunk < MaxChunks
  BY TypesSplit DEF ResponseInv, AppendChunk
<1>2. Ordered /\ Building /\ Begun /\ ~Filled /\ data = <<>> /\ Len(buffer) <= Frame
  BY <1>1 DEF ResponseInv, Building, Begun, AtRest, Filled
<1>3. ~closed => Len(sent) = given - Len(buffer)
  BY <1>2 DEF Ordered, Before, Unsent
<1>4. /\ buffer' = buffer \o Units(n) /\ given' = given + n /\ left' = left - n
      /\ bodyAt' = IF left > m THEN 0 ELSE bodyAt
      /\ chunk' = chunk + 1
      /\ kind' = kind /\ head' = head /\ body' = body /\ declared' = declared
      /\ retry' = retry /\ sndbuf' = sndbuf /\ sent' = sent
  BY DEF AppendChunk, handlerVars
<1>5. /\ on_stream_out' = (on_stream_out \/ left > m)
      /\ bodyEmpty' = bodyEmpty /\ closed' = closed
  BY DEF AppendChunk
<1>6. n \in Nat /\ n <= left /\ n <= m /\ (left > n <=> left > m)
  BY <1>0, <1>1, <1>2 DEF Typed
<1> HIDE DEF n
<1>7. buffer' \in Seq(Nat) /\ Len(buffer') = Len(buffer) + n /\ Ordered'
  <2>1. Unsent' = buffer'
    BY DEF AppendChunk, Unsent, Building
  <2> QED
    BY <1>2, <1>4, <1>5, <1>6, <2>1, Appended
<1>8. \/ Len(buffer') = Frame /\ hpc' = "frame" /\ data' = buffer'
      \/ Len(buffer') # Frame /\ hpc' = "append" /\ data' = data
  BY DEF AppendChunk
<1>9. Len(buffer) \in Nat /\ Len(buffer') \in Nat /\ Len(buffer') <= Frame /\ Len(sent) \in Nat
  BY <1>0, <1>1, <1>6, <1>7 DEF Typed
<1>10. left' > 0 => Len(buffer') = Frame /\ n = m
  <2>1. left \in Nat /\ left' = left - n /\ Len(buffer') = Len(buffer) + n
    BY <1>1, <1>4, <1>7 DEF Typed
  <2>2. n < left => n = m
    BY <2>1 DEF n
  <2> QED
    BY <1>0, <1>6, <1>9, <2>1, <2>2
<1>11. Typed'
  <2>1. /\ given' \in Nat /\ left' \in Nat /\ chunk' \in 0 .. MaxChunks /\ bodyAt' \in 0 .. BufSize
    BY <1>0, <1>1, <1>4, <1>6 DEF Typed
  <2>2. buffer' \in Seq(Nat) /\ Len(buffer') <= BufSize
    BY <1>0, <1>7, <1>9
  <2>3. /\ hpc' \in {"append", "frame"} /\ data' \in Seq(Nat) /\ Len(data') <= BufSize
    BY <1>1, <1>8, <2>2 DEF Typed
  <2> QED
    BY <1>1, <1>4, <2>1, <2>2, <2>3 DEF Typed
<1>12. Flags'
  BY <1>1, <1>5, Zenon DEF Flags
<1>13. AtRest'
  BY <1>2, <1>8, <1>9 DEF AtRest, Building
<1>15. PagePhase'
  <2> SUFFICES ASSUME kind = "page" PROVE PagePhase'
    BY <1>4 DEF PagePhase
  <2>1. /\ given + left = head + 1 + body /\ left <= body /\ declared = body
        /\ left > 0 /\ chunk >= 1 => body - left >= (chunk - 1) * Frame
        /\ left > 0 /\ chunk >= 1 => buffer = <<>>
    BY <1>1, <1>2 DEF ResponseInv, PagePhase
  <2>2. given' + left' = head' + 1 + body' /\ left' <= body' /\ declared' = body'
    BY <1>1, <1>4, <1>6, <2>1 DEF Typed
  <2>3. left' > 0 => body' - left' >= (chunk' - 1) * Frame
    <3> SUFFICES ASSUME left' > 0 PROVE body - left' >= (chunk' - 1) * Frame
      BY <1>4
    <3>1. chunk' - 1 = chunk /\ chunk \in Nat /\ left \in Nat /\ left' \in Nat /\ body \in Nat
          /\ Frame \in Int
      BY <1>0, <1>1, <1>4, <1>11 DEF Typed
    <3>2. CASE chunk = 0
      <4>1. chunk * Frame = 0 /\ body - left' >= 0
        BY <1>0, <1>4, <1>6, <2>1, <3>1, <3>2
      <4> QED
        BY <3>1, <4>1
    <3>3. CASE chunk >= 1
      <4>1. left' = left - Frame
        BY <1>0, <1>1, <1>4, <1>10, <2>1, <3>1, <3>3 DEF m
      <4>2. body - left >= (chunk - 1) * Frame /\ body - left \in Int
        BY <1>1, <2>1, <3>1, <3>3
      <4>3. (body - left) + Frame >= chunk * Frame
        BY <3>1, <4>2, WholeFrames
      <4> QED
        BY <3>1, <4>1, <4>3
    <3> QED
      BY <3>1, <3>2, <3>3
  <2>4. left' > 0 => hpc' = "frame"
    BY <1>8, <1>10
  <2> QED
    BY <1>8, <2>2, <2>3, <2>4 DEF PagePhase, Filled, Frame
<1>16. ValuesPhase'
  <2> SUFFICES ASSUME kind = "values" PROVE ValuesPhase'
    BY <1>4 DEF ValuesPhase
  <2>1. /\ head + body + 3 < Frame /\ sent = <<>> /\ bodyAt = head + 1 /\ ~on_stream_out /\ ~closed
        /\ left <= 1 /\ (left > 0 => chunk = 0)
        /\ given + left = IF bodyEmpty THEN head + 2 ELSE head + 3 + body
    BY <1>1, <1>2 DEF ResponseInv, ValuesPhase
  <2>2. left = 1 /\ Len(buffer) = given /\ given <= head + 2 + body
    BY <1>1, <1>3, <2>1 DEF Typed
  <2>3. ~(left > m) /\ n = 1
    BY <1>0, <1>1, <2>1, <2>2 DEF Typed, n
  <2>4. Len(buffer') # Frame
    BY <1>0, <1>1, <1>7, <2>1, <2>2, <2>3 DEF Typed
  <2>5. hpc' = "append" /\ left' = 0 /\ given' = given + 1 /\ bodyAt' = bodyAt
    BY <1>4, <1>8, <2>2, <2>3, <2>4
  <2>6. ~on_stream_out'
    BY <1>5, <2>1, <2>3
  <2> QED
    BY <1>1, <1>4, <1>5, <2>1, <2>2, <2>5, <2>6 DEF ValuesPhase, Filled, Frame, Typed
<1>17. LogPhase'
  <2>1. kind # "log"
    BY <1>1, <1>2 DEF ResponseInv, LogPhase
  <2> QED
    BY <1>4, <2>1 DEF LogPhase
<1> QED
  BY <1>7, <1>11, <1>12, <1>13, <1>15, <1>16, <1>17, Rebuilt

LEMMA EndBodyStep == ASSUME ResponseInv, EndBody PROVE ResponseInv'
<1> DEFINE opened == kind = "page" \/ given > head + 2
<1>0. BufSize \in Nat /\ Frame = BufSize - 1 /\ MaxChunks \in Nat \ {0}
  BY BufferAssumption DEF Frame
<1>1. Typed /\ Flags /\ AtRest /\ hpc = "append" /\ (left = 0 \/ chunk = MaxChunks)
  BY TypesSplit DEF ResponseInv, EndBody
<1>2. Ordered /\ Building /\ Begun /\ ~Filled /\ data = <<>>
  BY <1>1 DEF ResponseInv, Building, Begun, AtRest, Filled
<1>3. /\ buffer' = buffer /\ given' = given /\ left' = left /\ bodyAt' = bodyAt /\ chunk' = chunk
      /\ kind' = kind /\ head' = head /\ body' = body
      /\ declared' = IF opened /\ kind = "values" THEN Len(buffer) - bodyAt ELSE declared
      /\ data' = data /\ retry' = retry /\ sndbuf' = sndbuf /\ sent' = sent
      /\ hpc' = IF opened THEN "final" ELSE "format"
  BY DEF EndBody, sendVars
<1>4. /\ on_stream_out' = on_stream_out /\ closed' = closed
      /\ bodyEmpty' = (bodyAt = Len(buffer))
  BY DEF EndBody, sendVars
<1>5. Typed'
  BY <1>1, <1>3 DEF Typed
<1>6. Flags'
  BY <1>1, <1>4, Zenon DEF Flags
<1>7. AtRest'
  BY <1>2, <1>3 DEF AtRest
<1>8. Ordered'
  BY <1>2, <1>3, <1>4 DEF Ordered, Before, Unsent, Building, Follows
<1>9. PagePhase'
  BY <1>0, <1>1, <1>2, <1>3 DEF ResponseInv, PagePhase, Filled, Frame, Typed
<1>10. ValuesPhase'
  <2> SUFFICES ASSUME kind = "values" PROVE ValuesPhase'
    BY <1>3 DEF ValuesPhase
  <2>1. /\ head + body + 3 < Frame /\ sent = <<>> /\ bodyAt = head + 1 /\ ~on_stream_out /\ ~closed
        /\ left <= 1 /\ (left > 0 => chunk = 0)
        /\ given + left = IF bodyEmpty THEN head + 2 ELSE head + 3 + body
    BY <1>1, <1>2 DEF ResponseInv, ValuesPhase
  <2>2. left = 0 /\ Len(buffer) = given
    BY <1>0, <1>1, <1>2, <2>1 DEF Ordered, Before, Unsent, Typed
  <2>3. CASE bodyEmpty
    <3>1. given = head + 2 /\ ~opened /\ hpc' = "format" /\ bodyAt # Len(buffer)
      BY <1>1, <1>3, <2>1, <2>2, <2>3 DEF Typed
    <3>2. ~bodyEmpty'
      BY <1>4, <3>1
    <3> QED
      BY <1>3, <1>4, <2>1, <3>1, <3>2 DEF ValuesPhase, Filled, Frame
  <2>4. CASE ~bodyEmpty
    <3>1. given = head + 3 + body /\ opened /\ hpc' = "final" /\ declared' = body + 2
      BY <1>1, <1>3, <2>1, <2>2, <2>4 DEF Typed
    <3> QED
      BY <1>3, <1>4, <2>1, <3>1 DEF ValuesPhase, Filled, Frame
  <2> QED
    BY <2>3, <2>4
<1>11. LogPhase'
  BY <1>1, <1>2, <1>3, <1>4 DEF ResponseInv, LogPhase, Filled, Typed
<1> QED
  BY <1>5, <1>6, <1>7, <1>8, <1>9, <1>10, <1>11, Rebuilt

LEMMA FormatStep == ASSUME ResponseInv, Format PROVE ResponseInv'
<1> DEFINE n == Fitting(body)
<1>0. BufSize \in Nat /\ Frame = BufSize - 1
  BY BufferAssumption DEF Frame
<1>1. Typed /\ Flags /\ AtRest /\ hpc = "format"
  BY TypesSplit DEF ResponseInv, Format, Handler
<1>2. Ordered /\ Building /\ Begun /\ ~Filled /\ data = <<>> /\ kind \in {"values", "log"}
  BY <1>1 DEF ResponseInv, Building, Begun, AtRest, Filled, PagePhase, Typed
<1>3. /\ buffer' = buffer \o Units(n) /\ given' = given + n /\ declared' = n
      /\ left' = left /\ bodyAt' = bodyAt /\ chunk' = chunk
      /\ kind' = kind /\ head' = head /\ body' = body
      /\ data' = data /\ retry' = retry /\ sndbuf' = sndbuf /\ sent' = sent
      /\ hpc' = IF kind = "values" THEN "close" ELSE "final"
  BY DEF Format, Handler, sendVars
<1>4. on_stream_out' = on_stream_out /\ closed' = closed /\ bodyEmpty' = bodyEmpty
  BY DEF Format, sendVars
<1>5. Len(buffer) \in Nat /\ Len(buffer) <= BufSize /\ body \in Nat /\ given \in Nat /\ head \in Nat
  BY <1>1 DEF Typed
<1>6. n \in Nat /\ n = IF body <= BufSize - Len(buffer) THEN body ELSE BufSize - Len(buffer)
  BY <1>0, <1>5 DEF Fitting, Room
<1> HIDE DEF n
<1>7. buffer' \in Seq(Nat) /\ Len(buffer') = Len(buffer) + n /\ Ordered'
  <2>1. Unsent' = buffer'
    BY <1>2, <1>3 DEF Unsent, Building
  <2> QED
    BY <1>2, <1>3, <1>4, <1>6, <2>1, Appended
<1>8. Len(buffer') <= BufSize
  BY <1>0, <1>5, <1>6, <1>7
<1>9. Typed'
  <2>1. given' \in Nat /\ declared' \in Int /\ hpc' \in {"close", "final"}
    BY <1>2, <1>3, <1>5, <1>6
  <2> QED
    BY <1>1, <1>3, <1>7, <1>8, <2>1 DEF Typed
<1>10. Flags'
  BY <1>1, <1>4, Zenon DEF Flags
<1>11. AtRest'
  BY <1>2, <1>3 DEF AtRest
<1>12. ~closed => Len(sent) = given - Len(buffer)
  BY <1>2 DEF Ordered, Before, Unsent
<1>14. PagePhase'
  BY <1>2, <1>3 DEF PagePhase
<1>15. ValuesPhase'
  <2> SUFFICES ASSUME kind = "values" PROVE ValuesPhase'
    BY <1>3 DEF ValuesPhase
  <2>1. /\ head + body + 3 < Frame /\ sent = <<>> /\ bodyAt = head + 1 /\ ~on_stream_out
        /\ given = head + 2 /\ ~bodyEmpty /\ ~closed
    BY <1>1, <1>2 DEF ResponseInv, ValuesPhase
  <2>2. Len(buffer) = given
    BY <1>5, <1>12, <2>1
  <2>3. n = body
    BY <1>0, <1>5, <1>6, <2>1, <2>2
  <2> QED
    BY <1>3, <1>4, <2>1, <2>3 DEF ValuesPhase, Filled, Frame
<1>16. LogPhase'
  <2> SUFFICES ASSUME kind = "log" PROVE LogPhase'
    BY <1>3 DEF LogPhase
  <2>1. sent = <<>> /\ given = head + 1 /\ ~closed
    BY <1>1, <1>2 DEF ResponseInv, LogPhase
  <2>2. Len(buffer) = given
    BY <1>5, <1>12, <2>1
  <2>3. n = given' - head - 1 /\ (n = body \/ given' = BufSize)
    BY <1>0, <1>3, <1>5, <1>6, <2>1, <2>2
  <2> QED
    BY <1>3, <1>4, <2>1, <2>3 DEF LogPhase, Filled
<1> QED
  BY <1>7, <1>9, <1>10, <1>11, <1>14, <1>15, <1>16, Rebuilt

LEMMA LastStep == ASSUME ResponseInv, Last PROVE ResponseInv'
<1>1. Typed /\ Flags /\ AtRest /\ hpc = "final"
  BY TypesSplit DEF ResponseInv, Last, Handler
<1>2. Ordered /\ Building /\ Begun /\ Filled
  BY <1>1 DEF ResponseInv, Building, Begun, Filled
<1>3. /\ buffer' = buffer /\ given' = given /\ declared' = declared
      /\ left' = left /\ bodyAt' = bodyAt /\ chunk' = chunk
      /\ kind' = kind /\ head' = head /\ body' = body
      /\ data' = buffer /\ retry' = retry /\ sndbuf' = sndbuf /\ sent' = sent
      /\ hpc' = "last"
  BY DEF Last, Handler, handlerVars, bufferVars
<1>4. on_stream_out' = on_stream_out /\ closed' = closed /\ bodyEmpty' = bodyEmpty
  BY DEF Last, bufferVars
<1>5. Typed'
  BY <1>1, <1>3 DEF Typed
<1>6. Flags'
  BY <1>1, <1>4, Zenon DEF Flags
<1>7. AtRest'
  BY <1>3 DEF AtRest, Building
<1>8. Ordered'
  BY <1>2, <1>3, <1>4 DEF Ordered, Before, Unsent, Building, Follows
<1>9. PagePhase'
  BY <1>1, <1>2, <1>3 DEF ResponseInv, PagePhase, Filled, Frame
<1>10. ValuesPhase'
  BY <1>1, <1>2, <1>3 DEF ResponseInv, ValuesPhase, Filled, Frame, Building
<1>11. LogPhase'
  BY <1>1, <1>2, <1>3 DEF ResponseInv, LogPhase, Filled, Building
<1> QED
  BY <1>5, <1>6, <1>7, <1>8, <1>9, <1>10, <1>11, Rebuilt

\* What lwIP takes of the frame follows what it took before.
LEMMA TakenFollows ==
  ASSUME ResponseInv, Sending, ~closed, TakeUnits
  PROVE  /\ sent' \in Seq(Nat) /\ Follows(sent', 0) /\ sndbuf' \in 0 .. SndBuf
         /\ Taken > 0 => LET e == SubSeq(data, Taken + 1, Len(data)) IN
              /\ Taken <= Len(data) /\ e \in Seq(Nat) /\ Len(e) = Len(data) - Taken
              /\ Len(sent') = Len(sent) + Taken /\ Follows(e, Len(sent'))
<1> DEFINE t == Taken
           u == sent \o SubSeq(data, 1, t)
<1>1. Typed
  BY TypesSplit DEF ResponseInv
<1>2. /\ data \in Seq(Nat) /\ sent \in Seq(Nat) /\ Len(data) \in Nat
      /\ sndbuf \in 0 .. SndBuf /\ SndBuf \in Nat
  BY <1>1, BufferAssumption DEF Typed
<1>3. t \in 0 .. Len(data) /\ t <= sndbuf /\ sndbuf' \in 0 .. SndBuf
  BY <1>2 DEF Taken, TakeUnits
<1>4. Follows(sent, 0) /\ Follows(data, Len(sent))
  BY DEF ResponseInv, Ordered, Unsent, Building, Sending
<1>5. sent' = u
  BY DEF TakeUnits
<1> HIDE DEF t
<1> DEFINE e == SubSeq(data, t + 1, Len(data))
<1>6. /\ u \in Seq(Nat) /\ Len(u) = Len(sent) + t /\ Follows(u, 0)
      /\ e \in Seq(Nat) /\ Len(e) = Len(data) - t /\ Follows(e, Len(u))
  BY <1>2, <1>3, <1>4, MoveFollows
<1> HIDE DEF u
<1> QED
  BY <1>2, <1>3, <1>5, <1>6 DEF t

\* send_data hands over the next units of the frame, or tries again.
LEMMA WriteStep == ASSUME ResponseInv, Write \/ Refused PROVE ResponseInv'
<1>1. Typed /\ Flags /\ AtRest /\ Sending
  BY TypesSplit DEF ResponseInv, Write, Refused, Refusable
<1>2. /\ Ordered /\ Unsent = data /\ ~Building /\ Begun
      /\ hpc \notin {"idle", "open", "append", "done"}
  BY <1>1 DEF ResponseInv, Building, Begun, Sending, Unsent
<1>3. /\ buffer' = buffer /\ given' = given /\ declared' = declared
      /\ left' = left /\ bodyAt' = bodyAt /\ chunk' = chunk
      /\ kind' = kind /\ head' = head /\ body' = body /\ hpc' = hpc
      /\ on_stream_out' = on_stream_out /\ closed' = closed /\ bodyEmpty' = bodyEmpty
  BY DEF Write, Refused, handlerVars, bufferVars
<1>4. Flags'
  BY <1>1, <1>3, Zenon DEF Flags
<1>5. AtRest'
  BY <1>2, <1>3 DEF AtRest, Building
<1>6. PagePhase' /\ ValuesPhase' /\ LogPhase'
  BY <1>1, <1>2, <1>3
  DEF ResponseInv, PagePhase, ValuesPhase, LogPhase, Filled, Frame, Building, Begun
<1>7. Typed' /\ Ordered'
  <2>1. CASE Refused
    <3>1. data' = data /\ sent' = sent /\ sndbuf' = sndbuf /\ retry' = retry - 1 /\ retry > 1
      BY <2>1 DEF Refused
    <3>2. retry' \in 0 .. Retries
      BY <1>1, <3>1, BufferAssumption DEF Typed
    <3>3. Typed'
      BY <1>1, <1>3, <3>1, <3>2 DEF Typed
    <3>4. Ordered'
      BY <1>2, <1>3, <3>1 DEF Ordered, Before, Follows, Unsent, Building
    <3> QED
      BY <3>3, <3>4
  <2>2. CASE Write
    <3>1. /\ ~closed /\ Taken > 0 /\ TakeUnits /\ retry' = retry
          /\ data' = SubSeq(data, Taken + 1, Len(data))
      BY <2>2 DEF Write
    <3>2. /\ sent' \in Seq(Nat) /\ Follows(sent', 0) /\ sndbuf' \in 0 .. SndBuf
          /\ Taken <= Len(data) /\ data' \in Seq(Nat) /\ Len(data') = Len(data) - Taken
          /\ Len(sent') = Len(sent) + Taken /\ Follows(data', Len(sent'))
      BY <1>1, <3>1, TakenFollows
    <3>3. Len(data) <= BufSize /\ Taken \in Nat /\ Len(data) \in Nat /\ Len(sent) \in Nat
          /\ given \in Nat /\ BufSize \in Nat
      BY <1>1, BufferAssumption DEF Typed, Taken
    <3>4. Typed'
      <4>1. Len(data') <= BufSize
        BY <3>2, <3>3
      <4> QED
        BY <1>1, <1>3, <3>1, <3>2, <4>1 DEF Typed
    <3>5. Unsent' = data'
      BY <1>2, <1>3 DEF Unsent, Building
    <3>6. Len(sent') = given' - Len(data')
      <4>1. Len(sent) = given - Len(data)
        BY <1>2, <3>1 DEF Ordered, Before
      <4> QED
        BY <1>3, <3>2, <3>3, <4>1
    <3>7. Before' = Len(sent') /\ Before' \in Nat
      BY <3>2, <3>5, <3>6 DEF Before
    <3>8. Follows(Unsent', Before') /\ Follows(sent', 0)
      BY <3>2, <3>5, <3>7
    <3>9. Ordered'
      BY <3>7, <3>8 DEF Ordered, Follows
    <3> QED
      BY <3>4, <3>9
  <2> QED
    BY <2>1, <2>2
<1> QED
  BY <1>4, <1>5, <1>6, <1>7, Rebuilt

\* send_data returns, with the session closed or not.
LEMMA LeaveStep ==
  ASSUME ResponseInv, Sending, LeaveSend,
         sent' \in Seq(Nat), Follows(sent', 0), sndbuf' \in 0 .. SndBuf, closed' \in BOOLEAN,
         ~closed' => ~closed /\ data = <<>> /\ sent' = sent
  PROVE  ResponseInv'
<1>0. Retries \in Nat /\ BufSize \in Nat /\ Frame \in Nat
  BY BufferAssumption DEF Frame
<1>1. Typed /\ Flags /\ AtRest
  BY TypesSplit DEF ResponseInv
<1>2. Ordered /\ Unsent = data /\ ~Building /\ Begun
  BY <1>1 DEF ResponseInv, Building, Begun, Sending, Unsent
<1>3. /\ given' = given /\ declared' = declared
      /\ left' = left /\ bodyAt' = bodyAt /\ chunk' = chunk
      /\ kind' = kind /\ head' = head /\ body' = body
      /\ data' = <<>> /\ buffer' = <<>> /\ retry' = Retries
      /\ on_stream_out' = on_stream_out /\ bodyEmpty' = bodyEmpty
      /\ hpc' = IF hpc = "frame" THEN "append" ELSE "done"
  BY DEF LeaveSend, handlerVars
<1>4. <<>> \in Seq(Nat) /\ Len(<<>>) = 0
  OBVIOUS
<1>5. /\ hpc' \in {"append", "done"}
      /\ (hpc' = "append" <=> hpc = "frame") /\ (hpc' = "done" <=> hpc = "last")
  BY <1>3 DEF Sending
<1>6. Typed'
  BY <1>0, <1>1, <1>3, <1>4, <1>5 DEF Typed
<1>7. Flags'
  BY <1>1, <1>3, Zenon DEF Flags
<1>8. AtRest'
  BY <1>0, <1>3, <1>4, <1>5 DEF AtRest, Building
<1>9. Ordered'
  <2>1. Unsent' = <<>>
    BY <1>3, <1>5 DEF Unsent, Building
  <2>2. Before' = given /\ given \in Nat
    BY <1>1, <1>3, <1>4, <2>1 DEF Before, Typed
  <2>3. ~closed' => Len(sent') = given
    BY <1>1, <1>2, <1>4 DEF Ordered, Before, Typed
  <2> QED
    BY <1>4, <2>1, <2>2, <2>3 DEF Ordered, Follows
<1>10. PagePhase'
  BY <1>1, <1>2, <1>3, <1>5 DEF ResponseInv, PagePhase, Filled, Frame, Sending
<1>11. ValuesPhase'
  BY <1>1, <1>2, <1>3, <1>5 DEF ResponseInv, ValuesPhase, Filled, Frame, Sending, Building
<1>12. LogPhase'
  BY <1>1, <1>2, <1>3, <1>5 DEF ResponseInv, LogPhase, Filled, Sending, Building
<1> QED
  BY <1>6, <1>7, <1>8, <1>9, <1>10, <1>11, <1>12, Rebuilt

LEMMA SentStep == ASSUME ResponseInv, Sent PROVE ResponseInv'
<1>1. Typed /\ Flags /\ Follows(sent, 0)
  BY TypesSplit DEF ResponseInv, Ordered
<1>2. Sending /\ LeaveSend /\ data = <<>> /\ sent' = sent /\ sndbuf' = sndbuf
  BY DEF Sent, LoopEnds
<1>3. closed' = closed
  BY DEF Sent
<1>4. sent' \in Seq(Nat) /\ Follows(sent', 0) /\ sndbuf' \in 0 .. SndBuf
  BY <1>1, <1>2 DEF Typed
<1> QED
  BY <1>1, <1>2, <1>3, <1>4, LeaveStep DEF Flags

LEMMA CutShortStep == ASSUME ResponseInv, GiveUp \/ OutputFailed PROVE ResponseInv'
<1>1. Typed /\ Follows(sent, 0)
  BY TypesSplit DEF ResponseInv, Ordered
<1>2. Sending /\ LeaveSend /\ closed' = TRUE
  BY DEF GiveUp, OutputFailed, Refusable
<1>3. sent' \in Seq(Nat) /\ Follows(sent', 0) /\ sndbuf' \in 0 .. SndBuf
  <2>1. CASE GiveUp
    BY <1>1, <2>1 DEF GiveUp, Typed
  <2>2. CASE OutputFailed
    <3>1. ~closed /\ TakeUnits
      BY <2>2 DEF OutputFailed
    <3> QED
      BY <1>2, <3>1, TakenFollows
  <2> QED
    BY <2>1, <2>2
<1> QED
  BY <1>2, <1>3, LeaveStep

LEMMA DoneStep == ASSUME ResponseInv, Done PROVE ResponseInv'
<1>0. BufSize \in Nat /\ MaxChunks \in Nat /\ Retries \in Nat /\ SndBuf \in Nat
  BY BufferAssumption
<1>1. /\ kind' = "page" /\ head' = 0 /\ body' = 0 /\ declared' = 0 /\ hpc' = "idle"
      /\ buffer' = <<>> /\ bodyAt' = 0 /\ left' = 0 /\ chunk' = 0 /\ given' = 0
      /\ data' = <<>> /\ retry' = Retries /\ sndbuf' = SndBuf /\ sent' = <<>>
  BY DEF Done, Handler, Clear
<1>2. ~on_stream_out' /\ bodyEmpty' /\ ~closed'
  BY Zenon DEF Done, Clear
<1>3. Flags'
  BY Zenon DEF Done, Clear, Flags
<1>4. <<>> \in Seq(Nat) /\ Len(<<>>) = 0
  OBVIOUS
<1>5. Typed'
  BY <1>0, <1>1, <1>4 DEF Typed
<1>6. AtRest'
  BY <1>1, <1>2 DEF AtRest
<1>7. Ordered'
  <2>1. Unsent' = <<>>
    BY <1>1 DEF Unsent, Building
  <2>2. Before' = 0
    <3>1. Len(Unsent') = 0
      BY <2>1, Zenon, <1>4
    <3> QED
      BY <1>1, <3>1 DEF Before
  <2>3. Follows(Unsent', Before') /\ Follows(sent', 0)
    BY <1>1, <2>1, NothingFollows
  <2> QED
    BY <1>1, <1>4, <2>2, <2>3 DEF Ordered, Follows
<1>8. PagePhase' /\ ValuesPhase' /\ LogPhase'
  BY <1>1 DEF PagePhase, ValuesPhase, LogPhase, Begun
<1> QED
  BY <1>3, <1>5, <1>6, <1>7, <1>8, Rebuilt

LEMMA ResponseStep == ResponseInv /\ [ResponseNext]_responseVars => ResponseInv'
<1> SUFFICES ASSUME ResponseInv, [ResponseNext]_responseVars PROVE ResponseInv'
  OBVIOUS
<1>1. CASE UNCHANGED responseVars
  <2> USE <1>1 DEF responseVars, handlerVars, bufferVars, sendVars
  <2>1. ResponseTypeOK' /\ AtRest'
    BY DEF ResponseInv, ResponseTypeOK, AtRest, Building, Frame
  <2>2. Unsent' = Unsent /\ Before' = Before
    BY DEF Unsent, Before, Building
  <2>3. Ordered'
    BY <2>2 DEF ResponseInv, Ordered, Follows
  <2>4. PagePhase' /\ ValuesPhase' /\ LogPhase'
    BY DEF ResponseInv, PagePhase, ValuesPhase, LogPhase, Begun, Building, Filled, Frame
  <2> QED
    BY <2>1, <2>3, <2>4 DEF ResponseInv
<1>2. CASE Tcpip
  BY <1>2, OpenBodyStep, CloseBodyStep, AppendChunkStep, EndBodyStep, FormatStep, LastStep,
     WriteStep, CutShortStep, SentStep, DoneStep DEF Tcpip
<1> QED
  BY <1>1, <1>2, StartHeadStep, CutShortStep DEF ResponseNext

-----------------------------------------------------------------------------
(* How long the log's reader and send_data can take: what a fair thread    *)
(* needs, to end what it has begun.                                        *)

\* The reader's own steps until its page is finished, at most.
PrintLeft ==
  CASE rpc = "idle"  -> 0
    [] rpc = "print" -> Left2Print + 1
    [] rpc = "end"   -> Size + 2
\* Each of them brings print_errors nearer to its end, which is at most Size + 2
\* steps away; nothing that is pushed meanwhile, raced or not, puts it off.
PrintBounded ==
  [][/\ PrintLeft \in 0 .. Size + 2 /\ (rpc # "idle" => PrintLeft > 0)
     /\ rpc # "idle" => IF Reader THEN PrintLeft' < PrintLeft ELSE PrintLeft' = PrintLeft]_logVars

LEMMA PrintRange ==
  LogTyped => /\ Left2Print \in 0 .. Size /\ PrintLeft \in 0 .. Size + 2
              /\ rpc # "idle" => PrintLeft > 0
<1> SUFFICES ASSUME LogTyped
             PROVE  /\ Left2Print \in 0 .. Size /\ PrintLeft \in 0 .. Size + 2
                    /\ rpc # "idle" => PrintLeft > 0
  OBVIOUS
<1>1. Size \in Nat \ {0} /\ cur \in Slot /\ last \in Slot /\ rpc \in {"idle", "end", "print"}
  BY LogAssumption DEF LogTyped, LogTypeOK
<1>2. Left2Print \in 0 .. Size
  BY <1>1 DEF Left2Print, Slot
<1> QED
  BY <1>1, <1>2 DEF PrintLeft

LEMMA PrintStep ==
  ASSUME LogTyped, [LogNext]_logVars, rpc # "idle"
  PROVE  IF Reader THEN PrintLeft' < PrintLeft ELSE PrintLeft' = PrintLeft
<1>1. Size \in Nat \ {0} /\ cur \in Slot /\ last \in Slot /\ rpc \in {"end", "print"}
  BY LogAssumption DEF LogTyped, LogTypeOK
<1>2. CASE End
  <2>1. cur' = cur /\ last' = cur_write /\ first' = first /\ cur_write \in Slot
    BY <1>2 DEF LogTyped, LogTypeOK, End, EndOfRing
  <2>2. Left2Print' \in Int /\ Left2Print' <= Size
    BY <1>1, <2>1 DEF Left2Print, Slot
  <2>3. rpc = "end" /\ rpc' = "print"
    BY <1>2 DEF End
  <2> QED
    BY <1>1, <1>2, <2>2, <2>3 DEF PrintLeft, Reader
<1>3. CASE PrintEntry
  <2>1. rpc = "print" /\ rpc' = "print" /\ ~AtEnd /\ last' = last /\ cur' = Next1(cur) /\ first' = FALSE
    BY <1>3 DEF PrintEntry, Advance
  <2>2. cur' \in Slot /\ cur' = IF cur = Size - 1 THEN 0 ELSE cur + 1
    BY <1>1, <2>1, Next1Is
  <2>3. Left2Print \in Int /\ Left2Print' = Left2Print - 1
    BY <1>1, <2>1, <2>2 DEF Left2Print, Slot, AtEnd
  <2> QED
    BY <1>3, <2>1, <2>3 DEF PrintLeft, Reader
<1>4. CASE Finish
  <2>1. rpc = "print" /\ rpc' = "idle"
    BY <1>4 DEF Finish
  <2>2. PrintLeft > 0
    BY <1>1, PrintRange
  <2> QED
    BY <1>4, <2>1, <2>2 DEF PrintLeft, Reader
<1>5. CASE ~Reader
  <2>1. rpc' = rpc /\ cur' = cur /\ last' = last /\ first' = first
    BY <1>1, <1>5 DEF LogNext, Begin, Logger, PushRead, PushStep, PushStart, PushWrite, PushFull, Fill,
         logVars, readerVars
  <2> QED
    BY <1>5, <2>1 DEF PrintLeft, Left2Print
<1> QED
  BY <1>2, <1>3, <1>4, <1>5 DEF Reader

\* A page of the log is finished within Size + 2 steps of its reader, whatever
\* is pushed meanwhile and even if pushes race (the iterator compares indices
\* that it keeps): the safety core of PageEnds.
THEOREM PrintingEnds == LogSpec => PrintBounded
<1>1. LogTyped /\ [LogNext]_logVars
      => /\ PrintLeft \in 0 .. Size + 2 /\ (rpc # "idle" => PrintLeft > 0)
         /\ rpc # "idle" => IF Reader THEN PrintLeft' < PrintLeft ELSE PrintLeft' = PrintLeft
  BY PrintRange, PrintStep
<1> QED
  BY <1>1, LogTypedInit, LogTypedStep, PTL DEF LogSpec, PrintBounded

\* What send_data has left to hand over, and tries left.
SendLeft == Len(data) + retry
\* Each step of send_data ends it or leaves it less to do; and it has such a
\* step unless lwIP has no room for the session.
SendBounded ==
  [][/\ SendLeft \in 0 .. BufSize + Retries
     /\ Sending /\ (sndbuf # 0 \/ closed) => LoopEnds \/ Refusable
     /\ Sending => ~Sending' \/ SendLeft' < SendLeft]_responseVars

LEMMA SendStep ==
  ASSUME ResponseInv, [ResponseNext]_responseVars, ~UNCHANGED responseVars
  PROVE  /\ SendLeft \in 0 .. BufSize + Retries
         /\ Sending /\ (sndbuf # 0 \/ closed) => LoopEnds \/ Refusable
         /\ Sending => ~Sending' \/ SendLeft' < SendLeft
<1>1. Typed
  BY TypesSplit DEF ResponseInv
<1>2. /\ data \in Seq(Nat) /\ Len(data) \in 0 .. BufSize /\ retry \in 0 .. Retries /\ sndbuf \in 0 .. SndBuf
      /\ BufSize \in Nat /\ Retries \in Nat /\ SndBuf \in Nat
  BY <1>1, BufferAssumption DEF Typed
<1>3. SendLeft \in 0 .. BufSize + Retries
  BY <1>2 DEF SendLeft
<1>4. Sending /\ (sndbuf # 0 \/ closed) => LoopEnds \/ Refusable
  BY <1>2 DEF LoopEnds, Taken, Refusable
<1>5. ASSUME Sending PROVE ~Sending' \/ SendLeft' < SendLeft
  <2>1. CASE Write
    <3>1. data' = SubSeq(data, Taken + 1, Len(data)) /\ retry' = retry
      BY <2>1 DEF Write
    <3>2. Taken \in 1 .. Len(data)
      BY <1>2, <2>1 DEF Write, Taken
    <3>3. Len(data') = Len(data) - Taken
      BY <1>2, <3>1, <3>2
    <3> QED
      BY <1>2, <3>1, <3>2, <3>3 DEF SendLeft
  <2>2. CASE Refused
    BY <1>2, <2>2 DEF Refused, SendLeft
  <2>3. CASE Sent \/ GiveUp \/ OutputFailed
    BY <2>3 DEF Sent, GiveUp, OutputFailed, LeaveSend, Sending
  <2> QED
    BY <1>5, <2>1, <2>2, <2>3
    DEF ResponseNext, Tcpip, Sending, Handler, StartHead, OpenBody, CloseBody, AppendChunk, EndBody,
        Format, Last, Done
<1> QED
  BY <1>3, <1>4, <1>5

\* send_data returns after at most BufSize + Retries of its steps, sent or
\* closed, and until then stands still only when lwIP has no room left: the
\* safety core of SendReturns, and where the tcpip thread may be lost.
THEOREM SendingEnds == ResponseSpec => SendBounded
<1>1. ResponseInv /\ [ResponseNext]_responseVars
      => [/\ SendLeft \in 0 .. BufSize + Retries
          /\ Sending /\ (sndbuf # 0 \/ closed) => LoopEnds \/ Refusable
          /\ Sending => ~Sending' \/ SendLeft' < SendLeft]_responseVars
  BY SendStep
<1> QED
  BY <1>1, ResponseInitial, ResponseStep, PTL DEF ResponseSpec, SendBounded

-----------------------------------------------------------------------------
(* The instance: each part runs while the others stay as they began.       *)

Inv == PageInv /\ BridgeInv /\ ResponseInv

LEMMA InvInitial == Init => Inv
  BY PageInitial, BridgeInitial, ResponseInitial DEF Init, Inv

LEMMA InvStep == Inv /\ [Next]_vars => Inv'
<1> SUFFICES ASSUME Inv, [Next]_vars PROVE Inv'
  OBVIOUS
<1>1. [LogNext]_logVars /\ [BridgeNext]_bridgeVars /\ [ResponseNext]_responseVars
  BY Zenon DEF Next, Log, Bridge, Response, vars
<1> QED
  BY <1>1, PageStep, BridgeStep, ResponseStep, Zenon DEF Inv

LEMMA InvSound ==
  Inv => /\ TypeOK /\ RingIsNewest /\ PageInOrder /\ PageComplete
         /\ ServedTogether /\ ResponseWhole
  BY RingSound, PageSound, BridgeSound, ResponseSound DEF Inv, TypeOK, PageInv, BridgeInv

\* A response that was not cut short is sent in order, each unit once, and its
\* length is the one declared, whatever frames it was cut into and whatever
\* lwIP took of each; only overlong pages and a log without room lose their end.
THEOREM ResponsesAreWhole == ResponseSpec => []ResponseWhole
  BY ResponseInitial, ResponseStep, ResponseSound, PTL DEF ResponseSpec

\* Indices stay within the ring and the registers, lengths within the buffers,
\* a page of the log within its room, in every state of the instance.
THEOREM TypeCorrect == Spec => []TypeOK
  BY InvInitial, InvStep, InvSound, PTL DEF Spec

\* What the log holds and its pages show, what a Modbus client is served and
\* what the webserver sends, in every state of the instance.
THEOREM PagesSafe ==
  Spec => []/\ RingIsNewest /\ PageInOrder /\ PageComplete
            /\ ServedTogether /\ ResponseWhole
  BY InvInitial, InvStep, InvSound, PTL DEF Spec
=============================================================================
