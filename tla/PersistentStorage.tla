-------------------------- MODULE PersistentStorage --------------------------
(***************************************************************************)
(* The settings in flash (include/persistent_storage.h).  They lie at the  *)
(* very end of the flash; a write copies the sectors around its setting    *)
(* into one shared buffer, erases them and programs them again, all under  *)
(* _memory_mutex.  Flash erases by sector, to ones, and programs by page,  *)
(* which can only clear bits: a byte is the set of its bits that are one.  *)
(*                                                                         *)
(* The writers are lwIP's tcpip thread (the webserver's handlers) and the  *)
(* USB task.  With Faults the power may fail between any two steps, and    *)
(* flash_safe_execute may refuse to run an erase or a program.  read() is  *)
(* a copy out of flash under the mutex: it changes nothing, and sees the   *)
(* flash of a state in which nobody holds the mutex.                       *)
(***************************************************************************)
EXTENDS Integers, FiniteSets

CONSTANTS
  Tasks,          \* the tasks that use the store
  NoTask,         \* nobody holds _memory_mutex
  Fields,         \* members of persistent_storage_layout
  Offset,         \* field -> its offset in the layout
  Size,           \* field -> its bytes
  LayoutSize,     \* sizeof(persistent_storage_layout) (276)
  FlashSize,      \* FLASH_SIZE
  Sector,         \* FLASH_SECTOR_SIZE (4096)
  Page,           \* flash page size (256)
  Bits,           \* the bits of a byte
  Samples,        \* the byte values that callers write
  Contents,       \* what flash may hold at start-up: the image, settings of old
  Faults          \* TRUE: power failures and failing flash operations

Byte   == SUBSET Bits
Erased == Bits
Addr   == 0 .. FlashSize - 1
Buffer == 0 .. 2 * Sector - 1      \* MAX_WRITE_SIZE is two sectors

\* The layout fits behind the image, and fields are disjoint.
ASSUME SizeAssumption ==
  /\ Sector \in Nat \ {0} /\ Page \in Nat \ {0} /\ Sector % Page = 0
  /\ FlashSize \in Nat /\ LayoutSize \in 0 .. FlashSize /\ FlashSize % Sector = 0
ASSUME LayoutAssumption ==
  /\ Fields # {}
  /\ Offset \in [Fields -> Nat] /\ Size \in [Fields -> Nat \ {0}]
  /\ \A f \in Fields : Offset[f] + Size[f] <= LayoutSize
  /\ \A f, g \in Fields :
       f # g => Offset[f] + Size[f] <= Offset[g] \/ Offset[g] + Size[g] <= Offset[f]
ASSUME ValueAssumption == Samples \subseteq Byte /\ NoTask \notin Tasks /\ Faults \in BOOLEAN
ASSUME ContentAssumption == Contents \subseteq [Addr -> Byte]

Data     == [f \in Fields |-> [0 .. Size[f] - 1 -> Byte]]
Input(f) == [0 .. Size[f] - 1 -> Samples]
Nothing  == <<>>                    \* no data was taken yet

VARIABLES
  flash,      \* the flash
  buf,        \* _write_buffer
  holder,     \* who holds _memory_mutex
  pc,         \* task -> where it is in write()
  fld,        \* task -> the field of its write
  given,      \* task -> what its caller's object held when it was copied
  cur,        \* the address up to which the holder has erased or programmed
  lost        \* addresses a fault has hit, until they are written again

vars == <<flash, buf, holder, pc, fld, given, cur, lost>>

-----------------------------------------------------------------------------
(* The addresses of a write.                                               *)

SectorDown(a) == (a \div Sector) * Sector
SectorUp(a)   == ((a + Sector - 1) \div Sector) * Sector

StartData(f)  == (FlashSize - LayoutSize) + Offset[f]
EndData(f)    == StartData(f) + Size[f]
StartPaged(f) == SectorDown(StartData(f))
EndPaged(f)   == SectorUp(EndData(f))

\* What write() checks first: the window fits into the buffer.
ASSUME WindowAssumption == \A f \in Fields : EndPaged(f) - StartPaged(f) <= 2 * Sector

InData(f, a)   == StartData(f) <= a /\ a < EndData(f)
InWindow(f, a) == StartPaged(f) <= a /\ a < EndPaged(f)

\* The byte of address a in the buffer of a write of f.
Buffered(f, a) == buf[a - StartPaged(f)]

TypeOK ==
  /\ flash \in [Addr -> Byte] /\ buf \in [Buffer -> Byte]
  /\ holder \in Tasks \cup {NoTask}
  /\ pc \in [Tasks -> {"idle", "lock", "merge", "erase", "program", "done"}]
  /\ fld \in [Tasks -> Fields] /\ cur \in 0 .. FlashSize /\ lost \subseteq Addr
  /\ given \in [Tasks -> {Nothing} \cup UNION {Data[f] : f \in Fields}]

Init ==
  /\ flash \in Contents /\ buf = [b \in Buffer |-> {}]
  /\ holder = NoTask /\ pc = [t \in Tasks |-> "idle"]
  /\ fld = [t \in Tasks |-> CHOOSE f \in Fields : TRUE] /\ cur = 0 /\ lost = {}
  /\ given = [t \in Tasks |-> Nothing]

-----------------------------------------------------------------------------
(* write().                                                                *)

Goto(t, from, to) == pc[t] = from /\ pc' = [pc EXCEPT ![t] = to]

\* write(data, member): a window of more than two sectors is refused, which
\* WindowAssumption excludes; otherwise wait for the mutex.
Call(t, f) ==
  /\ Goto(t, "idle", "lock") /\ fld' = [fld EXCEPT ![t] = f]
  /\ UNCHANGED <<flash, buf, holder, given, cur, lost>>

\* (A definition named Mutant... is not part of the model: it is a plausible
\* bug, used to confirm that a property would notice it.)
MutantNoMutex(t) == holder' = t
Lock(t)          == holder = NoTask /\ holder' = t
\* The caller passes its object by reference; it is copied into its place in the
\* buffer under the mutex, and around it the buffer is as the last write left it.
Acquire(t, d) ==
  /\ Goto(t, "lock", "merge") /\ Lock(t)
  /\ given' = [given EXCEPT ![t] = d]
  /\ LET first == StartData(fld[t]) - StartPaged(fld[t])
     IN  buf' = [b \in Buffer |-> IF first <= b /\ b < first + Size[fld[t]] THEN d[b - first]
                                                                       ELSE buf[b]]
  /\ UNCHANGED <<flash, fld, cur, lost>>

MutantNoTail(f, a) == StartPaged(f) <= a /\ a < StartData(f)
\* _write_impl copies the head and the tail of the window out of flash.
Around(f, a) == InWindow(f, a) /\ ~InData(f, a)
Merge(t) ==
  /\ Goto(t, "merge", "erase")
  /\ LET f == fld[t] IN
       /\ buf' = [b \in Buffer |-> IF Around(f, StartPaged(f) + b) THEN flash[StartPaged(f) + b]
                                                                  ELSE buf[b]]
       /\ cur' = StartPaged(f)
       /\ lost' = {a \in lost : ~InData(f, a)}
  /\ UNCHANGED <<flash, holder, fld, given>>

MutantErase(t) ==
  /\ pc[t] = "erase" /\ cur <= EndPaged(fld[t])
  /\ flash' = [a \in Addr |-> IF cur <= a /\ a < cur + Sector THEN Erased ELSE flash[a]]
  /\ cur' = cur + Sector
  /\ UNCHANGED <<buf, holder, pc, fld, given, lost>>

\* flash_range_erase, sector by sector.
Erase(t) ==
  /\ pc[t] = "erase" /\ cur < EndPaged(fld[t])
  /\ flash' = [a \in Addr |-> IF cur <= a /\ a < cur + Sector THEN Erased ELSE flash[a]]
  /\ cur' = cur + Sector
  /\ UNCHANGED <<buf, holder, pc, fld, given, lost>>

EraseDone(t) ==
  /\ Goto(t, "erase", "program") /\ cur >= EndPaged(fld[t])
  /\ cur' = StartPaged(fld[t])
  /\ UNCHANGED <<flash, buf, holder, fld, given, lost>>

\* flash_range_program, page by page: bits are cleared, never set.
Program(t) ==
  /\ pc[t] = "program" /\ cur < EndPaged(fld[t])
  /\ flash' = [a \in Addr |->
                 IF cur <= a /\ a < cur + Page
                 THEN flash[a] \cap Buffered(fld[t], a) ELSE flash[a]]
  /\ cur' = cur + Page
  /\ UNCHANGED <<buf, holder, pc, fld, given, lost>>

ProgramDone(t) ==
  /\ Goto(t, "program", "done") /\ cur >= EndPaged(fld[t])
  /\ UNCHANGED <<flash, buf, holder, fld, given, cur, lost>>

MutantKeepsMutex(t) ==
  Goto(t, "done", "idle") /\ UNCHANGED <<flash, buf, holder, fld, given, cur, lost>>

\* The mutex is given back; _write_impl returns PICO_OK whatever happened.
Return(t) ==
  /\ Goto(t, "done", "idle") /\ holder' = NoTask /\ given' = [given EXCEPT ![t] = Nothing]
  /\ UNCHANGED <<flash, buf, fld, cur, lost>>

-----------------------------------------------------------------------------
(* Faults.                                                                 *)

\* flash_safe_execute refuses the erase: it is logged, and the program still
\* runs, over bytes that were not erased.
EraseRefused(t) ==
  /\ Faults /\ Goto(t, "erase", "program") /\ cur = StartPaged(fld[t])
  /\ lost' = lost \cup {a \in Addr : InData(fld[t], a)}
  /\ UNCHANGED <<flash, buf, holder, fld, given, cur>>

\* flash_safe_execute refuses the program: the window stays erased.
ProgramRefused(t) ==
  /\ Faults /\ Goto(t, "program", "done") /\ cur = StartPaged(fld[t])
  /\ lost' = lost \cup {a \in Addr : InWindow(fld[t], a)}
  /\ UNCHANGED <<flash, buf, holder, fld, given, cur>>

\* The bytes a power failure costs: the whole window once its erase has begun,
\* the new data before that.
Endangered(t) ==
  IF pc[t] = "program" \/ (pc[t] = "erase" /\ cur > StartPaged(fld[t]))
  THEN {a \in Addr : InWindow(fld[t], a)}
  ELSE IF pc[t] = "erase" THEN {a \in Addr : InData(fld[t], a)} ELSE {}

\* The power fails and the device starts again.
Crash ==
  /\ Faults
  /\ lost' = lost \cup UNION {Endangered(t) : t \in Tasks}
  /\ buf' = [b \in Buffer |-> {}] /\ holder' = NoTask
  /\ pc' = [t \in Tasks |-> "idle"] /\ cur' = 0 /\ given' = [t \in Tasks |-> Nothing]
  /\ UNCHANGED <<flash, fld>>

-----------------------------------------------------------------------------
Work(t) == \/ Merge(t) \/ Erase(t) \/ EraseDone(t) \/ Program(t) \/ ProgramDone(t) \/ Return(t)

Gets(t) == \E d \in Input(fld[t]) : Acquire(t, d)

Next ==
  \/ \E t \in Tasks : Work(t) \/ Gets(t) \/ EraseRefused(t) \/ ProgramRefused(t)
  \/ \E t \in Tasks, f \in Fields : Call(t, f)
  \/ Crash

\* The tasks share one priority and are time sliced (over two cores), so the
\* holder keeps running; giving the semaphore wakes its longest waiter, and although another
\* task may take it first, that does not go on for ever.
Fairness == \A t \in Tasks : WF_vars(Work(t)) /\ SF_vars(Gets(t))

Spec == Init /\ [][Next]_vars /\ Fairness

-----------------------------------------------------------------------------
(* Properties.                                                             *)

\* A write takes effect when its window is merged: from then on until it is
\* programmed the buffer holds the settings, otherwise the flash does.
Busy(t) == pc[t] \in {"erase", "program"}
Visible(a) ==
  IF holder # NoTask /\ Busy(holder) /\ InWindow(fld[holder], a)
  THEN Buffered(fld[holder], a) ELSE flash[a]
Stored == [f \in Fields |-> [k \in 0 .. Size[f] - 1 |-> Visible(StartData(f) + k)]]

\* Without faults the store is a register per setting: each call writes once,
\* before it returns, the whole of what its caller's object held when it was
\* copied, whatever the other callers do with the one buffer and whatever shares
\* the sectors: Settings, with Stored for the registers.
Progress == [t \in Tasks |-> CASE pc[t] = "idle"  -> "idle"
                               [] pc[t] = "lock"  -> "called"
                               [] pc[t] = "merge" -> "given"
                               [] OTHER           -> "written"]
Store == INSTANCE Settings WITH
  Callers <- Tasks, stored <- Stored, at <- Progress, field <- fld, data <- given
IsSettingsStore == Store!Spec

\* With faults, a byte no fault has hit since it was last written changes only
\* by a write of its own field: in particular the neighbours in its sector, and
\* the program image in front of the layout, survive every write.
OnlyOwnWriteChanges ==
  [][\A a \in Addr \ lost' :
       Visible(a)' # Visible(a) => \E t \in Tasks : Merge(t) /\ InData(fld[t], a)]_vars

\* Every write that is called returns.
WriteReturns == \A t \in Tasks : pc[t] = "lock" ~> pc[t] = "idle"

\* The callers in webserver.h and usb_interface.h log "Failed to permanently
\* store ..." when write() does not return PICO_OK: a write that returns
\* PICO_OK would have stored its data.
OkMeansStored ==
  \A t \in Tasks : pc[t] = "done" =>
    \A a \in Addr : InData(fld[t], a) => flash[a] = Buffered(fld[t], a)
=============================================================================
