---------------------- MODULE PersistentStorage_proofs ----------------------
(***************************************************************************)
(* For every layout, sector and page size and every set of tasks: the      *)
(* types, the mutual exclusion, what survives a fault, and that without    *)
(* faults the store implements Settings.  The inductive invariant says     *)
(* where each byte of the holder's window is: below the cursor of an erase *)
(* it is erased, above it still equal to the buffer; below the cursor of a *)
(* program it equals the buffer, above it at worst erased.  The same       *)
(* cursor bounds how long a task holds the mutex.                          *)
(***************************************************************************)
EXTENDS PersistentStorage, TLAPS

USE SizeAssumption, LayoutAssumption, ValueAssumption, WindowAssumption

-----------------------------------------------------------------------------
(* Addresses.                                                              *)

LEMMA DivMod ==
  ASSUME NEW a \in Int, NEW M \in Nat \ {0}
  PROVE  a = M * (a \div M) + (a % M) /\ (a % M) \in 0 .. M - 1 /\ (a \div M) \in Int
BY SMT

\* A multiple of M below another is at least M below it.
LEMMA NextMultiple ==
  ASSUME NEW M \in Nat \ {0}, NEW j \in Int, NEW k \in Int, j * M < k * M
  PROVE  (j + 1) * M <= k * M /\ (j + 1) * M = j * M + M
<1>1. j < k
  BY SMT
<1>2. k - j - 1 \in Nat
  BY <1>1
<1>3. (k - j - 1) * M >= 0
  BY <1>2
<1>4. (k - j - 1) * M = k * M - j * M - M
  BY SMT
<1>5. (j + 1) * M = j * M + M
  BY SMT
<1> QED
  BY <1>3, <1>4, <1>5

\* The window of a field: whole sectors around it, inside the flash.
LEMMA Window ==
  ASSUME NEW f \in Fields
  PROVE  /\ StartData(f) \in Nat /\ EndData(f) \in Nat
         /\ StartPaged(f) \in Nat /\ EndPaged(f) \in Nat
         /\ StartPaged(f) <= StartData(f) /\ StartData(f) < EndData(f)
         /\ EndData(f) <= EndPaged(f) /\ EndPaged(f) <= FlashSize
         /\ StartPaged(f) <= EndPaged(f) /\ StartPaged(f) <= FlashSize
         /\ \E k \in Int : StartPaged(f) = k * Sector
         /\ \E k \in Int : EndPaged(f) = k * Sector
<1> DEFINE s == StartData(f)
           e == EndData(f)
<1>1. s \in Nat /\ e \in Nat /\ s < e /\ e <= FlashSize
  BY DEF StartData, EndData
<1> HIDE DEF s, e
<1>2. s = Sector * (s \div Sector) + (s % Sector) /\ (s % Sector) \in 0 .. Sector - 1
      /\ (s \div Sector) \in Int
  <2>1. s \in Int
    BY <1>1
  <2> QED
    BY <2>1, DivMod, SizeAssumption, Zenon
<1>3. StartPaged(f) = (s \div Sector) * Sector
  BY DEF StartPaged, SectorDown, s
<1>4. StartPaged(f) <= s
  BY <1>1, <1>2, <1>3
<1>5. (s \div Sector) >= 0
  BY <1>1, <1>2
<1>6. StartPaged(f) \in Nat
  BY <1>2, <1>3, <1>5
<1> DEFINE q == (e + Sector - 1) \div Sector
           r == (e + Sector - 1) % Sector
<1>7. e + Sector - 1 = Sector * q + r /\ r \in 0 .. Sector - 1 /\ q \in Int
  <2>1. e + Sector - 1 \in Int
    BY <1>1
  <2> QED
    BY <2>1, DivMod, SizeAssumption, Zenon
<1>8. EndPaged(f) = q * Sector
  BY DEF EndPaged, SectorUp, e
<1> HIDE DEF q, r
<1>9. EndPaged(f) \in Int /\ e <= EndPaged(f) /\ EndPaged(f) < e + Sector
  BY <1>1, <1>7, <1>8
<1>10. EndPaged(f) <= FlashSize
  <2>1. PICK m \in Int : FlashSize = Sector * m
    <3>1. FlashSize \in Int
      OBVIOUS
    <3>2. FlashSize = Sector * (FlashSize \div Sector) + (FlashSize % Sector)
          /\ (FlashSize \div Sector) \in Int
      BY <3>1, DivMod, SizeAssumption, Zenon
    <3>3. FlashSize = Sector * (FlashSize \div Sector)
      BY <3>2
    <3> QED
      BY <3>2, <3>3, Zenon
  <2>2. CASE FlashSize < EndPaged(f)
    <3>1. m * Sector < q * Sector
      BY <1>8, <2>1, <2>2
    <3>2. m * Sector + Sector <= q * Sector
      BY <1>7, <3>1, <2>1, NextMultiple
    <3> QED
      BY <1>1, <1>8, <1>9, <2>1, <3>2
  <2> QED
    BY <1>9, <2>2
<1>11. (\E k \in Int : StartPaged(f) = k * Sector) /\ (\E k \in Int : EndPaged(f) = k * Sector)
  BY <1>2, <1>3, <1>7, <1>8
<1>12. EndPaged(f) \in Nat
  BY <1>1, <1>9
<1>13. StartPaged(f) <= EndPaged(f) /\ StartPaged(f) <= FlashSize
  BY <1>1, <1>4, <1>6, <1>9, <1>10
<1> QED
  BY <1>1, <1>4, <1>6, <1>9, <1>10, <1>11, <1>12, <1>13, Zenon DEF s, e

\* An address of a window is one of the flash and has a byte in the buffer.
LEMMA WindowIndex ==
  ASSUME NEW f \in Fields, NEW a \in Int, InWindow(f, a)
  PROVE  a \in Addr /\ a - StartPaged(f) \in Buffer
BY Window DEF InWindow, Addr, Buffer

\* A field lies in its own window.
LEMMA DataInWindow ==
  ASSUME NEW f \in Fields, NEW a \in Int, InData(f, a)
  PROVE  InWindow(f, a)
BY Window DEF InWindow, InData

-----------------------------------------------------------------------------
(* The inductive invariant.                                                *)

\* Where the holder's cursor stands: in its window, on a sector or a page.
CursorAt(t) ==
  /\ pc[t] \in {"erase", "program"} => StartPaged(fld[t]) <= cur /\ cur <= EndPaged(fld[t])
  /\ pc[t] = "erase" => \E k \in Int : cur = k * Sector
  /\ pc[t] = "program" => \E k \in Int : cur = k * Page

\* What the bytes of the holder's window are, unless a fault hit them.
EraseByte(f, a) ==
  IF a < cur THEN flash[a] = Erased ELSE InData(f, a) \/ flash[a] = Buffered(f, a)
ProgramByte(f, a) ==
  IF a < cur THEN flash[a] = Buffered(f, a) ELSE flash[a] \in {Erased, Buffered(f, a)}
BytesAt(t) ==
  \A a \in Addr \ lost : InWindow(fld[t], a) =>
    /\ pc[t] = "erase" => EraseByte(fld[t], a)
    /\ pc[t] = "program" => ProgramByte(fld[t], a)
    /\ pc[t] = "done" => flash[a] = Buffered(fld[t], a)

\* One task at a time is past the mutex, so the shared buffer is its own.
MutexHeld ==
  \A t \in Tasks : pc[t] \notin {"idle", "lock"} <=> holder = t

IInv ==
  /\ TypeOK
  /\ MutexHeld
  /\ \A t \in Tasks : CursorAt(t)
  /\ \A t \in Tasks : BytesAt(t)

\* Whoever is past the mutex holds it, and everyone else is in front of it.
LEMMA Alone ==
  ASSUME MutexHeld, NEW t \in Tasks, pc[t] \notin {"idle", "lock"}
  PROVE  holder = t /\ \A u \in Tasks : u # t => pc[u] \in {"idle", "lock"}
BY DEF MutexHeld

\* In front of the mutex nothing is claimed about the cursor and the bytes.
LEMMA Outside ==
  ASSUME NEW t \in Tasks, pc[t] \in {"idle", "lock", "merge"}
  PROVE  CursorAt(t) /\ BytesAt(t)
BY DEF CursorAt, BytesAt

LEMMA PagesPerSector == \E n \in Int : Sector = n * Page
<1>1. Sector \in Int
  OBVIOUS
<1>2. Sector = Page * (Sector \div Page) + (Sector % Page) /\ (Sector \div Page) \in Int
  BY <1>1, DivMod, SizeAssumption, Zenon
<1>3. Sector = (Sector \div Page) * Page
  BY <1>2
<1> QED
  BY <1>2, <1>3, Zenon

\* A cursor on a multiple of M, below the end of the window, can advance by M.
LEMMA Advance ==
  ASSUME NEW f \in Fields, NEW M \in {Sector, Page}, NEW c \in Int,
         StartPaged(f) <= c, c < EndPaged(f), \E k \in Int : c = k * M
  PROVE  c + M <= EndPaged(f) /\ \E k \in Int : c + M = k * M
<1>1. PICK j \in Int : c = j * M
  OBVIOUS
<1>2. PICK n \in Int : EndPaged(f) = n * M
  <2>1. PICK m \in Int : EndPaged(f) = m * Sector
    BY Window
  <2>2. PICK p \in Int : Sector = p * Page
    BY PagesPerSector
  <2>3. EndPaged(f) = (m * p) * Page /\ m * p \in Int
    <3>1. m * (p * Page) = (m * p) * Page
      BY SMT
    <3> QED
      BY <2>1, <2>2, <3>1
  <2> QED
    BY <2>1, <2>3
<1>3. M \in Nat \ {0}
  OBVIOUS
<1>4. (j + 1) * M <= n * M /\ (j + 1) * M = j * M + M
  <2>1. j * M < n * M
    BY <1>1, <1>2
  <2> QED
    BY <1>3, <2>1, NextMultiple
<1>5. c + M = (j + 1) * M /\ j + 1 \in Int
  BY <1>1, <1>4
<1> QED
  BY <1>2, <1>4, <1>5

LEMMA InitInv == Init => IInv
<1> SUFFICES ASSUME Init PROVE IInv
  OBVIOUS
<1>1. TypeOK
  <2>1. flash \in [Addr -> Byte]
    BY ContentAssumption DEF Init
  <2>2. buf \in [Buffer -> Byte]
    BY DEF Init, Byte
  <2> QED
    BY <2>1, <2>2 DEF Init, TypeOK
<1>2. MutexHeld
  BY DEF Init, MutexHeld
<1>3. ASSUME NEW t \in Tasks PROVE CursorAt(t) /\ BytesAt(t)
  BY Outside DEF Init
<1> QED
  BY <1>1, <1>2, <1>3 DEF IInv

-----------------------------------------------------------------------------
(* One lemma per action: it keeps the invariant, and a byte no fault has   *)
(* hit is visibly the same afterwards, except when Merge publishes it.     *)

Kept == \A a \in Addr \ lost' : Visible(a)' = Visible(a)

OthersInvariant(t) ==
  /\ pc' \in [Tasks -> {"idle", "lock", "merge", "erase", "program", "done"}]
  /\ holder' \in Tasks \cup {NoTask} /\ fld' \in [Tasks -> Fields]
  /\ MutexHeld'
  /\ CursorAt(t)' => \A u \in Tasks : CursorAt(u)'
  /\ BytesAt(t)' => \A u \in Tasks : BytesAt(u)'

\* A step of t inside the mutex leaves everyone else in front of it, so the
\* claims about the cursor and the bytes are those about t.
LEMMA OnlyHolder ==
  ASSUME IInv, NEW t \in Tasks, pc[t] \notin {"idle", "lock"},
         NEW p \in {"idle", "merge", "erase", "program", "done"}, pc' = [pc EXCEPT ![t] = p],
         fld' = fld, holder' = IF p = "idle" THEN NoTask ELSE holder
  PROVE  OthersInvariant(t)
<1> USE DEF IInv, TypeOK, OthersInvariant
<1>1. holder = t /\ \A u \in Tasks : u # t => pc[u] \in {"idle", "lock"}
  BY Alone
<1>2. \A u \in Tasks : pc'[u] = IF u = t THEN p ELSE pc[u]
  OBVIOUS
<1>3. MutexHeld'
  BY <1>1, <1>2 DEF MutexHeld
<1>4. ASSUME NEW u \in Tasks, u # t PROVE CursorAt(u)' /\ BytesAt(u)'
  <2>1. pc'[u] \in {"idle", "lock"}
    BY <1>1, <1>2, <1>4
  <2> QED
    BY <2>1 DEF CursorAt, BytesAt
<1> QED
  BY <1>2, <1>3, <1>4

LEMMA CallInv ==
  ASSUME IInv, NEW t \in Tasks, NEW f \in Fields, Call(t, f)
  PROVE  IInv' /\ Kept
<1> USE DEF IInv, Call, Goto
<1>1. TypeOK'
  BY DEF TypeOK
<1>2. \A u \in Tasks : u # t => pc'[u] = pc[u] /\ fld'[u] = fld[u]
  BY DEF TypeOK
<1>3. pc'[t] = "lock"
  BY DEF TypeOK
<1>4. MutexHeld'
  BY <1>2, <1>3 DEF MutexHeld, TypeOK
<1>5. ASSUME NEW u \in Tasks PROVE CursorAt(u)' /\ BytesAt(u)'
  <2>1. CASE u = t
    BY <1>3, <2>1 DEF CursorAt, BytesAt
  <2>2. CASE u # t
    <3>1. pc'[u] = pc[u] /\ fld'[u] = fld[u]
      BY <1>2, <2>2
    <3>2. CursorAt(u)'
      BY <3>1 DEF CursorAt
    <3>3. BytesAt(u)'
      BY <3>1 DEF BytesAt, EraseByte, ProgramByte, Buffered
    <3> QED
      BY <3>2, <3>3
  <2> QED
    BY <2>1, <2>2
<1>6. Kept
  <2>1. holder # t
    BY DEF MutexHeld
  <2>2. holder # NoTask => pc'[holder] = pc[holder] /\ fld'[holder] = fld[holder]
    BY <1>2, <2>1 DEF TypeOK
  <2> QED
    BY <2>2 DEF Kept, Visible, Busy, Buffered
<1> QED
  BY <1>1, <1>4, <1>5, <1>6

LEMMA AcquireInv ==
  ASSUME IInv, NEW t \in Tasks, Gets(t)
  PROVE  IInv' /\ Kept
<1> PICK d \in Input(fld[t]) : Acquire(t, d)
  BY DEF Gets
<1> USE DEF IInv, Acquire, Goto, Lock
<1>1. pc' = [pc EXCEPT ![t] = "merge"] /\ holder = NoTask /\ holder' = t /\ pc[t] = "lock"
  OBVIOUS
<1>2. \A u \in Tasks : pc'[u] = (IF u = t THEN "merge" ELSE pc[u])
                       /\ pc[u] \in {"idle", "lock"}
  BY <1>1 DEF TypeOK, MutexHeld
<1>3. buf' \in [Buffer -> Byte]
  <2> DEFINE first == StartData(fld[t]) - StartPaged(fld[t])
  <2>1. ASSUME NEW b \in Buffer, first <= b, b < first + Size[fld[t]]
        PROVE  d[b - first] \in Byte
    <3>1. fld[t] \in Fields /\ Size[fld[t]] \in Nat
      BY DEF TypeOK
    <3>2. first \in Int
      BY <3>1, Window
    <3>3. b - first \in 0 .. Size[fld[t]] - 1
      BY <2>1, <3>1, <3>2 DEF Buffer
    <3> QED
      BY <3>3 DEF Input
  <2> QED
    BY <2>1 DEF TypeOK
<1>4. TypeOK'
  <2>1. d \in Data[fld[t]] /\ fld[t] \in Fields
    BY DEF TypeOK, Input, Data
  <2>2. given' \in [Tasks -> {Nothing} \cup UNION {Data[f] : f \in Fields}]
    BY <2>1 DEF TypeOK
  <2> QED
    BY <1>3, <2>2 DEF TypeOK
<1>5. MutexHeld'
  BY <1>1, <1>2 DEF MutexHeld
<1>6. ASSUME NEW u \in Tasks PROVE CursorAt(u)' /\ BytesAt(u)'
  <2>1. pc'[u] \in {"idle", "lock", "merge"}
    BY <1>2
  <2> QED
    BY <2>1 DEF CursorAt, BytesAt
<1>7. Kept
  BY <1>1, <1>2 DEF Kept, Visible, Busy
<1> QED
  BY <1>4, <1>5, <1>6, <1>7

LEMMA MergeInv ==
  ASSUME IInv, NEW t \in Tasks, Merge(t)
  PROVE  /\ IInv'
         /\ \A a \in Addr : ~InData(fld[t], a) => Visible(a)' = Visible(a)
<1> USE DEF IInv, Merge, Goto
<1>0. PICK f \in Fields : f = fld[t]
  BY DEF TypeOK
<1>1. pc[t] = "merge" /\ pc' = [pc EXCEPT ![t] = "erase"] /\ f \in Fields
      /\ fld' = fld /\ holder' = holder /\ flash' = flash /\ cur' = StartPaged(f)
  BY <1>0
<1>2. holder = t
  BY <1>1, Alone
<1>3. \A a \in Addr : Around(f, a) =>
        a - StartPaged(f) \in Buffer /\ buf'[a - StartPaged(f)] = flash[a]
  <2> SUFFICES ASSUME NEW a \in Addr, Around(f, a)
               PROVE  a - StartPaged(f) \in Buffer /\ buf'[a - StartPaged(f)] = flash[a]
    OBVIOUS
  <2>1. a \in Int /\ StartPaged(f) \in Int
    BY <1>1, Window DEF Addr
  <2>2. a - StartPaged(f) \in Buffer
    BY <1>1, <2>1, WindowIndex DEF Around
  <2>3. StartPaged(f) + (a - StartPaged(f)) = a
    BY <2>1
  <2> QED
    BY <1>0, <2>2, <2>3
<1>4. buf' \in [Buffer -> Byte]
  <2>1. ASSUME NEW b \in Buffer, Around(f, StartPaged(f) + b)
        PROVE  flash[StartPaged(f) + b] \in Byte
    <3>1. StartPaged(f) + b \in Int
      BY <1>1, Window DEF Buffer
    <3>2. StartPaged(f) + b \in Addr
      BY <1>1, <2>1, <3>1, WindowIndex DEF Around
    <3> QED
      BY <3>2 DEF TypeOK
  <2> QED
    BY <1>0, <2>1 DEF TypeOK
<1>5. OthersInvariant(t)
  BY <1>1, OnlyHolder
<1>6. TypeOK'
  <2>1. cur' \in 0 .. FlashSize
    BY <1>1, Window
  <2> QED
    BY <1>1, <1>4, <1>5, <2>1 DEF TypeOK, OthersInvariant
<1>7. CursorAt(t)'
  <2>1. StartPaged(f) <= EndPaged(f) /\ \E k \in Int : cur' = k * Sector
    BY <1>1, Window
  <2>2. pc'[t] = "erase" /\ fld'[t] = f
    BY <1>0, <1>1 DEF TypeOK
  <2>3. StartPaged(f) <= cur' /\ cur' <= EndPaged(f)
    BY <1>1, Window
  <2> QED
    BY <2>1, <2>2, <2>3 DEF CursorAt
<1>8. BytesAt(t)'
  <2>1. pc'[t] = "erase" /\ fld'[t] = f
    BY <1>0, <1>1 DEF TypeOK
  <2>2. ASSUME NEW a \in Addr, InWindow(f, a) PROVE EraseByte(f, a)'
    <3>1. ~(a < cur')
      BY <1>1, <2>2, Window DEF InWindow, Addr
    <3>2. InData(f, a) \/ buf'[a - StartPaged(f)] = flash[a]
      BY <1>3, <2>2 DEF Around
    <3> QED
      BY <1>1, <3>1, <3>2 DEF EraseByte, Buffered
  <2> QED
    BY <2>1, <2>2 DEF BytesAt
<1>9. ASSUME NEW a \in Addr, ~InData(fld[t], a) PROVE Visible(a)' = Visible(a)
  <2>1. Visible(a) = flash[a]
    BY <1>1, <1>2 DEF Visible, Busy
  <2>2. pc'[t] = "erase" /\ fld'[t] = f /\ holder' = t /\ t # NoTask
    BY <1>0, <1>1, <1>2 DEF TypeOK
  <2>3. Visible(a)' = IF InWindow(f, a) THEN buf'[a - StartPaged(f)] ELSE flash[a]
    BY <1>1, <2>2 DEF Visible, Busy, Buffered
  <2> QED
    BY <1>0, <1>3, <1>9, <2>1, <2>3 DEF Around
<1> QED
  BY <1>5, <1>6, <1>7, <1>8, <1>9 DEF OthersInvariant

\* What is visible while t is past the mutex.
LEMMA HolderVisible ==
  ASSUME TypeOK, MutexHeld, NEW t \in Tasks, pc[t] \notin {"idle", "lock"}, NEW a \in Addr
  PROVE  Visible(a) = IF Busy(t) /\ InWindow(fld[t], a) THEN Buffered(fld[t], a) ELSE flash[a]
BY Alone DEF Visible, TypeOK

LEMMA EraseInv ==
  ASSUME IInv, NEW t \in Tasks, Erase(t)
  PROVE  IInv' /\ Kept
<1> USE DEF IInv, Erase
<1>0. PICK f \in Fields : f = fld[t]
  BY DEF TypeOK
<1>1. pc[t] = "erase" /\ pc' = pc /\ fld' = fld /\ holder' = holder /\ buf' = buf
      /\ lost' = lost /\ cur' = cur + Sector /\ cur < EndPaged(f) /\ cur \in Nat
  BY <1>0 DEF TypeOK
<1>2. pc' = [pc EXCEPT ![t] = "erase"]
  BY <1>1 DEF TypeOK
<1>3. OthersInvariant(t)
  BY <1>1, <1>2, OnlyHolder
<1>4. StartPaged(f) <= cur /\ \E k \in Int : cur = k * Sector
  BY <1>0, <1>1 DEF CursorAt
<1>5. cur + Sector <= EndPaged(f) /\ \E k \in Int : cur + Sector = k * Sector
  <2>1. cur \in Int /\ cur < EndPaged(f) /\ Sector \in {Sector, Page}
    BY <1>1
  <2> QED
    BY <1>4, <2>1, Advance, Zenon
<1>6. StartPaged(f) \in Nat /\ EndPaged(f) \in Nat /\ EndPaged(f) <= FlashSize
  BY Window
<1>7. TypeOK'
  <2>1. cur' \in 0 .. FlashSize
    BY <1>1, <1>5, <1>6
  <2>2. flash' \in [Addr -> Byte]
    BY DEF TypeOK, Byte, Erased
  <2> QED
    BY <1>1, <2>1, <2>2 DEF TypeOK
<1>8. CursorAt(t)'
  <2>1. StartPaged(f) <= cur' /\ cur' <= EndPaged(f)
    BY <1>1, <1>4, <1>5, <1>6
  <2>2. fld'[t] = f /\ pc'[t] = "erase"
    BY <1>0, <1>1
  <2>3. \E k \in Int : cur' = k * Sector
    BY <1>1, <1>5
  <2> QED
    BY <2>1, <2>2, <2>3 DEF CursorAt
<1>9. BytesAt(t)'
  <2>1. fld'[t] = f /\ pc'[t] = "erase"
    BY <1>0, <1>1
  <2>2. ASSUME NEW a \in Addr \ lost, InWindow(f, a) PROVE EraseByte(f, a)'
    <3>1. EraseByte(f, a)
      BY <1>0, <1>1, <2>2 DEF BytesAt
    <3>2. flash'[a] = IF cur <= a /\ a < cur + Sector THEN Erased ELSE flash[a]
      OBVIOUS
    <3>3. a \in Int
      BY DEF Addr
    <3> QED
      BY <1>1, <3>1, <3>2, <3>3 DEF EraseByte, Buffered
  <2> QED
    BY <1>1, <2>1, <2>2 DEF BytesAt
<1>10. ASSUME NEW a \in Addr PROVE Visible(a)' = Visible(a)
  <2>1. Visible(a) = IF InWindow(f, a) THEN Buffered(f, a) ELSE flash[a]
    BY <1>0, <1>1, HolderVisible DEF Busy
  <2>2. Visible(a)' = IF InWindow(f, a) THEN Buffered(f, a) ELSE flash'[a]
    BY <1>0, <1>1, <2>1 DEF Visible, Busy, Buffered, MutexHeld, TypeOK
  <2>3. flash'[a] = IF cur <= a /\ a < cur + Sector THEN Erased ELSE flash[a]
    OBVIOUS
  <2>4. cur <= a /\ a < cur + Sector => InWindow(f, a)
    <3>1. StartPaged(f) <= cur /\ cur + Sector <= EndPaged(f)
      BY <1>4, <1>5
    <3>2. a \in Int /\ cur \in Int /\ Sector \in Int
      BY <1>1, SizeAssumption DEF Addr
    <3>3. StartPaged(f) \in Int /\ EndPaged(f) \in Int
      BY <1>6
    <3> QED
      BY <3>1, <3>2, <3>3 DEF InWindow
  <2> QED
    BY <2>1, <2>2, <2>3, <2>4
<1> QED
  BY <1>3, <1>7, <1>8, <1>9, <1>10 DEF OthersInvariant, Kept

LEMMA ProgramInv ==
  ASSUME IInv, NEW t \in Tasks, Program(t)
  PROVE  IInv' /\ Kept
<1> USE DEF IInv, Program
<1>0. PICK f \in Fields : f = fld[t]
  BY DEF TypeOK
<1>1. pc[t] = "program" /\ pc' = pc /\ fld' = fld /\ holder' = holder /\ buf' = buf
      /\ lost' = lost /\ cur' = cur + Page /\ cur < EndPaged(f) /\ cur \in Nat
  BY <1>0 DEF TypeOK
<1>2. pc' = [pc EXCEPT ![t] = "program"]
  BY <1>1 DEF TypeOK
<1>3. OthersInvariant(t)
  BY <1>1, <1>2, OnlyHolder
<1>4. StartPaged(f) <= cur /\ \E k \in Int : cur = k * Page
  BY <1>0, <1>1 DEF CursorAt
<1>5. cur + Page <= EndPaged(f) /\ \E k \in Int : cur + Page = k * Page
  <2>1. cur \in Int /\ cur < EndPaged(f) /\ Page \in {Sector, Page}
    BY <1>1
  <2> QED
    BY <1>4, <2>1, Advance, Zenon
<1>6. StartPaged(f) \in Nat /\ EndPaged(f) \in Nat /\ EndPaged(f) <= FlashSize
  BY Window
<1>7. \A a \in Addr :
        flash'[a] = IF cur <= a /\ a < cur + Page THEN flash[a] \cap Buffered(f, a) ELSE flash[a]
  BY <1>0
<1>8. TypeOK'
  <2>1. cur' \in 0 .. FlashSize
    BY <1>1, <1>5, <1>6
  <2>2. flash' \in [Addr -> Byte]
    BY DEF TypeOK, Byte
  <2> QED
    BY <1>1, <2>1, <2>2 DEF TypeOK
<1>9. CursorAt(t)'
  <2>1. StartPaged(f) <= cur' /\ cur' <= EndPaged(f)
    BY <1>1, <1>4, <1>5, <1>6
  <2>2. fld'[t] = f /\ pc'[t] = "program"
    BY <1>0, <1>1
  <2>3. \E k \in Int : cur' = k * Page
    BY <1>1, <1>5
  <2> QED
    BY <2>1, <2>2, <2>3 DEF CursorAt
<1>10. BytesAt(t)'
  <2>1. fld'[t] = f /\ pc'[t] = "program"
    BY <1>0, <1>1
  <2>2. ASSUME NEW a \in Addr \ lost, InWindow(f, a) PROVE ProgramByte(f, a)'
    <3>1. ProgramByte(f, a)
      BY <1>0, <1>1, <2>2 DEF BytesAt
    <3>2. Buffered(f, a) \in Byte /\ a \in Int
      BY <2>2, WindowIndex DEF Addr, Buffered, TypeOK
    <3>3. Erased \cap Buffered(f, a) = Buffered(f, a)
      BY <3>2 DEF Erased, Byte
    <3>4. flash[a] \in {Erased, Buffered(f, a)} => flash[a] \cap Buffered(f, a) = Buffered(f, a)
      BY <3>3
    <3>5. a < cur \/ a >= cur
      BY <1>1, <3>2
    <3>6. a < cur + Page => flash'[a] = Buffered(f, a)
      BY <1>1, <1>7, <3>1, <3>2, <3>4, <3>5 DEF ProgramByte
    <3>7. a >= cur + Page => flash'[a] = flash[a] /\ flash[a] \in {Erased, Buffered(f, a)}
      BY <1>1, <1>7, <3>1, <3>2 DEF ProgramByte
    <3>8. a < cur + Page \/ a >= cur + Page
      BY <1>1, <3>2
    <3> QED
      BY <1>1, <3>6, <3>7, <3>8 DEF ProgramByte, Buffered
  <2> QED
    BY <1>1, <2>1, <2>2 DEF BytesAt
<1>11. ASSUME NEW a \in Addr PROVE Visible(a)' = Visible(a)
  <2>1. Visible(a) = IF InWindow(f, a) THEN Buffered(f, a) ELSE flash[a]
    BY <1>0, <1>1, HolderVisible DEF Busy
  <2>2. Visible(a)' = IF InWindow(f, a) THEN Buffered(f, a) ELSE flash'[a]
    BY <1>0, <1>1, <2>1 DEF Visible, Busy, Buffered, MutexHeld, TypeOK
  <2>3. cur <= a /\ a < cur + Page => InWindow(f, a)
    <3> HIDE DEF IInv, Program
    <3>1. cur \in Int /\ Page \in Int /\ a \in Int /\ StartPaged(f) \in Int /\ EndPaged(f) \in Int
      BY <1>1, <1>6 DEF Addr
    <3>2. StartPaged(f) <= cur /\ cur + Page <= EndPaged(f)
      BY <1>4, <1>5
    <3> QED
      BY <3>1, <3>2, SMT DEF InWindow
  <2> QED
    BY <1>7, <2>1, <2>2, <2>3
<1> QED
  BY <1>3, <1>8, <1>9, <1>10, <1>11 DEF OthersInvariant, Kept

\* The end of an erase: a byte that was not hit is erased, and the program
\* starts at the beginning of the window.
LEMMA EraseDoneInv ==
  ASSUME IInv, NEW t \in Tasks, EraseDone(t)
  PROVE  IInv' /\ Kept
<1> USE DEF IInv, EraseDone, Goto
<1>0. PICK f \in Fields : f = fld[t]
  BY DEF TypeOK
<1>1. pc[t] = "erase" /\ pc' = [pc EXCEPT ![t] = "program"] /\ fld' = fld /\ holder' = holder
      /\ buf' = buf /\ flash' = flash /\ lost' = lost /\ cur' = StartPaged(f)
      /\ cur >= EndPaged(f) /\ cur \in Nat
  BY <1>0 DEF TypeOK
<1>2. pc'[t] = "program" /\ fld'[t] = f
  BY <1>0, <1>1 DEF TypeOK
<1>3. OthersInvariant(t)
  BY <1>1, OnlyHolder
<1>4. StartPaged(f) \in Nat /\ StartPaged(f) <= EndPaged(f) /\ StartPaged(f) <= FlashSize
  BY Window
<1>5. TypeOK'
  BY <1>1, <1>3, <1>4 DEF TypeOK, OthersInvariant
<1>6. CursorAt(t)'
  <2>1. PICK m \in Int : StartPaged(f) = m * Sector
    BY Window
  <2>2. PICK n \in Int : Sector = n * Page
    BY PagesPerSector
  <2>3. StartPaged(f) = (m * n) * Page /\ m * n \in Int
    <3>1. m * (n * Page) = (m * n) * Page
      BY SMT
    <3> QED
      BY <2>1, <2>2, <3>1
  <2>4. \E k \in Int : cur' = k * Page
    BY <1>1, <2>3
  <2>5. StartPaged(f) <= cur' /\ cur' <= EndPaged(f)
    BY <1>1, <1>4
  <2> QED
    BY <1>2, <2>4, <2>5 DEF CursorAt
<1>7. BytesAt(t)'
  <2>1. ASSUME NEW a \in Addr \ lost, InWindow(f, a) PROVE ProgramByte(f, a)'
    <3>1. EraseByte(f, a)
      BY <1>0, <1>1, <2>1 DEF BytesAt
    <3>2. a \in Int /\ StartPaged(f) <= a /\ a < EndPaged(f) /\ EndPaged(f) \in Int
      BY <2>1, Window DEF InWindow, Addr
    <3>3. flash[a] = Erased
      BY <1>1, <3>1, <3>2 DEF EraseByte
    <3> QED
      BY <1>1, <1>4, <3>2, <3>3 DEF ProgramByte
  <2> QED
    BY <1>1, <1>2, <2>1 DEF BytesAt
<1>8. ASSUME NEW a \in Addr PROVE Visible(a)' = Visible(a)
  <2>1. Visible(a) = IF InWindow(f, a) THEN Buffered(f, a) ELSE flash[a]
    BY <1>0, <1>1, HolderVisible DEF Busy
  <2>2. holder' = t /\ t # NoTask
    BY <1>1, Alone
  <2>3. Visible(a)' = IF InWindow(f, a) THEN Buffered(f, a) ELSE flash[a]
    BY <1>1, <1>2, <2>2 DEF Visible, Busy, Buffered
  <2> QED
    BY <2>1, <2>3
<1> QED
  BY <1>3, <1>5, <1>6, <1>7, <1>8 DEF OthersInvariant, Kept

\* The end of a program: a byte that was not hit is what the buffer says.
LEMMA ProgramDoneInv ==
  ASSUME IInv, NEW t \in Tasks, ProgramDone(t)
  PROVE  IInv' /\ Kept
<1> USE DEF IInv, ProgramDone, Goto
<1>0. PICK f \in Fields : f = fld[t]
  BY DEF TypeOK
<1>1. pc[t] = "program" /\ pc' = [pc EXCEPT ![t] = "done"] /\ fld' = fld /\ holder' = holder
      /\ buf' = buf /\ flash' = flash /\ lost' = lost /\ cur' = cur
      /\ cur >= EndPaged(f) /\ cur \in Nat
  BY <1>0 DEF TypeOK
<1>2. pc'[t] = "done" /\ fld'[t] = f
  BY <1>0, <1>1 DEF TypeOK
<1>3. OthersInvariant(t)
  BY <1>1, OnlyHolder
<1>4. TypeOK'
  BY <1>1, <1>3 DEF TypeOK, OthersInvariant
<1>5. CursorAt(t)'
  BY <1>2 DEF CursorAt
<1>6. ASSUME NEW a \in Addr \ lost, InWindow(f, a) PROVE flash[a] = Buffered(f, a)
  <2>1. ProgramByte(f, a)
    BY <1>0, <1>1, <1>6 DEF BytesAt
  <2>2. a \in Int /\ a < EndPaged(f) /\ EndPaged(f) \in Int
    BY <1>6, Window DEF InWindow, Addr
  <2> QED
    BY <1>1, <2>1, <2>2 DEF ProgramByte
<1>7. BytesAt(t)'
  BY <1>1, <1>2, <1>6 DEF BytesAt, Buffered
<1>8. ASSUME NEW a \in Addr \ lost PROVE Visible(a)' = Visible(a)
  <2>1. Visible(a) = IF InWindow(f, a) THEN Buffered(f, a) ELSE flash[a]
    BY <1>0, <1>1, HolderVisible DEF Busy
  <2>2. holder' = t
    BY <1>1, Alone
  <2>3. Visible(a)' = flash[a]
    BY <1>1, <1>2, <2>2 DEF Visible, Busy
  <2> QED
    BY <1>6, <2>1, <2>3
<1> QED
  BY <1>1, <1>3, <1>4, <1>5, <1>7, <1>8 DEF OthersInvariant, Kept

LEMMA ReturnInv ==
  ASSUME IInv, NEW t \in Tasks, Return(t)
  PROVE  IInv' /\ Kept
<1> USE DEF IInv, Return, Goto
<1>1. pc[t] = "done" /\ pc' = [pc EXCEPT ![t] = "idle"] /\ fld' = fld /\ holder' = NoTask
      /\ flash' = flash /\ pc'[t] = "idle"
  BY DEF TypeOK
<1>2. OthersInvariant(t)
  BY <1>1, OnlyHolder
<1>3. TypeOK'
  BY <1>1, <1>2 DEF TypeOK, OthersInvariant
<1>4. CursorAt(t)' /\ BytesAt(t)'
  BY <1>1 DEF CursorAt, BytesAt
<1>5. ASSUME NEW a \in Addr PROVE Visible(a)' = Visible(a)
  <2>1. Visible(a) = flash[a]
    BY <1>1, HolderVisible DEF Busy
  <2> QED
    BY <1>1, <2>1 DEF Visible
<1> QED
  BY <1>2, <1>3, <1>4, <1>5 DEF OthersInvariant, Kept

\* A refused erase costs the new data, whose bytes may not be programmable.
LEMMA EraseRefusedInv ==
  ASSUME IInv, NEW t \in Tasks, EraseRefused(t)
  PROVE  IInv' /\ Kept
<1> USE DEF IInv, EraseRefused, Goto
<1>0. PICK f \in Fields : f = fld[t]
  BY DEF TypeOK
<1>1. pc[t] = "erase" /\ pc' = [pc EXCEPT ![t] = "program"] /\ fld' = fld /\ holder' = holder
      /\ buf' = buf /\ flash' = flash /\ cur' = cur /\ cur = StartPaged(f)
      /\ lost' = lost \cup {a \in Addr : InData(f, a)}
  BY <1>0 DEF TypeOK
<1>2. pc'[t] = "program" /\ fld'[t] = f
  BY <1>0, <1>1 DEF TypeOK
<1>3. OthersInvariant(t)
  BY <1>1, OnlyHolder
<1>4. StartPaged(f) \in Nat /\ StartPaged(f) <= EndPaged(f)
  BY Window
<1>5. TypeOK'
  BY <1>1, <1>3 DEF TypeOK, OthersInvariant
<1>6. CursorAt(t)'
  <2>1. PICK m \in Int : StartPaged(f) = m * Sector
    BY Window
  <2>2. PICK n \in Int : Sector = n * Page
    BY PagesPerSector
  <2>3. StartPaged(f) = (m * n) * Page /\ m * n \in Int
    <3>1. m * (n * Page) = (m * n) * Page
      BY SMT
    <3> QED
      BY <2>1, <2>2, <3>1
  <2>4. \E k \in Int : cur' = k * Page
    BY <1>1, <2>3
  <2>5. StartPaged(f) <= cur' /\ cur' <= EndPaged(f)
    BY <1>1, <1>4
  <2> QED
    BY <1>2, <2>4, <2>5 DEF CursorAt
<1>7. BytesAt(t)'
  <2>1. ASSUME NEW a \in Addr \ lost', InWindow(f, a) PROVE ProgramByte(f, a)'
    <3>1. ~InData(f, a) /\ a \notin lost
      BY <1>1, <2>1
    <3>2. EraseByte(f, a)
      BY <1>0, <1>1, <2>1, <3>1 DEF BytesAt
    <3>3. a \in Int /\ StartPaged(f) <= a
      BY <2>1 DEF InWindow, Addr
    <3>4. ~(a < cur)
      BY <1>1, <1>4, <3>3
    <3> QED
      BY <1>1, <3>1, <3>2, <3>4 DEF EraseByte, ProgramByte, Buffered
  <2> QED
    BY <1>2, <2>1 DEF BytesAt
<1>8. ASSUME NEW a \in Addr PROVE Visible(a)' = Visible(a)
  <2>1. Visible(a) = IF InWindow(f, a) THEN Buffered(f, a) ELSE flash[a]
    BY <1>0, <1>1, HolderVisible DEF Busy
  <2>2. holder' = t /\ t # NoTask
    BY <1>1, Alone
  <2>3. Visible(a)' = IF InWindow(f, a) THEN Buffered(f, a) ELSE flash[a]
    BY <1>1, <1>2, <2>2 DEF Visible, Busy, Buffered
  <2> QED
    BY <2>1, <2>3
<1> QED
  BY <1>3, <1>5, <1>6, <1>7, <1>8 DEF OthersInvariant, Kept

\* A refused program costs the whole window.
LEMMA ProgramRefusedInv ==
  ASSUME IInv, NEW t \in Tasks, ProgramRefused(t)
  PROVE  IInv' /\ Kept
<1> USE DEF IInv, ProgramRefused, Goto
<1>0. PICK f \in Fields : f = fld[t]
  BY DEF TypeOK
<1>1. pc[t] = "program" /\ pc' = [pc EXCEPT ![t] = "done"] /\ fld' = fld /\ holder' = holder
      /\ buf' = buf /\ flash' = flash /\ cur' = cur
      /\ lost' = lost \cup {a \in Addr : InWindow(f, a)}
  BY <1>0 DEF TypeOK
<1>2. pc'[t] = "done" /\ fld'[t] = f
  BY <1>0, <1>1 DEF TypeOK
<1>3. OthersInvariant(t)
  BY <1>1, OnlyHolder
<1>4. TypeOK'
  BY <1>1, <1>3 DEF TypeOK, OthersInvariant
<1>5. CursorAt(t)'
  BY <1>2 DEF CursorAt
<1>6. BytesAt(t)'
  BY <1>1, <1>2 DEF BytesAt
<1>7. ASSUME NEW a \in Addr \ lost' PROVE Visible(a)' = Visible(a)
  <2>1. ~InWindow(f, a)
    BY <1>1, <1>7
  <2>2. Visible(a) = flash[a]
    BY <1>0, <1>1, <2>1, HolderVisible
  <2>3. holder' = t
    BY <1>1, Alone
  <2>4. Visible(a)' = flash[a]
    BY <1>1, <1>2, <2>3 DEF Visible, Busy
  <2> QED
    BY <2>2, <2>4
<1> QED
  BY <1>3, <1>4, <1>5, <1>6, <1>7 DEF OthersInvariant, Kept

\* A crash shows the flash as it is: where that may differ from the buffer, it
\* costs the byte.
LEMMA CrashInv ==
  ASSUME IInv, Crash
  PROVE  IInv' /\ Kept
<1> USE DEF IInv, Crash
<1>1. TypeOK'
  BY DEF TypeOK, Byte, Endangered
<1>2. MutexHeld'
  BY DEF MutexHeld
<1>3. ASSUME NEW t \in Tasks PROVE CursorAt(t)' /\ BytesAt(t)'
  BY DEF CursorAt, BytesAt
<1>4. ASSUME NEW a \in Addr \ lost' PROVE Visible(a)' = Visible(a)
  <2>1. Visible(a)' = flash[a]
    BY DEF Visible
  <2>2. a \notin lost /\ \A t \in Tasks : a \notin Endangered(t)
    BY <1>4
  <2>3. CASE holder \in Tasks /\ Busy(holder) /\ InWindow(fld[holder], a)
    <3>1. PICK t \in Tasks : t = holder
      BY <2>3
    <3>2. PICK f \in Fields : f = fld[t]
      BY DEF TypeOK
    <3>3. pc[t] = "erase" /\ ~(cur > StartPaged(f)) /\ ~InData(f, a)
      BY <2>2, <2>3, <3>1, <3>2 DEF Endangered, Busy
    <3>4. EraseByte(f, a)
      BY <2>2, <2>3, <3>1, <3>2, <3>3 DEF BytesAt
    <3>5. ~(a < cur)
      <4>1. a \in Int /\ cur \in Int /\ StartPaged(f) \in Int /\ StartPaged(f) <= a
        BY <2>3, <3>1, <3>2, Window DEF InWindow, Addr, TypeOK
      <4> QED
        BY <3>3, <4>1
    <3>6. flash[a] = Buffered(f, a)
      BY <3>3, <3>4, <3>5 DEF EraseByte
    <3> QED
      BY <2>1, <2>3, <3>1, <3>2, <3>6 DEF Visible
  <2>4. CASE ~(holder \in Tasks /\ Busy(holder) /\ InWindow(fld[holder], a))
    BY <2>1, <2>4 DEF Visible, TypeOK
  <2> QED
    BY <2>3, <2>4
<1> QED
  BY <1>1, <1>2, <1>3, <1>4 DEF Kept

LEMMA StutterInv ==
  ASSUME IInv, UNCHANGED vars
  PROVE  IInv' /\ Kept
<1> USE DEF IInv, vars
<1>1. TypeOK' /\ MutexHeld'
  BY DEF TypeOK, MutexHeld
<1>2. ASSUME NEW t \in Tasks PROVE CursorAt(t)'
  BY DEF CursorAt
<1>3. ASSUME NEW t \in Tasks PROVE BytesAt(t)'
  BY DEF BytesAt, EraseByte, ProgramByte, Buffered
<1>4. Kept
  BY DEF Kept, Visible, Busy, Buffered
<1> QED
  BY <1>1, <1>2, <1>3, <1>4

\* Every step keeps the invariant, and is either a Merge or keeps every byte
\* that no fault has hit.
LEMMA Step ==
  ASSUME IInv, [Next]_vars
  PROVE  IInv' /\ (Kept \/ \E t \in Tasks : Merge(t))
<1>1. ASSUME NEW t \in Tasks, Work(t)
      PROVE  IInv' /\ (Kept \/ \E u \in Tasks : Merge(u))
  <2>1. CASE Merge(t)
    BY <2>1, MergeInv
  <2>2. CASE Erase(t)
    BY <2>2, EraseInv
  <2>3. CASE EraseDone(t)
    BY <2>3, EraseDoneInv
  <2>4. CASE Program(t)
    BY <2>4, ProgramInv
  <2>5. CASE ProgramDone(t)
    BY <2>5, ProgramDoneInv
  <2>6. CASE Return(t)
    BY <2>6, ReturnInv
  <2> QED
    BY <1>1, <2>1, <2>2, <2>3, <2>4, <2>5, <2>6 DEF Work
<1>2. ASSUME NEW t \in Tasks, Gets(t) \/ EraseRefused(t) \/ ProgramRefused(t)
      PROVE  IInv' /\ Kept
  BY <1>2, AcquireInv, EraseRefusedInv, ProgramRefusedInv
<1>3. ASSUME NEW t \in Tasks, NEW f \in Fields, Call(t, f)
      PROVE  IInv' /\ Kept
  BY <1>3, CallInv
<1>4. CASE Crash
  BY <1>4, CrashInv
<1>5. CASE UNCHANGED vars
  BY <1>5, StutterInv
<1> QED
  BY <1>1, <1>2, <1>3, <1>4, <1>5 DEF Next

LEMMA Invariant == Spec => []IInv
<1>1. IInv /\ [Next]_vars => IInv'
  BY Step
<1> QED
  BY <1>1, InitInv, PTL DEF Spec

-----------------------------------------------------------------------------
(* The theorems.                                                           *)

\* The types: in particular a cursor never leaves the flash, and no byte of a
\* window falls outside the buffer.
THEOREM TypeCorrect == Spec => []TypeOK
<1>1. IInv => TypeOK
  BY DEF IInv
<1> QED
  BY <1>1, Invariant, PTL

\* Whoever is inside write() past the lock is the holder of _memory_mutex, also
\* across power failures, so _write_buffer has one user at a time.
THEOREM MutualExclusion == Spec => []MutexHeld
<1>1. IInv => MutexHeld
  BY DEF IInv
<1> QED
  BY <1>1, Invariant, PTL

\* Whatever fails and whenever: a byte that no fault has hit since it was last
\* written changes only when a write of its own field takes effect.
THEOREM NeighboursSurvive == Spec => OnlyOwnWriteChanges
<1> DEFINE Own == \A a \in Addr \ lost' :
      Visible(a)' # Visible(a) => \E t \in Tasks : Merge(t) /\ InData(fld[t], a)
<1>1. IInv /\ [Next]_vars => [Own]_vars
  <2> SUFFICES ASSUME IInv, [Next]_vars PROVE Own
    OBVIOUS
  <2>1. CASE Kept
    BY <2>1 DEF Kept
  <2>2. ASSUME NEW t \in Tasks, Merge(t) PROVE Own
    BY <2>2, MergeInv
  <2> QED
    BY <2>1, <2>2, Step
<1> QED
  BY <1>1, Invariant, PTL DEF Spec, OnlyOwnWriteChanges

-----------------------------------------------------------------------------
(* Without faults: the store implements Settings.                          *)

\* What a field stores is a value of that field.
LEMMA StoredType ==
  ASSUME TypeOK, NEW f \in Fields
  PROVE  Stored[f] \in Data[f] /\ \A k \in 0 .. Size[f] - 1 : StartData(f) + k \in Addr
<1>1. ASSUME NEW k \in 0 .. Size[f] - 1
      PROVE  InData(f, StartData(f) + k) /\ StartData(f) + k \in Int
  BY Window DEF InData, EndData
<1>2. ASSUME NEW k \in 0 .. Size[f] - 1
      PROVE  StartData(f) + k \in Addr /\ InWindow(f, StartData(f) + k)
  BY <1>1, DataInWindow, WindowIndex
<1>3. ASSUME NEW a \in Addr PROVE Visible(a) \in Byte
  <2>1. CASE holder # NoTask /\ Busy(holder) /\ InWindow(fld[holder], a)
    <3>1. fld[holder] \in Fields /\ a \in Int
      BY <2>1 DEF TypeOK, Addr
    <3>2. a - StartPaged(fld[holder]) \in Buffer
      BY <2>1, <3>1, WindowIndex
    <3> QED
      BY <2>1, <3>2 DEF Visible, Buffered, TypeOK
  <2>2. CASE ~(holder # NoTask /\ Busy(holder) /\ InWindow(fld[holder], a))
    BY <2>2 DEF Visible, TypeOK
  <2> QED
    BY <2>1, <2>2
<1> QED
  BY <1>2, <1>3 DEF Stored, Data

LEMMA StoredTypeNext == (TypeOK => \A f \in Fields : Stored[f] \in Data[f])'
<1>1. TypeOK => \A f \in Fields : Stored[f] \in Data[f]
  BY StoredType
<1> QED
  BY <1>1, PTL

\* A byte of a field is not one of another field.
LEMMA Disjoint ==
  ASSUME NEW f \in Fields, NEW g \in Fields, f # g, NEW k \in 0 .. Size[g] - 1
  PROVE  ~InData(f, StartData(g) + k)
BY DEF InData, StartData, EndData

LEMMA StoredInit == Init => Store!Init
<1> SUFFICES ASSUME Init PROVE Store!Init
  OBVIOUS
<1>1. TypeOK
  BY InitInv DEF IInv
<1>2. Stored \in [Fields -> UNION {Data[f] : f \in Fields}]
  BY <1>1, StoredType DEF Stored
<1>3. /\ Progress = [t \in Tasks |-> "idle"] /\ given = [t \in Tasks |-> Nothing]
      /\ fld \in [Tasks -> Fields]
  BY <1>1 DEF Init, Progress, TypeOK
<1> QED
  BY <1>1, <1>2, <1>3, StoredType DEF Store!Init

\* A step that keeps every byte keeps every field.
LEMMA KeptStored ==
  ASSUME TypeOK, Kept, lost' = {}
  PROVE  Stored' = Stored
<1>1. ASSUME NEW f \in Fields, NEW k \in 0 .. Size[f] - 1
      PROVE  Visible(StartData(f) + k)' = Visible(StartData(f) + k)
  BY StoredType DEF Kept
<1> QED
  BY <1>1 DEF Stored

\* What a task was given is what stands in the buffer until its window is
\* merged, although the buffer is shared.
InPlace(t, k) == buf[(StartData(fld[t]) - StartPaged(fld[t])) + k] = given[t][k]
GivenInv ==
  \A t \in Tasks : pc[t] = "merge" =>
    given[t] \in Data[fld[t]] /\ \A k \in 0 .. Size[fld[t]] - 1 : InPlace(t, k)

LEMMA GivenStep == IInv /\ GivenInv /\ [Next]_vars => GivenInv'
<1> SUFFICES ASSUME IInv, GivenInv, [Next]_vars PROVE GivenInv'
  OBVIOUS
<1>0. TypeOK /\ MutexHeld
  BY DEF IInv
<1>1. ASSUME NEW t \in Tasks, Gets(t) PROVE GivenInv'
  <2>1. PICK d \in Input(fld[t]) : Acquire(t, d)
    BY <1>1 DEF Gets
  <2> DEFINE first == StartData(fld[t]) - StartPaged(fld[t])
  <2>2. /\ holder = NoTask /\ pc' = [pc EXCEPT ![t] = "merge"] /\ fld' = fld
        /\ given' = [given EXCEPT ![t] = d]
        /\ buf' = [b \in Buffer |-> IF first <= b /\ b < first + Size[fld[t]] THEN d[b - first]
                                                                             ELSE buf[b]]
    BY <2>1 DEF Acquire, Goto, Lock
  <2>3. \A u \in Tasks : pc'[u] = "merge" => u = t
    BY <1>0, <2>2, ValueAssumption DEF MutexHeld, TypeOK
  <2>4. given'[t] = d /\ d \in Data[fld[t]]
    BY <1>0, <2>2 DEF TypeOK, Input, Data
  <2>5. ASSUME NEW k \in 0 .. Size[fld[t]] - 1 PROVE InPlace(t, k)'
    <3>1. fld[t] \in Fields /\ Size[fld[t]] \in Nat /\ first \in Int
      BY <1>0, Window DEF TypeOK
    <3>2. InData(fld[t], StartData(fld[t]) + k) /\ StartData(fld[t]) + k \in Int
      BY <3>1, Window DEF InData, EndData
    <3>3. (StartData(fld[t]) + k) - StartPaged(fld[t]) \in Buffer
      BY <3>1, <3>2, DataInWindow, WindowIndex
    <3>4. first + k \in Buffer /\ (first + k) - first = k
      BY <3>1, <3>2, <3>3, Window
    <3>5. buf'[first + k] = d[k]
      BY <2>2, <3>1, <3>4
    <3> QED
      BY <2>2, <2>4, <3>5 DEF InPlace
  <2> QED
    BY <2>2, <2>3, <2>4, <2>5 DEF GivenInv
<1>2. ASSUME NEW t \in Tasks, Merge(t) PROVE GivenInv'
  <2>1. pc[t] = "merge" /\ pc' = [pc EXCEPT ![t] = "erase"]
    BY <1>2 DEF Merge, Goto
  <2>2. \A u \in Tasks : pc'[u] # "merge"
    BY <1>0, <2>1 DEF MutexHeld, TypeOK
  <2> QED
    BY <2>2 DEF GivenInv
<1>3. ASSUME UNCHANGED buf,
             \A u \in Tasks : pc'[u] = "merge" =>
               pc[u] = "merge" /\ given'[u] = given[u] /\ fld'[u] = fld[u]
      PROVE  GivenInv'
  BY <1>3 DEF GivenInv, InPlace
<1>4. CASE \/ UNCHANGED vars
           \/ \E t \in Tasks : \/ Erase(t) \/ EraseDone(t) \/ Program(t) \/ ProgramDone(t)
                               \/ EraseRefused(t) \/ ProgramRefused(t) \/ Return(t)
                               \/ \E f \in Fields : Call(t, f)
  <2>1. buf' = buf
    BY <1>4 DEF vars, Erase, EraseDone, Program, ProgramDone, EraseRefused, ProgramRefused, Return, Call
  <2>2. ASSUME NEW u \in Tasks, pc'[u] = "merge"
        PROVE  pc[u] = "merge" /\ given'[u] = given[u] /\ fld'[u] = fld[u]
    <3>1. CASE \/ UNCHANGED vars
               \/ \E t \in Tasks : \/ Erase(t) \/ EraseDone(t) \/ Program(t) \/ ProgramDone(t)
                                   \/ EraseRefused(t) \/ ProgramRefused(t)
      BY <1>0, <2>2, <3>1 DEF vars, Erase, EraseDone, Program, ProgramDone, EraseRefused,
         ProgramRefused, Goto, TypeOK
    <3>2. CASE \E t \in Tasks : Return(t)
      BY <1>0, <2>2, <3>2 DEF Return, Goto, TypeOK
    <3>3. CASE \E t \in Tasks, f \in Fields : Call(t, f)
      BY <1>0, <2>2, <3>3 DEF Call, Goto, TypeOK
    <3> QED
      BY <1>4, <3>1, <3>2, <3>3
  <2> QED
    BY <1>3, <2>1, <2>2
<1>5. CASE Crash
  BY <1>5 DEF Crash, GivenInv
<1> QED
  BY <1>1, <1>2, <1>4, <1>5 DEF Next, Work

\* A Merge writes what its task was given to its own field, and to no other.
LEMMA MergeWrites ==
  ASSUME IInv, GivenInv, NEW t \in Tasks, Merge(t)
  PROVE  Store!Write(t)
<1>0. PICK f \in Fields : f = fld[t]
  BY DEF IInv, TypeOK
<1>1. /\ pc[t] = "merge" /\ pc' = [pc EXCEPT ![t] = "erase"] /\ fld' = fld /\ given' = given
      /\ holder' = holder /\ holder = t /\ t # NoTask
      /\ pc \in [Tasks -> {"idle", "lock", "merge", "erase", "program", "done"}]
      /\ given[t] \in Data[f] /\ \A k \in 0 .. Size[f] - 1 : InPlace(t, k)
      /\ buf' = [b \in Buffer |-> IF Around(f, StartPaged(f) + b) THEN flash[StartPaged(f) + b]
                                                                 ELSE buf[b]]
  BY <1>0, Alone DEF IInv, TypeOK, MutexHeld, Merge, Goto, GivenInv
<1>2. ASSUME NEW g \in Fields, g # f PROVE Stored'[g] = Stored[g]
  <2>1. ASSUME NEW k \in 0 .. Size[g] - 1
        PROVE  Visible(StartData(g) + k)' = Visible(StartData(g) + k)
    <3>1. StartData(g) + k \in Addr
      BY StoredType DEF IInv
    <3>2. ~InData(fld[t], StartData(g) + k)
      BY <1>0, <1>2, Disjoint
    <3> QED
      BY <3>1, <3>2, MergeInv
  <2> QED
    BY <2>1 DEF Stored
<1>3. Stored'[f] = given[t]
  <2>1. ASSUME NEW k \in 0 .. Size[f] - 1
        PROVE  Visible(StartData(f) + k)' = given[t][k]
    <3>1. StartData(f) \in Int /\ StartPaged(f) \in Int /\ Size[f] \in Nat
      BY Window
    <3>2. InData(f, StartData(f) + k) /\ InWindow(f, StartData(f) + k)
      BY <3>1, DataInWindow DEF InData, EndData
    <3>3. (StartData(f) + k) - StartPaged(f) \in Buffer
      BY <3>1, <3>2, WindowIndex
    <3>4. /\ StartPaged(f) + ((StartData(f) + k) - StartPaged(f)) = StartData(f) + k
          /\ (StartData(f) + k) - StartPaged(f) = (StartData(f) - StartPaged(f)) + k
      BY <3>1
    <3>5. buf'[(StartData(f) + k) - StartPaged(f)] = given[t][k]
      BY <1>0, <1>1, <3>2, <3>3, <3>4 DEF Around, InPlace
    <3>6. fld'[holder'] = f /\ pc'[holder'] = "erase"
      BY <1>0, <1>1
    <3> QED
      BY <1>1, <3>2, <3>5, <3>6 DEF Visible, Busy, Buffered
  <2>2. given[t] = [k \in 0 .. Size[f] - 1 |-> given[t][k]]
    BY <1>1 DEF Data
  <2>3. Stored'[f] = [k \in 0 .. Size[f] - 1 |-> Visible(StartData(f) + k)']
    BY DEF Stored
  <2> QED
    BY <2>1, <2>2, <2>3
<1>4. Stored' = [Stored EXCEPT ![f] = given[t]]
  <2>1. Stored' = [g \in Fields |-> Stored'[g]] /\ Stored = [g \in Fields |-> Stored[g]]
    BY DEF Stored
  <2> QED
    BY <1>2, <1>3, <2>1
<1>5. Progress[t] = "given" /\ Progress' = [Progress EXCEPT ![t] = "written"]
  BY <1>1 DEF Progress
<1> QED
  BY <1>0, <1>1, <1>4, <1>5 DEF Store!Write, Store!Advance

\* The other steps of a call, and those of the flash, which the registers do not
\* show.
LEMMA CallSteps ==
  ASSUME IInv, [Next]_vars, Faults = FALSE, Stored' = Stored
  PROVE  [Store!Next]_(Store!vars) \/ \E t \in Tasks : Merge(t)
<1>0. pc \in [Tasks -> {"idle", "lock", "merge", "erase", "program", "done"}] /\ fld \in [Tasks -> Fields]
  BY DEF IInv, TypeOK
<1>1. ASSUME NEW t \in Tasks, NEW f \in Fields, Call(t, f) PROVE Store!Call(t, f)
  <2>1. pc[t] = "idle" /\ pc' = [pc EXCEPT ![t] = "lock"]
    BY <1>1 DEF Call, Goto
  <2>2. Progress[t] = "idle" /\ Progress' = [Progress EXCEPT ![t] = "called"]
    BY <1>0, <2>1 DEF Progress
  <2> QED
    BY <1>1, <2>2 DEF Call, Store!Call, Store!Advance
<1>2. ASSUME NEW t \in Tasks, Gets(t) PROVE \E d \in Data[fld[t]] : Store!Give(t, d)
  <2>1. PICK d \in Input(fld[t]) : Acquire(t, d)
    BY <1>2 DEF Gets
  <2>2. d \in Data[fld[t]]
    BY <1>0 DEF Input, Data
  <2>3. pc[t] = "lock" /\ pc' = [pc EXCEPT ![t] = "merge"]
    BY <2>1 DEF Acquire, Goto
  <2>4. Progress[t] = "called" /\ Progress' = [Progress EXCEPT ![t] = "given"]
    BY <1>0, <2>3 DEF Progress
  <2> QED
    BY <2>1, <2>2, <2>4 DEF Acquire, Store!Give, Store!Advance
<1>3. ASSUME NEW t \in Tasks, Return(t) PROVE Store!Return(t)
  <2>1. pc[t] = "done" /\ pc' = [pc EXCEPT ![t] = "idle"]
    BY <1>3 DEF Return, Goto
  <2>2. Progress[t] = "written" /\ Progress' = [Progress EXCEPT ![t] = "idle"]
    BY <1>0, <2>1 DEF Progress
  <2> QED
    BY <1>3, <2>2 DEF Return, Store!Return, Store!Advance
<1>4. ASSUME NEW t \in Tasks, Erase(t) \/ EraseDone(t) \/ Program(t) \/ ProgramDone(t)
      PROVE  UNCHANGED Store!vars
  <2>1. fld' = fld /\ given' = given
    BY <1>4 DEF Erase, EraseDone, Program, ProgramDone
  <2>2. \/ pc' = pc
        \/ pc[t] = "erase" /\ pc' = [pc EXCEPT ![t] = "program"]
        \/ pc[t] = "program" /\ pc' = [pc EXCEPT ![t] = "done"]
    BY <1>4 DEF Erase, EraseDone, Program, ProgramDone, Goto
  <2>3. Progress' = Progress
    BY <1>0, <2>2 DEF Progress
  <2> QED
    BY <2>1, <2>3 DEF Store!vars
<1>5. CASE UNCHANGED vars
  BY <1>5 DEF vars, Store!vars, Progress
<1>6. ~Crash /\ \A t \in Tasks : ~EraseRefused(t) /\ ~ProgramRefused(t)
  BY DEF Crash, EraseRefused, ProgramRefused
<1> QED
  BY <1>1, <1>2, <1>3, <1>4, <1>5, <1>6 DEF Next, Work, Store!Next

\* Without power failures and refused flash operations the store implements
\* Settings: every call writes what it was given, once and before it returns,
\* to its own field, for every layout and any number of tasks.
THEOREM Refinement ==
  ASSUME Faults = FALSE
  PROVE  Spec => IsSettingsStore
<1> DEFINE Inv == IInv /\ GivenInv /\ lost = {}
<1>1. Init => Inv
  BY InitInv DEF Init, GivenInv
<1>2. Inv /\ [Next]_vars => Inv' /\ [Store!Next]_(Store!vars)
  <2> SUFFICES ASSUME Inv, [Next]_vars PROVE Inv' /\ [Store!Next]_(Store!vars)
    OBVIOUS
  <2>1. lost' = {}
    BY DEF Next, vars, Work, Gets, Call, Acquire, Merge, Erase, EraseDone, Program, ProgramDone,
           Return, EraseRefused, ProgramRefused, Crash
  <2>2. ASSUME NEW t \in Tasks, Merge(t) PROVE Store!Next
    BY <2>2, MergeWrites DEF Store!Next
  <2>3. CASE Kept
    <3>1. TypeOK
      BY DEF IInv
    <3>2. Stored' = Stored
      BY <2>1, <2>3, <3>1, KeptStored, Zenon
    <3>3. Store!Next \/ UNCHANGED Store!vars
      BY <2>2, <3>2, CallSteps, Zenon
    <3> QED
      BY <2>1, <3>3, Step, GivenStep
  <2>4. IInv' /\ GivenInv'
    BY Step, GivenStep
  <2> QED
    BY <2>1, <2>2, <2>3, <2>4, Step
<1>3. Init => Store!Init
  BY StoredInit
<1> QED
  BY <1>1, <1>2, <1>3, PTL DEF Spec, IsSettingsStore, Store!Spec

-----------------------------------------------------------------------------
(* The mutex is given back: the holder gets nearer to its return with each *)
(* step, faults included, and nobody can send it back.                     *)

Extent(t) == EndPaged(fld[t]) - StartPaged(fld[t])
WorkLeft(t) ==
  CASE pc[t] = "merge"   -> 2 * Extent(t) + 4
    [] pc[t] = "erase"   -> (EndPaged(fld[t]) - cur) + Extent(t) + 3
    [] pc[t] = "program" -> (EndPaged(fld[t]) - cur) + 2
    [] pc[t] = "done"    -> 1
    [] OTHER             -> 0

\* While a task holds the mutex each step brings it nearer to giving it back, by
\* its own work, a refused operation or a crash, but for calls of other tasks,
\* which leave it where it is.  Four sectors' worth of steps are enough.
WorkBounded ==
  [][\A t \in Tasks : holder = t =>
       /\ WorkLeft(t) \in 1 .. 4 * Sector + 4
       /\ \/ WorkLeft(t)' < WorkLeft(t)
          \/ WorkLeft(t)' = WorkLeft(t) /\ \E u \in Tasks \ {t}, f \in Fields : Call(u, f)]_vars

LEMMA WorkRange ==
  ASSUME IInv, NEW t \in Tasks, holder = t
  PROVE  /\ WorkLeft(t) \in 1 .. 4 * Sector + 4
         /\ EndPaged(fld[t]) \in Nat /\ StartPaged(fld[t]) \in Nat
         /\ Extent(t) \in 0 .. 2 * Sector /\ cur \in Nat
         /\ pc[t] \in {"merge", "erase", "program", "done"}
<1>1. fld[t] \in Fields /\ cur \in Nat
  BY DEF IInv, TypeOK
<1>2. /\ EndPaged(fld[t]) \in Nat /\ StartPaged(fld[t]) \in Nat
      /\ StartPaged(fld[t]) <= EndPaged(fld[t])
      /\ EndPaged(fld[t]) - StartPaged(fld[t]) <= 2 * Sector
  BY <1>1, Window
<1>3. Extent(t) \in 0 .. 2 * Sector
  BY <1>2 DEF Extent
<1>4. pc[t] \in {"merge", "erase", "program", "done"}
  BY DEF IInv, TypeOK, MutexHeld
<1>5. CursorAt(t)
  BY DEF IInv
<1>6. WorkLeft(t) \in 1 .. 4 * Sector + 4
  BY <1>1, <1>2, <1>3, <1>4, <1>5 DEF CursorAt, WorkLeft, Extent
<1> QED
  BY <1>1, <1>2, <1>3, <1>4, <1>6

LEMMA OwnWork ==
  ASSUME IInv, NEW t \in Tasks, holder = t, Work(t) \/ EraseRefused(t) \/ ProgramRefused(t)
  PROVE  WorkLeft(t)' < WorkLeft(t)
<1>1. /\ pc \in [Tasks -> {"idle", "lock", "merge", "erase", "program", "done"}]
      /\ fld' = fld /\ CursorAt(t)
  BY DEF IInv, TypeOK, Work, Merge, Erase, EraseDone, Program, ProgramDone, Return, EraseRefused,
     ProgramRefused
<1>2. /\ EndPaged(fld[t]) \in Nat /\ StartPaged(fld[t]) \in Nat /\ cur \in Nat
      /\ Extent(t) = EndPaged(fld[t]) - StartPaged(fld[t]) /\ Extent(t) \in Nat
  BY WorkRange DEF Extent
<1>3. Extent(t)' = Extent(t) /\ EndPaged(fld[t])' = EndPaged(fld[t])
      /\ StartPaged(fld[t])' = StartPaged(fld[t])
  BY <1>1 DEF Extent
<1>4. Page \in Nat \ {0} /\ Sector \in Nat \ {0}
  OBVIOUS
<1>5. CASE Merge(t)
  <2>1. pc[t] = "merge" /\ pc'[t] = "erase" /\ cur' = StartPaged(fld[t])
    BY <1>1, <1>5 DEF Merge, Goto
  <2> QED
    BY <1>1, <1>2, <1>3, <2>1 DEF WorkLeft
<1>6. CASE Erase(t)
  <2>1. pc[t] = "erase" /\ pc' = pc /\ cur' = cur + Sector
    BY <1>6 DEF Erase
  <2> QED
    BY <1>1, <1>2, <1>3, <1>4, <2>1 DEF WorkLeft
<1>7. CASE EraseDone(t)
  <2>1. pc[t] = "erase" /\ pc'[t] = "program" /\ cur' = StartPaged(fld[t]) /\ cur <= EndPaged(fld[t])
    BY <1>1, <1>7 DEF EraseDone, Goto, CursorAt
  <2> QED
    BY <1>1, <1>2, <1>3, <2>1 DEF WorkLeft
<1>8. CASE Program(t)
  <2>1. pc[t] = "program" /\ pc' = pc /\ cur' = cur + Page
    BY <1>8 DEF Program
  <2> QED
    BY <1>1, <1>2, <1>3, <1>4, <2>1 DEF WorkLeft
<1>9. CASE ProgramDone(t) \/ ProgramRefused(t)
  <2>1. pc[t] = "program" /\ pc'[t] = "done" /\ cur <= EndPaged(fld[t])
    BY <1>1, <1>9 DEF ProgramDone, ProgramRefused, Goto, CursorAt
  <2> QED
    BY <1>1, <1>2, <1>3, <2>1 DEF WorkLeft
<1>10. CASE Return(t)
  <2>1. pc[t] = "done" /\ pc'[t] = "idle"
    BY <1>1, <1>10 DEF Return, Goto
  <2> QED
    BY <1>1, <2>1 DEF WorkLeft
<1>11. CASE EraseRefused(t)
  <2>1. pc[t] = "erase" /\ pc'[t] = "program" /\ cur = StartPaged(fld[t]) /\ cur' = cur
    BY <1>1, <1>11 DEF EraseRefused, Goto
  <2> QED
    BY <1>1, <1>2, <1>3, <2>1 DEF WorkLeft
<1> QED
  BY <1>5, <1>6, <1>7, <1>8, <1>9, <1>10, <1>11 DEF Work

\* A write holds the mutex for a bounded number of steps, for every layout, with
\* or without faults, and whatever the other tasks do.
THEOREM WritesEnd == Spec => WorkBounded
<1> DEFINE Nearer == \A t \in Tasks : holder = t =>
       /\ WorkLeft(t) \in 1 .. 4 * Sector + 4
       /\ \/ WorkLeft(t)' < WorkLeft(t)
          \/ WorkLeft(t)' = WorkLeft(t) /\ \E u \in Tasks \ {t}, f \in Fields : Call(u, f)
<1>1. IInv /\ [Next]_vars => [Nearer]_vars
  <2> SUFFICES ASSUME IInv, Next, NEW t \in Tasks, holder = t
               PROVE  \/ WorkLeft(t)' < WorkLeft(t)
                      \/ /\ WorkLeft(t)' = WorkLeft(t)
                         /\ \E u \in Tasks \ {t}, f \in Fields : Call(u, f)
    BY WorkRange
  <2>1. CASE Crash
    <3>1. pc'[t] = "idle"
      BY <2>1 DEF Crash
    <3>2. WorkLeft(t)' = 0
      BY <3>1 DEF WorkLeft
    <3> QED
      BY <3>2, WorkRange
  <2>2. ASSUME NEW u \in Tasks, NEW f \in Fields, Call(u, f)
        PROVE  u # t /\ WorkLeft(t)' = WorkLeft(t)
    <3>1. u # t
      BY <2>2, WorkRange DEF Call, Goto
    <3>2. pc'[t] = pc[t] /\ fld'[t] = fld[t] /\ cur' = cur
      BY <2>2, <3>1 DEF Call, Goto, IInv, TypeOK
    <3> QED
      BY <3>1, <3>2 DEF WorkLeft, Extent
  <2>3. ASSUME NEW u \in Tasks, Gets(u) PROVE FALSE
    BY <2>3 DEF Gets, Acquire, Lock
  <2>4. ASSUME NEW u \in Tasks, Work(u) \/ EraseRefused(u) \/ ProgramRefused(u)
        PROVE  u = t
    <3>1. pc[u] \in {"merge", "erase", "program", "done"}
      BY <2>4 DEF Work, Merge, Erase, EraseDone, Program, ProgramDone, Return, EraseRefused,
         ProgramRefused, Goto
    <3> QED
      BY <3>1 DEF IInv, MutexHeld
  <2> QED
    BY <2>1, <2>2, <2>3, <2>4, OwnWork DEF Next
<1> QED
  BY <1>1, Invariant, PTL DEF Spec, WorkBounded
=============================================================================
