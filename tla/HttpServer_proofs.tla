-------------------------- MODULE HttpServer_proofs --------------------------
(***************************************************************************)
(* For every pool, table size and bound: every open session has a slot,    *)
(* aborted connections are the only leak, and tcp_close is called on live  *)
(* pcbs only unless connections were aborted.  The invariant says that,    *)
(* without aborts, slots and open sessions correspond one to one; the      *)
(* count of leaked slots is carried over each step by the number of slots  *)
(* and of sessions it removes.                                             *)
(***************************************************************************)
EXTENDS HttpServer, FiniteSetTheorems, WellFoundedInduction, TLAPS

USE PoolAssumption, SizeAssumption, BoundAssumption

\* Without aborts a slot holds a live pcb, and no other slot holds it.
Once ==
  aborts = 0 => \A i \in Taken : /\ owner[client_pcbs[i]] # 0
                                 /\ \A j \in Taken : client_pcbs[j] = client_pcbs[i] => j = i

LeaksBounded == Cardinality(Taken) <= Cardinality(Open) + aborts

IInv == TypeOK /\ OpenHasSlot /\ LeaksBounded /\ Once /\ ClosesLivePcbs

-----------------------------------------------------------------------------
(* Counting.                                                               *)

LEMMA Finite ==
  ASSUME TypeOK
  PROVE  /\ IsFiniteSet(Open) /\ Cardinality(Open) \in Nat
         /\ IsFiniteSet(Taken) /\ Cardinality(Taken) \in Nat
<1>1. IsFiniteSet(Open)
  BY FS_Subset DEF Open
<1>2. IsFiniteSet(Index)
  BY FS_Interval DEF Index
<1>3. IsFiniteSet(Taken)
  BY <1>2, FS_Subset DEF Taken
<1> QED
  BY <1>1, <1>3, FS_CardinalityType

\* Pcbs that are each in a slot of S are no more than the slots of S.
LEMMA NoMorePcbs ==
  ASSUME TypeOK, NEW S \in SUBSET Taken, NEW P \in SUBSET Pcbs,
         \A p \in P : \E i \in S : client_pcbs[i] = p
  PROVE  IsFiniteSet(P) /\ IsFiniteSet(S) /\ Cardinality(P) <= Cardinality(S)
         /\ Cardinality(P) \in Nat /\ Cardinality(S) \in Nat
<1> DEFINE U == {i \in S : client_pcbs[i] \in P}
           f == [i \in U |-> client_pcbs[i]]
<1>1. IsFiniteSet(S)
  BY Finite, FS_Subset
<1>2. U \in SUBSET S
  OBVIOUS
<1>3. IsFiniteSet(U) /\ Cardinality(U) <= Cardinality(S)
  <2> HIDE DEF U
  <2> QED
    BY <1>1, <1>2, FS_Subset
<1>4. f \in Surjection(U, P)
  BY DEF Surjection
<1>5. IsFiniteSet(P) /\ Cardinality(P) <= Cardinality(U)
  <2> HIDE DEF U, f
  <2> QED
    BY <1>3, <1>4, FS_Surjection
<1>6. Cardinality(P) \in Nat /\ Cardinality(U) \in Nat /\ Cardinality(S) \in Nat
  <2> HIDE DEF U
  <2> QED
    BY <1>1, <1>3, <1>5, FS_CardinalityType
<1> QED
  BY <1>1, <1>3, <1>5, <1>6

LEMMA CountDifference ==
  ASSUME NEW S, NEW T \in SUBSET S, IsFiniteSet(S)
  PROVE  Cardinality(S \ T) = Cardinality(S) - Cardinality(T)
<1>1. S \cap T = T
  OBVIOUS
<1> QED
  BY <1>1, FS_Difference

-----------------------------------------------------------------------------
(* Clearing slots.                                                         *)

LEMMA Clear ==
  ASSUME IInv, NEW S \in SUBSET Taken, ClearSlots(S), aborts' = aborts
  PROVE  /\ client_pcbs' \in [Index -> Pcbs \cup {NoPcb}] /\ fault' \in BOOLEAN
         /\ owner' \in [Pcbs -> 0 .. MaxSessions]
         /\ \A p \in Pcbs : owner'[p] \in {0, owner[p]}
         /\ \A p \in Pcbs : (\E i \in S : client_pcbs[i] = p) => owner'[p] = 0
         /\ OpenHasSlot' /\ LeaksBounded' /\ Once' /\ ClosesLivePcbs'
<1> USE DEF IInv, ClearSlots, ClosesFreed
<1>1. /\ client_pcbs' \in [Index -> Pcbs \cup {NoPcb}] /\ fault' \in BOOLEAN
      /\ owner' \in [Pcbs -> 0 .. MaxSessions]
  <2>1. client_pcbs' \in [Index -> Pcbs \cup {NoPcb}]
    BY DEF TypeOK
  <2>2. fault' \in BOOLEAN
    OBVIOUS
  <2>3. owner' \in [Pcbs -> 0 .. MaxSessions]
    BY DEF TypeOK
  <2> QED
    BY <2>1, <2>2, <2>3
<1>2. \A p \in Pcbs : owner'[p] = IF \E i \in S : client_pcbs[i] = p THEN 0 ELSE owner[p]
  BY DEF TypeOK
<1>3. \A i \in Index : client_pcbs'[i] = IF i \in S THEN NoPcb ELSE client_pcbs[i]
  BY DEF TypeOK
<1>4. Taken' = Taken \ S
  BY <1>3 DEF Taken
<1> DEFINE C == {p \in Open : \E i \in S : client_pcbs[i] = p}
<1>5. Open' = Open \ C
  BY <1>2 DEF Open
<1>6. OpenHasSlot'
  <2> SUFFICES ASSUME NEW p \in Open' PROVE SlotsOf(p)' # {}
    BY DEF OpenHasSlot
  <2>1. p \in Open /\ ~(\E i \in S : client_pcbs[i] = p)
    BY <1>5
  <2>2. PICK i \in Index : client_pcbs[i] = p
    BY <2>1 DEF OpenHasSlot, SlotsOf
  <2>3. client_pcbs'[i] = p
    BY <1>3, <2>1, <2>2
  <2> QED
    BY <2>3 DEF SlotsOf
<1>7. LeaksBounded'
  <2>1. C \in SUBSET Pcbs /\ C \in SUBSET Open
    BY DEF Open
  <2>2. \A p \in C : \E i \in S : client_pcbs[i] = p
    OBVIOUS
  <2> HIDE DEF C
  <2>3. Cardinality(C) <= Cardinality(S) /\ Cardinality(C) \in Nat /\ Cardinality(S) \in Nat
    BY <2>1, <2>2, NoMorePcbs
  <2>4. Cardinality(Taken') = Cardinality(Taken) - Cardinality(S)
    BY <1>4, Finite, CountDifference
  <2>5. Cardinality(Open') = Cardinality(Open) - Cardinality(C)
    BY <1>5, <2>1, Finite, CountDifference
  <2> QED
    BY <2>3, <2>4, <2>5, Finite DEF LeaksBounded, TypeOK
<1>8. Once'
  <2> SUFFICES ASSUME aborts' = 0, NEW i \in Taken'
               PROVE  /\ owner'[client_pcbs'[i]] # 0
                      /\ \A j \in Taken' : client_pcbs'[j] = client_pcbs'[i] => j = i
    BY DEF Once
  <2>1. i \in Taken \ S /\ client_pcbs'[i] = client_pcbs[i] /\ client_pcbs[i] \in Pcbs
    BY <1>3, <1>4 DEF Taken, TypeOK
  <2>2. owner[client_pcbs[i]] # 0 /\ \A j \in Taken : client_pcbs[j] = client_pcbs[i] => j = i
    BY <2>1 DEF Once
  <2>3. owner'[client_pcbs[i]] # 0
    BY <1>2, <2>1, <2>2
  <2>4. \A j \in Taken' : j \in Taken /\ client_pcbs'[j] = client_pcbs[j]
    BY <1>3, <1>4 DEF Taken
  <2> QED
    BY <2>1, <2>2, <2>3, <2>4
<1>9. ClosesLivePcbs'
  <2>1. aborts = 0 => ~(\E i \in S : owner[client_pcbs[i]] = 0
                                     \/ \E j \in S : j # i /\ client_pcbs[j] = client_pcbs[i])
    BY DEF Once
  <2> QED
    BY <2>1 DEF ClosesLivePcbs, TypeOK
<1> QED
  BY <1>1, <1>2, <1>6, <1>7, <1>8, <1>9

\* A table with a free slot has a first one.
LEMMA FirstFreeExists ==
  ASSUME NEW m \in Index, client_pcbs[m] = NoPcb
  PROVE  \E k \in Index : IsFirstFree(k)
<1> DEFINE F == SlotsOf(NoPcb)
<1>1. F \in SUBSET Nat /\ F # {}
  BY DEF SlotsOf, Index
<1>2. PICK k \in F : \A j \in F : k <= j
  <2> HIDE DEF F
  <2> DEFINE R == OpToRel(<, Nat)
  <2>1. \A x, y \in Nat : <<x, y>> \in R <=> x < y
    BY DEF OpToRel
  <2>2. IsWellFoundedOn(R, Nat)
    BY NatLessThanWellFounded
  <2> HIDE DEF R
  <2>3. PICK k \in F : \A j \in F : ~(<<j, k>> \in R)
    BY <1>1, <2>2, WFMin
  <2>4. \A j \in F : j \in Nat /\ k \in Nat /\ ~(j < k)
    BY <1>1, <2>1, <2>3, Zenon
  <2> QED
    BY <2>4
<1> QED
  BY <1>2 DEF IsFirstFree, SlotsOf

-----------------------------------------------------------------------------
(* The steps.                                                              *)

LEMMA InitInv == Init => IInv
<1> SUFFICES ASSUME Init PROVE IInv
  OBVIOUS
<1>1. TypeOK
  <2>1. owner \in [Pcbs -> 0 .. MaxSessions] /\ sent \in [Sessions -> 0 .. Window]
    BY DEF Init
  <2>2. client_pcbs \in [Index -> Pcbs \cup {NoPcb}]
    BY DEF Init
  <2>3. nsess \in 0 .. MaxSessions /\ aborts \in 0 .. MaxAborts
    BY DEF Init
  <2>4. fault \in BOOLEAN
    BY Zenon DEF Init
  <2>5. busy \in Pcbs \cup {NoPcb}
    BY DEF Init
  <2>6. hung \in BOOLEAN
    BY Zenon DEF Init
  <2> QED
    BY <2>1, <2>2, <2>3, <2>4, <2>5, <2>6 DEF TypeOK
<1>2. Open = {} /\ Taken = {}
  BY DEF Init, Open, Taken
<1>3. OpenHasSlot /\ Once
  BY <1>2 DEF OpenHasSlot, Once
<1>4. LeaksBounded
  BY <1>2, FS_EmptySet DEF LeaksBounded, Init
<1>5. ClosesLivePcbs
  BY DEF ClosesLivePcbs, Init
<1> QED
  BY <1>1, <1>3, <1>4, <1>5 DEF IInv

LEMMA AcceptInv ==
  ASSUME IInv, NEW p \in Pcbs, Accept(p)
  PROVE  IInv'
<1> USE DEF IInv, Accept
<1>1. nsess \in Nat /\ nsess' = nsess + 1 /\ nsess' \in 0 .. MaxSessions
  BY DEF TypeOK
<1>2. CASE UNCHANGED <<client_pcbs, owner>>
  <2>1. TypeOK'
    BY <1>1, <1>2 DEF TypeOK
  <2>2. OpenHasSlot' /\ LeaksBounded' /\ Once' /\ ClosesLivePcbs'
    BY <1>2 DEF OpenHasSlot, LeaksBounded, Once, ClosesLivePcbs, Open, Taken, SlotsOf
  <2> QED
    BY <2>1, <2>2
<1>3. CASE /\ Taken # Index
           /\ client_pcbs' = [i \in Index |-> IF IsFirstFree(i) THEN p ELSE client_pcbs[i]]
           /\ owner' = [owner EXCEPT ![p] = nsess + 1]
  <2>1. PICK k \in Index : IsFirstFree(k)
    <3>1. PICK m \in Index : client_pcbs[m] = NoPcb
      BY <1>3 DEF Taken
    <3> QED
      BY <3>1, FirstFreeExists DEF SlotsOf
  <2>2. \A i \in Index : IsFirstFree(i) <=> i = k
    BY <2>1 DEF IsFirstFree, SlotsOf, Index
  <2>3. client_pcbs' = [client_pcbs EXCEPT ![k] = p] /\ client_pcbs[k] = NoPcb
    BY <1>3, <2>1, <2>2 DEF IsFirstFree, SlotsOf, TypeOK
  <2>4. TypeOK'
    BY <1>1, <1>3, <2>3 DEF TypeOK
  <2>5. Taken' = Taken \cup {k} /\ k \notin Taken
    BY <2>1, <2>3 DEF Taken, TypeOK
  <2>6. Open' = Open \cup {p} /\ p \notin Open
    BY <1>1, <1>3 DEF Open, TypeOK
  <2>7. OpenHasSlot'
    <3> SUFFICES ASSUME NEW q \in Open' PROVE SlotsOf(q)' # {}
      BY DEF OpenHasSlot
    <3>1. CASE q = p
      <4>1. client_pcbs'[k] = p
        BY <2>1, <2>3 DEF TypeOK
      <4> QED
        BY <2>1, <3>1, <4>1 DEF SlotsOf
    <3>2. CASE q # p
      <4>1. PICK i \in Index : client_pcbs[i] = q
        BY <2>6, <3>2 DEF OpenHasSlot, SlotsOf
      <4>2. q # NoPcb
        BY DEF Open
      <4>3. client_pcbs'[i] = q
        BY <2>3, <4>1, <4>2 DEF TypeOK
      <4> QED
        BY <4>3 DEF SlotsOf
    <3> QED
      BY <3>1, <3>2
  <2>8. LeaksBounded'
    <3>1. Cardinality(Taken') = Cardinality(Taken) + 1
      BY <2>5, Finite, FS_AddElement
    <3>2. Cardinality(Open') = Cardinality(Open) + 1
      BY <2>6, Finite, FS_AddElement
    <3> QED
      BY <3>1, <3>2, Finite DEF LeaksBounded, TypeOK
  <2>9. Once'
    <3> SUFFICES ASSUME aborts = 0, NEW i \in Taken'
                 PROVE  /\ owner'[client_pcbs'[i]] # 0
                        /\ \A j \in Taken' : client_pcbs'[j] = client_pcbs'[i] => j = i
      BY DEF Once
    <3>1. \A j \in Taken : /\ client_pcbs'[j] = client_pcbs[j] /\ client_pcbs[j] \in Pcbs
                            /\ owner[client_pcbs[j]] # 0 /\ client_pcbs[j] # p
      BY <2>3, <2>5 DEF Once, Taken, TypeOK
    <3>2. client_pcbs'[k] = p /\ owner'[p] # 0
      BY <1>1, <1>3, <2>1, <2>3 DEF TypeOK
    <3>3. \A j \in Taken : owner'[client_pcbs[j]] # 0
      BY <1>3, <3>1 DEF TypeOK
    <3> QED
      BY <2>5, <3>1, <3>2, <3>3 DEF Once
  <2>10. ClosesLivePcbs'
    BY DEF ClosesLivePcbs
  <2> QED
    BY <2>4, <2>7, <2>8, <2>9, <2>10
<1> QED
  BY <1>2, <1>3

\* What a step that clears slots, and changes nothing else of the table, keeps.
LEMMA ClearInv ==
  ASSUME IInv, NEW S \in SUBSET Taken, ClearSlots(S), aborts' = aborts,
         nsess' \in 0 .. MaxSessions, nsess <= nsess',
         sent' \in [Sessions -> 0 .. Window], busy' = busy, hung' = hung
  PROVE  IInv'
<1>1. /\ client_pcbs' \in [Index -> Pcbs \cup {NoPcb}] /\ fault' \in BOOLEAN
      /\ owner' \in [Pcbs -> 0 .. MaxSessions]
      /\ \A p \in Pcbs : owner'[p] \in {0, owner[p]}
      /\ OpenHasSlot' /\ LeaksBounded' /\ Once' /\ ClosesLivePcbs'
  BY Clear
<1>2. TypeOK'
  BY <1>1 DEF TypeOK, IInv
<1> QED
  BY <1>1, <1>2 DEF IInv

LEMMA SlotsOfTaken ==
  ASSUME NEW p \in Pcbs
  PROVE  SlotsOf(p) \in SUBSET Taken
  BY DEF SlotsOf, Taken

LEMMA SentType ==
  ASSUME IInv, NEW p \in Pcbs, Recv(p)
  PROVE  sent' \in [Sessions -> 0 .. Window]
<1>1. owner[p] \in Sessions /\ sent[owner[p]] \in Nat /\ sent[owner[p]] < Window
  BY DEF IInv, TypeOK, Sessions, Recv
<1> QED
  BY <1>1 DEF IInv, TypeOK, Recv

LEMMA AbortInv ==
  ASSUME IInv, NEW p \in Pcbs, Abort(p)
  PROVE  IInv'
<1> USE DEF Abort
<1>1. aborts \in Nat /\ aborts' = aborts + 1 /\ aborts' \in 0 .. MaxAborts
  BY DEF IInv, TypeOK
<1>2. TypeOK'
  BY <1>1 DEF IInv, TypeOK
<1>3. \A q \in Pcbs : owner'[q] = IF q = p THEN 0 ELSE owner[q]
  BY DEF IInv, TypeOK
<1>4. Open' = Open \ {p} /\ p \in Open
  BY <1>3 DEF Open
<1>5. Taken' = Taken
  BY DEF Taken
<1>6. OpenHasSlot'
  BY <1>4 DEF IInv, OpenHasSlot, SlotsOf
<1>7. LeaksBounded'
  <2>1. Cardinality(Open') = Cardinality(Open) - 1
    BY <1>4, Finite, FS_RemoveElement DEF IInv
  <2> QED
    BY <1>1, <1>5, <2>1, Finite DEF IInv, LeaksBounded
<1>8. Once' /\ ClosesLivePcbs'
  BY <1>1 DEF Once, ClosesLivePcbs
<1> QED
  BY <1>2, <1>6, <1>7, <1>8 DEF IInv

LEMMA NoChange ==
  ASSUME IInv, UNCHANGED <<owner, nsess, client_pcbs, aborts, fault>>,
         sent' \in [Sessions -> 0 .. Window], busy' \in Pcbs \cup {NoPcb}, hung' \in BOOLEAN
  PROVE  IInv'
<1>1. Open' = Open /\ Taken' = Taken
  BY DEF Open, Taken
<1>2. \A p \in Pcbs : SlotsOf(p)' = SlotsOf(p)
  BY DEF SlotsOf
<1>3. TypeOK'
  BY DEF IInv, TypeOK
<1>4. OpenHasSlot' /\ LeaksBounded' /\ ClosesLivePcbs'
  <2>1. Open \in SUBSET Pcbs
    BY DEF Open
  <2>2. OpenHasSlot'
    BY <1>1, <1>2, <2>1 DEF IInv, OpenHasSlot
  <2> QED
    BY <1>1, <2>2 DEF IInv, LeaksBounded, ClosesLivePcbs
<1>5. Once'
  BY <1>1 DEF IInv, Once
<1> QED
  BY <1>3, <1>4, <1>5 DEF IInv

LEMMA Step == IInv /\ [Next]_vars => IInv'
<1> SUFFICES ASSUME IInv, [Next]_vars PROVE IInv'
  OBVIOUS
<1>0. /\ nsess \in 0 .. MaxSessions /\ nsess \in Nat /\ sent \in [Sessions -> 0 .. Window]
      /\ busy \in Pcbs \cup {NoPcb} /\ hung \in BOOLEAN
  BY DEF IInv, TypeOK
<1>1. ASSUME NEW p \in Pcbs, Accept(p) PROVE IInv'
  BY <1>1, AcceptInv
<1>2. ASSUME NEW p \in Pcbs, Recv(p) PROVE IInv'
  <2>1. hung' \in BOOLEAN
    BY <1>0, <1>2, Zenon DEF Recv
  <2>2. sent' \in [Sessions -> 0 .. Window] /\ busy' \in Pcbs \cup {NoPcb}
    BY <1>2, SentType DEF Recv
  <2> QED
    BY <1>2, <2>1, <2>2, NoChange DEF Recv
<1>3. ASSUME SendFails PROVE IInv'
  <2>1. SlotsOf(busy) \in SUBSET Taken
    BY <1>0, <1>3, SlotsOfTaken DEF SendFails
  <2> QED
    BY <1>0, <1>3, <2>1, ClearInv DEF SendFails, Result
<1>4. ASSUME NEW p \in Pcbs, PeerClose(p) PROVE IInv'
  BY <1>0, <1>4, SlotsOfTaken, ClearInv DEF PeerClose, Result
<1>5. ASSUME NEW p \in Pcbs, Poll(p) PROVE IInv'
  BY <1>0, <1>5, SlotsOfTaken, ClearInv DEF Poll, Result
<1>6. ASSUME NEW p \in Pcbs, Reset(p) PROVE IInv'
  BY <1>0, <1>6, ClearInv DEF Reset, ResultAll
<1>7. ASSUME NEW p \in Pcbs, Abort(p) PROVE IInv'
  BY <1>7, AbortInv
<1>8. ASSUME AcceptFailed PROVE IInv'
  <2>1. nsess' \in 0 .. MaxSessions /\ nsess <= nsess'
    BY <1>0, <1>8 DEF AcceptFailed
  <2> QED
    BY <1>0, <1>8, <2>1, ClearInv DEF AcceptFailed, ResultAll
<1>9. ASSUME SendHangs PROVE IInv'
  <2>1. hung' \in BOOLEAN
    BY <1>9, Zenon DEF SendHangs
  <2> QED
    BY <1>0, <1>9, <2>1, NoChange DEF SendHangs
<1>10. ASSUME RecvReturns PROVE IInv'
  <2>1. hung' \in BOOLEAN
    BY <1>0, <1>10, Zenon DEF RecvReturns
  <2> QED
    BY <1>0, <1>10, <2>1, NoChange DEF RecvReturns
<1>11. ASSUME UNCHANGED vars PROVE IInv'
  <2>1. hung' \in BOOLEAN
    BY <1>0, <1>11, Zenon DEF vars
  <2> QED
    BY <1>0, <1>11, <2>1, NoChange DEF vars
<1> QED
  BY <1>1, <1>2, <1>3, <1>4, <1>5, <1>6, <1>7, <1>8, <1>9, <1>10, <1>11 DEF Next

-----------------------------------------------------------------------------
(* The theorems.                                                           *)

LEMMA Invariant == Spec => []IInv
  BY InitInv, Step, PTL DEF Spec

\* Open sessions are no more than taken slots, leaked slots no more than aborts.
LEMMA Accounted == IInv => SlotsAccounted
<1> SUFFICES ASSUME IInv PROVE SlotsAccounted
  OBVIOUS
<1>1. \A p \in Open : \E i \in Taken : client_pcbs[i] = p
  BY DEF IInv, OpenHasSlot, Open, Taken, SlotsOf
<1>2. Open \in SUBSET Pcbs
  BY DEF Open
<1>3. Cardinality(Open) <= Cardinality(Taken)
  BY <1>1, <1>2, NoMorePcbs DEF IInv
<1> QED
  BY <1>3 DEF IInv, LeaksBounded, SlotsAccounted

\* The table of the webserver and lwIP's pool keep their types.
THEOREM TypeCorrect == Spec => []TypeOK
<1>1. IInv => TypeOK
  BY DEF IInv
<1> QED
  BY Invariant, <1>1, PTL

\* Every open session of the webserver has a slot of client_pcbs, so that its
\* poll and its close callbacks find it.
THEOREM SessionsHaveSlots == Spec => []OpenHasSlot
<1>1. IInv => OpenHasSlot
  BY DEF IInv
<1> QED
  BY Invariant, <1>1, PTL

\* Slots of client_pcbs leak by aborted connections only, one slot each.
THEOREM SlotAccounting == Spec => []SlotsAccounted
  BY Invariant, Accounted, PTL

\* clear_client_pcb calls tcp_close on a freed pcb only after an abort, however
\* often send_data gives up on the same client.
THEOREM NoDoubleClose == Spec => []ClosesLivePcbs
<1>1. IInv => ClosesLivePcbs
  BY DEF IInv
<1> QED
  BY Invariant, <1>1, PTL

-----------------------------------------------------------------------------
(* A full table drains.                                                    *)

\* Whoever fills the table without an abort: some session is open, tcp_poll has
\* a live pcb to be called on, and whichever open session it is called for
\* first frees a slot; until then the sessions stay.
FullDrains ==
  [][Full /\ aborts = 0 =>
       /\ ~fault /\ Open # {}
       /\ \A p \in Open : /\ p \in Open' \/ ~Full' \/ aborts' > 0
                          /\ Poll(p) => ~Full']_vars

\* Clearing any slot leaves the table with a free one.
LEMMA ClearedIsFree ==
  ASSUME TypeOK, NEW S \in SUBSET Index, S # {}, ClearSlots(S)
  PROVE  ~Full'
<1>1. PICK i \in Index : i \in S
  OBVIOUS
<1>2. client_pcbs'[i] = NoPcb
  BY <1>1 DEF ClearSlots
<1> QED
  BY <1>1, <1>2 DEF Full, Taken

LEMMA DrainStep ==
  ASSUME IInv, [Next]_vars, Full, aborts = 0
  PROVE  /\ ~fault /\ Open # {}
         /\ \A p \in Open : /\ p \in Open' \/ ~Full' \/ aborts' > 0
                            /\ Poll(p) => ~Full'
<1>1. TypeOK /\ OpenHasSlot /\ Once /\ ~fault
  BY DEF IInv, ClosesLivePcbs
<1>2. 0 \in Taken
  BY DEF Full, Index
<1>3. Open # {}
  <2>1. client_pcbs[0] \in Pcbs
    BY <1>1, <1>2 DEF TypeOK, Taken
  <2>2. owner[client_pcbs[0]] # 0
    BY <1>1, <1>2 DEF Once
  <2> QED
    BY <2>1, <2>2 DEF Open
<1>4. ASSUME NEW q \in Pcbs, owner[q] # 0, Result(q) PROVE ~Full'
  <2>1. SlotsOf(q) # {} /\ SlotsOf(q) \in SUBSET Index
    BY <1>1, <1>4 DEF OpenHasSlot, Open, SlotsOf
  <2> QED
    BY <1>1, <1>4, <2>1, ClearedIsFree DEF Result
<1>5. ASSUME NEW q \in Pcbs, PeerClose(q) \/ Poll(q) PROVE ~Full'
  BY <1>4, <1>5 DEF PeerClose, Poll
<1>6. ASSUME ResultAll PROVE ~Full'
  <2>1. Taken # {} /\ Taken \in SUBSET Index
    BY <1>2 DEF Taken
  <2> QED
    BY <1>1, <1>6, <2>1, ClearedIsFree DEF ResultAll
<1>7. ASSUME NEW p \in Open PROVE p \in Open' \/ ~Full' \/ aborts' > 0
  <2>1. CASE SendHangs \/ RecvReturns \/ \E q \in Pcbs : Accept(q) \/ Recv(q)
    <3>1. owner' = owner
      BY <2>1 DEF Accept, Recv, SendHangs, RecvReturns, Full
    <3> QED
      BY <3>1 DEF Open
  <2>2. ASSUME NEW q \in Pcbs, Abort(q) PROVE aborts' > 0
    BY <2>2 DEF Abort
  <2>3. CASE UNCHANGED vars
    BY <2>3 DEF vars, Open
  <2>4. CASE AcceptFailed \/ \E q \in Pcbs : Reset(q)
    BY <1>6, <2>4 DEF AcceptFailed, Reset
  <2>5. CASE SendFails
    <3>1. busy \in Pcbs
      BY <1>1, <2>5 DEF SendFails, TypeOK
    <3>2. CASE owner[busy] # 0
      BY <1>4, <2>5, <3>1, <3>2 DEF SendFails
    <3>3. CASE owner[busy] = 0
      <4>1. SlotsOf(busy) = {}
        BY <1>1, <3>1, <3>3 DEF Once, SlotsOf, Taken
      <4>2. owner' = owner
        BY <1>1, <2>5, <4>1 DEF SendFails, Result, ClearSlots, TypeOK
      <4> QED
        BY <4>2 DEF Open
    <3> QED
      BY <3>2, <3>3
  <2> QED
    BY <1>5, <2>1, <2>2, <2>3, <2>4, <2>5 DEF Next
<1> QED
  BY <1>1, <1>3, <1>5, <1>7 DEF Open

\* A table that is full without aborted connections has a session to poll, and
\* polling it frees a slot: the safety core of FullEnds.
THEOREM FullTableDrains == Spec => FullDrains
<1>1. IInv /\ [Next]_vars
      => (Full /\ aborts = 0 =>
            /\ ~fault /\ Open # {}
            /\ \A p \in Open : /\ p \in Open' \/ ~Full' \/ aborts' > 0
                               /\ Poll(p) => ~Full')
  BY DrainStep
<1> QED
  BY <1>1, Invariant, PTL DEF Spec, FullDrains
=============================================================================
