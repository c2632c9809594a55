-------------------------- MODULE DhcpServer_proofs --------------------------
(***************************************************************************)
(* For every pool, lease time, unit and field width with Lease + Unit at   *)
(* most half the wrap, no two clients hold the same address.  What makes   *)
(* it true: a slot's expiry field is the rounded end of its last grant, a  *)
(* lease that a client still holds is no later than that end, and a signed *)
(* comparison modulo the wrap is right for every end at most half a wrap   *)
(* ahead.  The table therefore keeps every lease that a client still has,  *)
(* until a restart of the server forgets them all.                         *)
(***************************************************************************)
EXTENDS DhcpServer, TLAPS

\* The table knows every lease a client still holds, but for those that a
\* restart forgot.
Known ==
  /\ \A i \in Index : expiry[i] = Stamp(granted[i]) /\ granted[i] <= now + Lease
  /\ \A c \in Macs \X Index : until[c] <= now + Lease
  /\ \A m \in Macs, i \in Index :
       Remembered(m, i) => mac[i] = m /\ until[<<m, i>>] <= granted[i]

IInv == TypeOK /\ Known

USE MacAssumption, SlotAssumption, UnitAssumption, LeaseAssumption

\* Division with remainder, the two facts the arithmetic below rests on.
LEMMA DivMod ==
  ASSUME NEW a \in Int, NEW M \in Nat \ {0}
  PROVE  a = M * (a \div M) + (a % M) /\ (a % M) \in 0 .. M - 1 /\ (a \div M) \in Int
BY SMT

LEMMA ModUnique ==
  ASSUME NEW k \in Int, NEW M \in Nat \ {0}, NEW r \in 0 .. M - 1
  PROVE  (k * M + r) % M = r
BY SMT

LEMMA WrapType == Wrap \in Nat \ {0} /\ Half \in Nat /\ Half < Wrap
<1>1. Wrap \in Nat \ {0}
  BY DEF Wrap
<1>2. Wrap = 2 * Half + (Wrap % 2) /\ (Wrap % 2) \in 0 .. 1 /\ Half \in Int
  BY <1>1, DivMod DEF Half
<1> QED
  BY <1>1, <1>2

\* The comparison sees the end rounded up to the end of its unit: whatever
\* whole wraps the field drops cancel out.
LEMMA PastOfStamp ==
  ASSUME NEW t \in Nat, NEW n \in Nat
  PROVE  /\ Stamp(t) \in 0 .. Units - 1
         /\ \E up \in t .. t + Unit - 1 : Past(Stamp(t), n) = ((up - n) % Wrap >= Half)
<1> DEFINE q  == t \div Unit
           up == q * Unit + (Unit - 1)
<1>1. t = Unit * q + (t % Unit) /\ (t % Unit) \in 0 .. Unit - 1 /\ q \in Int
  <2>1. t \in Int
    OBVIOUS
  <2> QED
    BY <2>1, DivMod, UnitAssumption, Zenon
<1>2. up \in t .. t + Unit - 1
  BY <1>1
<1>3. q = Units * (q \div Units) + (q % Units) /\ (q % Units) \in 0 .. Units - 1
      /\ (q \div Units) \in Int
  BY <1>1, DivMod
<1>4. PICK k \in Int : q = Units * k + Stamp(t)
  BY <1>3 DEF Stamp
<1>5. Stamp(t) \in 0 .. Units - 1
  BY <1>3 DEF Stamp
<1> DEFINE a == up - n
           b == Stamp(t) * Unit + (Unit - 1) - n
<1>6. a = b + k * Wrap
  <2>0. Stamp(t) \in Int /\ q = Units * k + Stamp(t) /\ k \in Int
    BY <1>4, <1>5
  <2> HIDE DEF q
  <2>1. q * Unit = Stamp(t) * Unit + k * (Unit * Units)
    BY <2>0
  <2> QED
    BY <2>1, <1>1, <1>5 DEF Wrap
<1>7. a \in Int /\ b \in Int
  BY <1>1, <1>5
<1> HIDE DEF a, b, up, q
<1>8. b % Wrap = a % Wrap
  <2>1. b = Wrap * (b \div Wrap) + (b % Wrap) /\ (b % Wrap) \in 0 .. Wrap - 1
        /\ (b \div Wrap) \in Int
    BY <1>7, WrapType, DivMod
  <2>2. a = (b \div Wrap + k) * Wrap + (b % Wrap)
    BY <1>6, <2>1, WrapType
  <2>3. b \div Wrap + k \in Int
    BY <2>1
  <2>4. ((b \div Wrap + k) * Wrap + (b % Wrap)) % Wrap = b % Wrap
    BY <2>1, <2>3, WrapType, ModUnique, Zenon
  <2> QED
    BY <2>2, <2>4
<1>9. Past(Stamp(t), n) = (a % Wrap >= Half)
  BY <1>8 DEF Past, b
<1> QED
  BY <1>2, <1>5, <1>9 DEF a

\* A running lease is never taken for a past one ...
LEMMA RunningIsNotPast ==
  ASSUME NEW t \in Nat, NEW n \in Nat, n < t, t <= n + Lease
  PROVE  ~Past(Stamp(t), n)
<1>1. PICK up \in t .. t + Unit - 1 : Past(Stamp(t), n) = ((up - n) % Wrap >= Half)
  BY PastOfStamp
<1>2. up - n \in 0 .. Half - 1 /\ up - n \in 0 .. Wrap - 1
  BY WrapType
<1>3. (0 * Wrap + (up - n)) % Wrap = up - n
  BY <1>2, WrapType, ModUnique
<1> QED
  <2>1. 0 * Wrap + (up - n) = up - n
    BY <1>2, WrapType
  <2>2. (up - n) % Wrap = up - n
    BY <1>3, <2>1
  <2>3. up - n < Half /\ up - n \in Int
    BY <1>2, WrapType
  <2>4. ~(up - n >= Half)
    BY <2>3, WrapType
  <2> QED
    BY <1>1, <2>2, <2>4

\* ... and one that ended at least a unit and at most half a wrap ago is.
LEMMA EndedIsPast ==
  ASSUME NEW t \in Nat, NEW n \in Nat, t + Unit <= n, n - t <= Half
  PROVE  Past(Stamp(t), n)
<1>1. PICK up \in t .. t + Unit - 1 : Past(Stamp(t), n) = ((up - n) % Wrap >= Half)
  BY PastOfStamp
<1>2. up - n < 0 /\ up - n >= -Half /\ up - n \in Int
  BY WrapType
<1>3. Wrap + (up - n) \in 0 .. Wrap - 1 /\ Wrap + (up - n) >= Half
  <2>1. Wrap >= 2 * Half
    BY WrapType, DivMod DEF Half
  <2> QED
    BY <1>2, <2>1, WrapType
<1>4. ((-1) * Wrap + (Wrap + (up - n))) % Wrap = Wrap + (up - n)
  BY <1>3, WrapType, ModUnique
<1>5. (-1) * Wrap + (Wrap + (up - n)) = up - n
  BY <1>2, WrapType
<1> QED
  BY <1>1, <1>3, <1>4, <1>5

-----------------------------------------------------------------------------
LEMMA StampType ==
  ASSUME NEW t \in Nat
  PROVE  Stamp(t) \in 0 .. Units - 1
BY PastOfStamp

LEMMA StampZero == Stamp(0) = 0
<1>1. 0 = Unit * (0 \div Unit) + (0 % Unit) /\ (0 % Unit) \in 0 .. Unit - 1
      /\ (0 \div Unit) \in Int
  BY DivMod, UnitAssumption
<1>2. 0 \div Unit = 0
  BY <1>1
<1>3. (0 * Units + 0) % Units = 0
  BY ModUnique
<1> QED
  BY <1>2, <1>3 DEF Stamp

\* The table keeps its types.
THEOREM TypeCorrect == Spec => []TypeOK
<1>1. Init => TypeOK
  <2> SUFFICES ASSUME Init PROVE TypeOK
    OBVIOUS
  <2>1. expiry \in [Index -> 0 .. Units - 1] /\ granted \in [Index -> Nat]
    BY DEF Init
  <2>2. /\ until \in [Macs \X Index -> Nat] /\ mac \in [Index -> Macs \cup {NoMac}]
        /\ forgotten \subseteq Macs \X Index
    BY DEF Init
  <2> QED
    BY <2>1, <2>2 DEF Init, TypeOK
<1>2. TypeOK /\ [Next]_vars => TypeOK'
  <2> SUFFICES ASSUME TypeOK, [Next]_vars PROVE TypeOK'
    OBVIOUS
  <2> USE DEF TypeOK
  <2>1. ASSUME NEW m \in Macs, Discover(m) PROVE TypeOK'
    <3>1. mac' \in [Index -> Macs \cup {NoMac}]
      BY <2>1 DEF Discover
    <3> QED
      BY <2>1, <3>1 DEF Discover
  <2>2. ASSUME NEW m \in Macs, NEW i \in Index, Request(m, i) PROVE TypeOK'
    <3>1. now + Lease \in Nat /\ Stamp(now + Lease) \in 0 .. Units - 1
      BY StampType
    <3>2. mac' \in [Index -> Macs \cup {NoMac}] /\ expiry' \in [Index -> 0 .. Units - 1]
          /\ granted' \in [Index -> Nat] /\ now' = now /\ running' = running
          /\ forgotten' \subseteq Macs \X Index
      BY <2>2, <3>1 DEF Request
    <3>3. until' \in [Macs \X Index -> Nat]
      BY <2>2, <3>1 DEF Request
    <3> QED
      BY <3>2, <3>3
  <2>3. CASE Stop
    BY <2>3 DEF Stop
  <2>4. CASE Start
    BY <2>4 DEF Start
  <2>5. CASE Tick
    <3>1. until' \in [Macs \X Index -> Nat]
      BY <2>5 DEF Tick
    <3> QED
      BY <2>5, <3>1 DEF Tick
  <2>6. CASE UNCHANGED vars
    BY <2>6 DEF vars
  <2> QED
    BY <2>1, <2>2, <2>3, <2>4, <2>5, <2>6 DEF Next
<1> QED
  BY <1>1, <1>2, PTL DEF Spec

\* The slot of a lease that a client holds is not expired.
LEMMA HeldIsNotExpired ==
  ASSUME IInv, NEW m \in Macs, NEW i \in Index, Remembered(m, i)
  PROVE  ~Expired(i)
<1>1. granted[i] \in Nat /\ now \in Nat /\ now < granted[i] /\ granted[i] <= now + Lease
  <2>1. Holds(m, i) /\ until[<<m, i>>] \in Nat /\ granted[i] \in Nat /\ now \in Nat
    BY DEF IInv, Remembered, TypeOK
  <2>2. until[<<m, i>>] <= granted[i] /\ granted[i] <= now + Lease
    BY DEF IInv, Known
  <2> QED
    BY <2>1, <2>2 DEF Holds
<1>2. ~Past(Stamp(granted[i]), now)
  BY <1>1, RunningIsNotPast
<1> QED
  BY <1>2 DEF Expired, IInv, Known

\* Each step keeps the table's knowledge of the leases that are held.
LEMMA KnownStep ==
  ASSUME IInv, TypeOK', [Next]_vars
  PROVE  Known'
<1> USE DEF IInv
<1>1. ASSUME NEW m \in Macs, Discover(m) PROVE Known'
  <2>1. /\ now' = now /\ expiry' = expiry /\ granted' = granted /\ until' = until
        /\ forgotten' = forgotten
    BY <1>1 DEF Discover
  <2>2. ASSUME NEW n \in Macs, NEW i \in Index, Remembered(n, i) PROVE mac'[i] = n
    <3>1. ~Expired(i) /\ mac[i] = n
      BY <2>2, HeldIsNotExpired DEF Known
    <3> QED
      BY <1>1, <3>1 DEF Discover
  <2> QED
    BY <2>1, <2>2 DEF Known, Remembered, Holds
<1>2. ASSUME NEW m \in Macs, NEW i \in Index, Request(m, i) PROVE Known'
  <2>1. /\ now' = now /\ now \in Nat /\ mac' = [mac EXCEPT ![i] = m] /\ mac[i] \in {m, NoMac}
        /\ expiry' = [expiry EXCEPT ![i] = Stamp(now + Lease)]
        /\ granted' = [granted EXCEPT ![i] = now + Lease]
        /\ forgotten' = forgotten \ {<<m, i>>}
    BY <1>2 DEF Request, Grants, TypeOK
  <2>2. \A j \in Index : expiry'[j] = Stamp(granted'[j]) /\ granted'[j] <= now' + Lease
    BY <2>1 DEF Known, TypeOK
  <2>4. ASSUME NEW c \in Macs \X Index PROVE until'[c] <= now + Lease
    <3>1. until[c] <= now + Lease /\ now + Lease \in Nat
      BY <2>1 DEF Known
    <3>2. \/ until' = until
          \/ until' = [until EXCEPT ![<<m, i>>] = now + Lease]
      BY <1>2 DEF Request
    <3>3. until'[c] \in {until[c], now + Lease}
      BY <3>2 DEF TypeOK
    <3> QED
      BY <3>1, <3>3
  <2>3. ASSUME NEW n \in Macs, NEW j \in Index, Remembered(n, j)'
        PROVE  mac'[j] = n /\ until'[<<n, j>>] <= granted'[j]
    <3>1. CASE j = i /\ n = m
      <4>1. until'[<<n, j>>] <= now + Lease
        BY <2>4, <2>1
      <4> QED
        BY <2>1, <3>1, <4>1 DEF TypeOK
    <3>2. CASE ~(j = i /\ n = m)
      <4>1. until'[<<n, j>>] = until[<<n, j>>] /\ <<n, j>> # <<m, i>>
        BY <1>2, <3>2 DEF Request, TypeOK
      <4>2. Remembered(n, j)
        BY <2>1, <2>3, <4>1 DEF Remembered, Holds
      <4>3. mac[j] = n /\ until[<<n, j>>] <= granted[j]
        BY <4>2 DEF Known
      <4>4. j # i
        BY <2>1, <3>2, <4>3
      <4> QED
        BY <2>1, <4>1, <4>3, <4>4 DEF TypeOK
    <3> QED
      BY <3>1, <3>2
  <2> QED
    BY <2>1, <2>2, <2>3, <2>4 DEF Known
<1>3. CASE Stop
  BY <1>3 DEF Stop, Known, Remembered, Holds
<1>4. CASE Start
  <2>1. /\ now' = now /\ until' = until /\ \A i \in Index : expiry'[i] = 0 /\ granted'[i] = 0
        /\ forgotten' = {c \in Macs \X Index : until[c] # 0}
    BY <1>4 DEF Start
  <2>2. ASSUME NEW m \in Macs, NEW i \in Index PROVE ~Remembered(m, i)'
    BY <2>1 DEF Remembered, Holds, TypeOK
  <2> QED
    BY <2>1, <2>2, StampZero DEF Known, TypeOK
<1>5. CASE Tick
  <2>1. /\ now' = now + 1 /\ now \in Nat /\ mac' = mac /\ expiry' = expiry /\ granted' = granted
    BY <1>5 DEF Tick, TypeOK
  <2>2. \A i \in Index : expiry'[i] = Stamp(granted'[i]) /\ granted'[i] <= now' + Lease
    BY <2>1 DEF Known, TypeOK
  <2>4. \A c \in Macs \X Index : until'[c] <= now' + Lease
    BY <1>5, <2>1 DEF Tick, Known, TypeOK
  <2>3. ASSUME NEW m \in Macs, NEW i \in Index, Remembered(m, i)'
        PROVE  mac'[i] = m /\ until'[<<m, i>>] <= granted'[i]
    <3>1. until'[<<m, i>>] = IF until[<<m, i>>] > now + 1 THEN until[<<m, i>>] ELSE 0
      BY <1>5 DEF Tick
    <3>2. until[<<m, i>>] \in Nat
      BY DEF TypeOK
    <3>3. until'[<<m, i>>] = until[<<m, i>>] /\ Holds(m, i) /\ until'[<<m, i>>] # 0
      BY <2>1, <2>3, <3>1, <3>2 DEF Remembered, Holds
    <3>4. Remembered(m, i)
      BY <1>5, <2>3, <3>3 DEF Tick, Remembered
    <3> QED
      BY <2>1, <3>3, <3>4 DEF Known
  <2> QED
    BY <2>2, <2>3, <2>4 DEF Known
<1>6. CASE UNCHANGED vars
  BY <1>6 DEF vars, Known, Remembered, Holds
<1> QED
  BY <1>1, <1>2, <1>3, <1>4, <1>5, <1>6 DEF Next

\* The inductive invariant holds throughout.
LEMMA LeasesKnown == Spec => []IInv
<1>1. Init /\ TypeOK => IInv
  <2> SUFFICES ASSUME Init, TypeOK PROVE Known
    BY DEF IInv
  <2> QED
    BY StampZero DEF Init, Known, Remembered, Holds
<1>2. IInv /\ TypeOK' /\ [Next]_vars => IInv'
  BY KnownStep DEF IInv
<1> QED
  BY <1>1, <1>2, TypeCorrect, PTL DEF Spec

\* One client per address, but for leases that a restart of the server forgot.
THEOREM OneClientPerAddress == Spec => []NoDoubleLease
<1>1. IInv => NoDoubleLease
  BY DEF IInv, Known, NoDoubleLease
<1> QED
  BY <1>1, LeasesKnown, PTL

\* DISCOVER offers no address another client holds, unless a restart forgot it:
\* the slot it picks is the client's own, free or expired.
THEOREM OffersAreFree == Spec => []OfferIsFree
<1>1. IInv => OfferIsFree
  <2> SUFFICES ASSUME IInv, NEW m1 \in Macs, NEW m2 \in Macs, NEW i \in Index,
                      Chosen(m1, i), Remembered(m2, i)
               PROVE  m1 = m2
    BY DEF OfferIsFree
  <2>1. mac[i] = m2 /\ ~Expired(i)
    BY HeldIsNotExpired DEF IInv, Known
  <2>2. PICK own \in 0 .. Slots, reuse \in 0 .. Slots :
          Found(m1, own, reuse) /\ i = (IF own < Slots THEN own ELSE reuse)
    BY DEF Chosen
  <2>3. CASE own < Slots
    BY <2>1, <2>2, <2>3 DEF Found, IsFirst, Own
  <2>4. CASE ~(own < Slots)
    <3>1. i = reuse /\ i # Slots
      BY <2>2, <2>4 DEF Index
    <3>2. i \in Reusable(own)
      BY <2>2, <3>1 DEF Found, IsFirst
    <3>3. Free(i)
      BY <2>1, <3>2 DEF Reusable
    <3> QED
      BY <2>1, <3>3, MacAssumption DEF Free
  <2> QED
    BY <2>3, <2>4
<1> QED
  BY <1>1, LeasesKnown, PTL

\* A client is refused only by slots that are running, only just over, or so
\* old that the comparison has wrapped.
THEOREM RefusalsJustified == Spec => []RefusedOnlyWhenFull
<1>1. IInv => RefusedOnlyWhenFull
  <2> SUFFICES ASSUME IInv, NEW m \in Macs, Chosen(m, Slots), NEW i \in Index,
                      granted[i] + Unit <= now, now - granted[i] <= Half
               PROVE  FALSE
    <3>1. ASSUME IInv, NEW i \in Index PROVE granted[i] \in Nat /\ now \in Nat
      BY <3>1 DEF IInv, TypeOK
    <3> QED
      BY <3>1, WrapType DEF RefusedOnlyWhenFull
  <2>1. PICK own \in 0 .. Slots, reuse \in 0 .. Slots :
          Found(m, own, reuse) /\ Slots = (IF own < Slots THEN own ELSE reuse)
    BY DEF Chosen
  <2>2. own = Slots /\ reuse = Slots
    BY <2>1
  <2>3. Reusable(Slots) = {}
    <3>1. \A j \in Index : j # Slots
      BY DEF Index
    <3> QED
      BY <2>1, <2>2, <3>1 DEF Found, IsFirst, Reusable
  <2>4. granted[i] \in Nat /\ now \in Nat
    BY DEF IInv, TypeOK
  <2>5. Past(Stamp(granted[i]), now)
    BY <2>4, EndedIsPast
  <2>6. Expired(i)
    BY <2>5 DEF Expired, IInv, Known
  <2>7. i < Slots
    BY DEF Index
  <2> QED
    BY <2>3, <2>6, <2>7 DEF Reusable
<1> QED
  BY <1>1, LeasesKnown, PTL

-----------------------------------------------------------------------------
(* What a client can rely on.                                              *)

\* The first member of a set of slots is one.
LEMMA FirstIsOne ==
  ASSUME NEW S \in SUBSET Index, NEW i \in 0 .. Slots, NEW j \in 0 .. Slots, IsFirst(i, S), IsFirst(j, S)
  PROVE  i = j
<1>1. CASE S = {}
  BY <1>1 DEF IsFirst
<1>2. CASE S # {}
  <2>1. i <= j /\ j <= i
    BY <1>2 DEF IsFirst
  <2> QED
    BY <2>1
<1> QED
  BY <1>1, <1>2

LEMMA FoundIsOne ==
  ASSUME NEW m \in Macs, NEW a \in 0 .. Slots, NEW b \in 0 .. Slots,
         NEW c \in 0 .. Slots, NEW d \in 0 .. Slots, Found(m, a, b), Found(m, c, d)
  PROVE  a = c /\ b = d
<1>1. Own(m) \in SUBSET Index /\ Reusable(a) \in SUBSET Index
  BY DEF Own, Reusable
<1>2. a = c
  BY <1>1, FirstIsOne DEF Found
<1>3. b = d
  BY <1>1, <1>2, FirstIsOne DEF Found
<1> QED
  BY <1>2, <1>3

\* Whoever still holds a lease that no restart forgot is known by it, would be granted it again, and
\* is offered no other client's slot and none that is merely free: one that
\* carries its own address.
LeaseKept ==
  \A m \in Macs, i \in Index : Remembered(m, i) =>
    /\ mac[i] = m /\ Grants(m, i) /\ ~Expired(i)
    /\ \A j \in 0 .. Slots : Chosen(m, j) => j \in Index /\ mac[j] = m

\* A client that comes back before its lease is over, across lost answers,
\* purges by other clients' DISCOVERs and the wrap of the expiry field, gets an
\* address of its own.
THEOREM LeasesAreKept == Spec => []LeaseKept
<1>1. IInv => LeaseKept
  <2> SUFFICES ASSUME IInv, NEW m \in Macs, NEW i \in Index, Remembered(m, i)
               PROVE  /\ mac[i] = m /\ Grants(m, i) /\ ~Expired(i)
                      /\ \A j \in 0 .. Slots : Chosen(m, j) => j \in Index /\ mac[j] = m
    BY DEF LeaseKept
  <2>1. mac[i] = m /\ ~Expired(i)
    BY HeldIsNotExpired DEF IInv, Known
  <2>2. ASSUME NEW j \in 0 .. Slots, Chosen(m, j) PROVE j \in Index /\ mac[j] = m
    <3>1. PICK own \in 0 .. Slots, reuse \in 0 .. Slots :
            Found(m, own, reuse) /\ j = (IF own < Slots THEN own ELSE reuse)
      BY <2>2 DEF Chosen
    <3>2. i \in Own(m)
      BY <2>1 DEF Own
    <3>3. own \in Own(m) /\ own <= i
      BY <3>1, <3>2 DEF Found, IsFirst
    <3>4. own < Slots
      BY <3>3 DEF Own, Index
    <3> QED
      BY <3>1, <3>3, <3>4 DEF Own
  <2> QED
    BY <2>1, <2>2 DEF Grants
<1> QED
  BY <1>1, LeasesKnown, PTL

\* An offer reserves nothing, but a slot it names is one that the server would
\* grant to the client that asks for it next.
OfferGranted ==
  [][\A m \in Macs, i \in Index : Discover(m) /\ Chosen(m, i) => Grants(m, i)']_vars

\* What a DISCOVER offers it has also made grantable: the client's own slot is
\* not the one that it wipes, and any other slot it offers is free or wiped.
THEOREM OffersAreGranted == Spec => OfferGranted
<1>1. ASSUME TypeOK, [Next]_vars, NEW m \in Macs, NEW i \in Index, Discover(m), Chosen(m, i)
      PROVE  Grants(m, i)'
  <2>1. PICK own \in 0 .. Slots, reuse \in 0 .. Slots :
          Found(m, own, reuse) /\ i = (IF own < Slots THEN own ELSE reuse)
    BY <1>1 DEF Chosen
  <2>2. PICK o \in 0 .. Slots, r \in 0 .. Slots :
          /\ Found(m, o, r)
          /\ mac' = [j \in Index |-> IF j = r /\ Expired(j) THEN NoMac ELSE mac[j]]
    BY <1>1 DEF Discover
  <2>3. o = own /\ r = reuse
    BY <2>1, <2>2, FoundIsOne
  <2>4. mac'[i] = IF i = reuse /\ Expired(i) THEN NoMac ELSE mac[i]
    BY <2>2, <2>3
  <2>5. CASE own < Slots
    <3>1. i = own /\ mac[i] = m
      BY <1>1, <2>1, <2>5 DEF Found, IsFirst, Own
    <3> QED
      BY <2>4, <3>1 DEF Grants
  <2>6. CASE ~(own < Slots)
    <3>1. i = reuse /\ i # Slots
      BY <2>1, <2>6 DEF Index
    <3>2. Free(i) \/ Expired(i)
      BY <2>1, <3>1 DEF Found, IsFirst, Reusable
    <3> QED
      BY <2>4, <3>1, <3>2 DEF Grants, Free
  <2> QED
    BY <2>5, <2>6
<1>2. TypeOK /\ [Next]_vars
      => \A m \in Macs, i \in Index : Discover(m) /\ Chosen(m, i) => Grants(m, i)'
  BY <1>1
<1> QED
  BY <1>2, TypeCorrect, PTL DEF Spec, OfferGranted

=============================================================================
