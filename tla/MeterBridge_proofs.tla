-------------------------- MODULE MeterBridge_proofs --------------------------
(***************************************************************************)
(* Clients of the image read one copy, and one age per readout: the mutex  *)
(* is held exactly while a thread is past it, and outside the copy the     *)
(* image is of one copy.  So the bridge implements MeasurementBoard.  And  *)
(* the mutex is given back, and the sign followed, in a bounded number of  *)
(* steps.                                                                  *)
(***************************************************************************)
EXTENDS MeterBridge, TLAPS

Step == {"idle", "lock", "read"}

\* The registers that are served are of one copy, and those of one readout of
\* one age.
Agree ==
  \A f, g \in Fields :
    /\ image[f].copy = image[g].copy
    /\ HalfOf[f] = HalfOf[g] => image[f].age = image[g].age
Fresh(i) == image[Copied[i]] = [age |-> age[HalfOf[Copied[i]]], copy |-> copy]

Holding ==
  /\ holder = Meter <=> mpc \in {"copy", "unlock"}
  /\ \A c \in Clients : holder = c <=> cpc[c] = "read"
Copying ==
  /\ mpc # "copy" => field = 1
  /\ mpc = "copy" => \A i \in 1 .. 3 : i < field => Fresh(i)
  /\ mpc = "unlock" => \A i \in 1 .. 3 : Fresh(i)
  /\ mpc # "copy" => Agree
Reading ==
  \A c \in Clients :
    /\ cpc[c] # "read" => seen[c] = <<>>
    /\ Len(seen[c]) <= 3
    /\ \A i \in 1 .. Len(seen[c]) : seen[c][i] = image[Copied[i]]

BridgeInv == BridgeTypeOK /\ Holding /\ Copying /\ Reading

\* The three registers.
LEMMA Registers ==
  /\ Copied \in [1 .. 3 -> Fields] /\ HalfOf \in [Fields -> Half]
  /\ \A f \in Fields : \E i \in 1 .. 3 : f = Copied[i]
<1>1. Copied[1] = "phases" /\ Copied[2] = "lines" /\ Copied[3] = "power"
  BY DEF Copied
<1>2. Copied \in [1 .. 3 -> Fields]
  BY DEF Copied, Fields
<1>3. HalfOf \in [Fields -> Half]
  BY DEF HalfOf, Half
<1> QED
  BY <1>1, <1>2, <1>3 DEF Fields

LEMMA AgeType == 0 \in Age /\ MaxAge \in Age /\ \A a \in Age : Older(a) \in Age
  BY CopyAssumption DEF Age, Older

LEMMA BridgeInitial == BridgeInit => BridgeInv
<1> SUFFICES ASSUME BridgeInit PROVE BridgeInv
  OBVIOUS
<1>1. BridgeTypeOK
  <2>1. 0 \in 0 .. Copies - 1
    BY CopyAssumption
  <2>2. age \in [Half -> Age] /\ [age |-> MaxAge, copy |-> 0] \in Register
    BY <2>1, AgeType DEF BridgeInit, Register
  <2>3. image \in [Fields -> Register]
    BY <2>2 DEF BridgeInit
  <2>4. seen \in [Clients -> Seq(Register)] /\ cpc \in [Clients -> {"idle", "lock", "read"}]
    BY DEF BridgeInit
  <2>5. copy \in 0 .. Copies - 1 /\ field \in 1 .. 3
    BY <2>1 DEF BridgeInit
  <2>6. inverted \in BOOLEAN /\ f_watts \in BOOLEAN /\ sign \in BOOLEAN
    BY Zenon DEF BridgeInit
  <2> QED
    BY <2>2, <2>3, <2>4, <2>5, <2>6 DEF BridgeInit, BridgeTypeOK
<1>2. Holding
  BY ClientAssumption DEF BridgeInit, Holding
<1>3. Agree
  BY DEF BridgeInit, Agree
<1> QED
  BY <1>1, <1>2, <1>3 DEF BridgeInv, BridgeInit, Copying, Reading

-----------------------------------------------------------------------------
(* The task.                                                               *)

LEMMA ReadoutStep ==
  ASSUME BridgeInv, ReadFirst \/ ReadSecond \/ ReadSign PROVE BridgeInv'
<1> USE DEF BridgeInv
<1>1. PICK from \in {"first", "second", "sign"}, to \in {"second", "sign", "lock"} : Task(from, to)
  BY DEF ReadFirst, ReadSecond, ReadSign, Readout
<1>2. image' = image /\ sign' = sign /\ copy' = copy /\ holder' = holder /\ field' = field
  BY DEF ReadFirst, ReadSecond, ReadSign, Readout, sunspec
<1>3. age' \in [Half -> Age] /\ f_watts' \in BOOLEAN
  BY AgeType DEF ReadFirst, ReadSecond, ReadSign, Readout, WantedSign, BridgeTypeOK, Half
<1>4. BridgeTypeOK'
  BY <1>1, <1>2, <1>3 DEF BridgeTypeOK, Task, clientVars
<1>5. Holding'
  BY <1>1, <1>2 DEF Holding, Task, clientVars
<1>6. Copying'
  BY <1>1, <1>2 DEF Copying, Agree, Task
<1>7. Reading'
  BY <1>1, <1>2 DEF Reading, Task, clientVars
<1> QED
  BY <1>4, <1>5, <1>6, <1>7

LEMMA LockStep == ASSUME BridgeInv, Lock PROVE BridgeInv'
<1> USE DEF BridgeInv
<1>1. /\ mpc = "lock" /\ mpc' = "copy" /\ holder = Nobody /\ holder' = Meter
      /\ copy' = (copy + 1) % Copies /\ inverted' = inverted /\ cpc' = cpc /\ seen' = seen
      /\ age' = age /\ f_watts' = f_watts /\ field' = field /\ image' = image /\ sign' = sign
  BY DEF Lock, Task, Take, readout, clientVars
<1>2. copy' \in 0 .. Copies - 1
  BY <1>1, CopyAssumption DEF BridgeTypeOK
<1>3. BridgeTypeOK'
  BY <1>1, <1>2 DEF BridgeTypeOK
<1>4. Holding'
  BY <1>1, ClientAssumption DEF Holding
<1>5. Copying'
  BY <1>1 DEF Copying
<1>6. Reading'
  BY <1>1 DEF Reading
<1> QED
  BY <1>3, <1>4, <1>5, <1>6

LEMMA CopyStep == ASSUME BridgeInv, Copy PROVE BridgeInv'
<1> USE DEF BridgeInv
<1> DEFINE f == Copied[field]
           new == [age |-> age[HalfOf[f]], copy |-> copy]
<1>1. /\ mpc = "copy" /\ mpc' = (IF field = 3 THEN "unlock" ELSE "copy")
      /\ inverted' = inverted /\ cpc' = cpc /\ seen' = seen
      /\ image' = [image EXCEPT ![f] = new]
      /\ sign' = (IF f = "power" THEN f_watts ELSE sign)
      /\ field' = (IF field = 3 THEN 1 ELSE field + 1)
      /\ age' = age /\ f_watts' = f_watts /\ copy' = copy /\ holder' = holder
  BY DEF Copy, Task, clientVars
<1>2. field \in 1 .. 3 /\ f \in Fields /\ new \in Register
  BY Registers DEF BridgeTypeOK, Register
<1>3. BridgeTypeOK'
  <2>1. image' \in [Fields -> Register]
    BY <1>1, <1>2 DEF BridgeTypeOK
  <2>2. field' \in 1 .. 3
    BY <1>1, <1>2
  <2>3. sign' \in BOOLEAN
    BY <1>1, Zenon DEF BridgeTypeOK
  <2>4. mpc' \in {"copy", "unlock"}
    BY <1>1
  <2> QED
    BY <1>1, <2>1, <2>2, <2>3, <2>4 DEF BridgeTypeOK
<1>4. Holding'
  BY <1>1 DEF Holding
<1>5. \A i \in 1 .. 3 : i <= field => Fresh(i)'
  <2> SUFFICES ASSUME NEW i \in 1 .. 3, i <= field
               PROVE  image'[Copied[i]] = [age |-> age[HalfOf[Copied[i]]], copy |-> copy]
    BY <1>1 DEF Fresh
  <2>1. Copied[i] \in Fields /\ image \in [Fields -> Register]
    BY Registers DEF BridgeTypeOK
  <2>2. CASE Copied[i] = f
    BY <1>1, <1>2, <2>1, <2>2
  <2>3. CASE Copied[i] # f
    <3>1. i < field
      BY <2>3, <1>2
    <3>2. Fresh(i)
      BY <1>1, <3>1 DEF Copying
    <3> QED
      BY <1>1, <1>2, <2>1, <2>3, <3>2 DEF Fresh
  <2> QED
    BY <2>2, <2>3
<1>6. Copying'
  <2>1. CASE field = 3
    <3>1. \A i \in 1 .. 3 : Fresh(i)'
      BY <1>5, <2>1
    <3>2. \A g \in Fields : image'[g] = [age |-> age'[HalfOf[g]], copy |-> copy']
      BY <3>1, Registers DEF Fresh
    <3>3. Agree'
      <4>1. \A g \in Fields : image'[g].copy = copy' /\ image'[g].age = age'[HalfOf[g]]
        <5> TAKE g \in Fields
        <5> DEFINE r == [age |-> age'[HalfOf[g]], copy |-> copy']
        <5>1. r.copy = copy' /\ r.age = age'[HalfOf[g]]
          OBVIOUS
        <5>2. image'[g] = r
          BY <3>2
        <5> HIDE DEF r
        <5> QED
          BY <5>1, <5>2
      <4> QED
        BY <4>1 DEF Agree
    <3> QED
      BY <1>1, <2>1, <3>1, <3>3 DEF Copying
  <2>2. CASE field # 3
    <3>1. mpc' = "copy" /\ field' = field + 1
      BY <1>1, <2>2
    <3>2. \A i \in 1 .. 3 : i < field' => Fresh(i)'
      BY <1>2, <1>5, <3>1
    <3> QED
      BY <3>1, <3>2 DEF Copying
  <2> QED
    BY <2>1, <2>2
<1>7. Reading'
  <2>1. \A c \in Clients : cpc[c] # "read" /\ seen[c] = <<>>
    BY <1>1, ClientAssumption DEF Holding, Reading
  <2> QED
    BY <1>1, <2>1 DEF Reading
<1> QED
  BY <1>3, <1>4, <1>6, <1>7

LEMMA UnlockStep == ASSUME BridgeInv, Unlock PROVE BridgeInv'
<1> USE DEF BridgeInv
<1>1. /\ mpc = "unlock" /\ mpc' = "first" /\ holder' = Nobody
      /\ inverted' = inverted /\ cpc' = cpc /\ seen' = seen /\ copy' = copy
      /\ age' = age /\ f_watts' = f_watts /\ field' = field /\ image' = image /\ sign' = sign
  BY DEF Unlock, Task, Give, readout, sunspec, clientVars
<1>2. BridgeTypeOK'
  BY <1>1 DEF BridgeTypeOK
<1>3. Holding'
  BY <1>1, ClientAssumption DEF Holding
<1>4. Copying'
  BY <1>1 DEF Copying, Agree
<1>5. Reading'
  BY <1>1 DEF Reading
<1> QED
  BY <1>2, <1>3, <1>4, <1>5

-----------------------------------------------------------------------------
(* The clients.                                                            *)

LEMMA ClientStep ==
  ASSUME BridgeInv, NEW c \in Clients, Ask(c) \/ Serves(c) PROVE BridgeInv'
<1> USE DEF BridgeInv
<1>1. /\ age' = age /\ f_watts' = f_watts /\ field' = field /\ image' = image
      /\ sign' = sign /\ copy' = copy /\ inverted' = inverted /\ mpc' = mpc
  BY DEF Ask, Serves, ClientLock, ReadRegister, ClientUnlock, Client, readout, sunspec
<1>2. Copying'
  BY <1>1 DEF Copying, Agree, Fresh
<1>3. cpc \in [Clients -> Step] /\ seen \in [Clients -> Seq(Register)]
  BY DEF BridgeTypeOK, Step
<1>4. CASE Ask(c)
  <2>1. cpc[c] = "idle" /\ cpc' = [cpc EXCEPT ![c] = "lock"] /\ holder' = holder /\ seen' = seen
    BY <1>4 DEF Ask, Client
  <2>2. BridgeTypeOK'
    BY <1>1, <1>3, <2>1 DEF BridgeTypeOK, Step
  <2>3. Holding'
    BY <1>1, <1>3, <2>1 DEF Holding
  <2>4. Reading'
    BY <1>1, <1>3, <2>1 DEF Reading
  <2> QED
    BY <1>2, <2>2, <2>3, <2>4
<1>5. CASE ClientLock(c)
  <2>1. /\ cpc[c] = "lock" /\ cpc' = [cpc EXCEPT ![c] = "read"] /\ seen' = seen
        /\ holder = Nobody /\ holder' = c
    BY <1>5 DEF ClientLock, Client, Take
  <2>2. BridgeTypeOK'
    BY <1>1, <1>3, <2>1 DEF BridgeTypeOK, Step
  <2>3. Holding'
    BY <1>1, <1>3, <2>1, ClientAssumption DEF Holding
  <2>4. Reading'
    BY <1>1, <1>3, <2>1 DEF Reading
  <2> QED
    BY <1>2, <2>2, <2>3, <2>4
<1>6. CASE ReadRegister(c)
  <2> DEFINE n == Len(seen[c]) + 1
  <2>1. /\ cpc[c] = "read" /\ cpc' = [cpc EXCEPT ![c] = "read"] /\ holder' = holder
        /\ Len(seen[c]) < 3 /\ seen' = [seen EXCEPT ![c] = Append(seen[c], image[Copied[n]])]
    BY <1>6 DEF ReadRegister, Client
  <2>2. cpc' = cpc
    BY <1>3, <2>1
  <2>3. seen[c] \in Seq(Register) /\ n \in 1 .. 3 /\ image[Copied[n]] \in Register
    <3>1. seen[c] \in Seq(Register) /\ n \in 1 .. 3
      BY <1>3, <2>1
    <3> QED
      BY <3>1, Registers DEF BridgeTypeOK
  <2>4. /\ seen'[c] \in Seq(Register) /\ Len(seen'[c]) = n
        /\ seen'[c][n] = image[Copied[n]]
        /\ \A i \in 1 .. Len(seen[c]) : seen'[c][i] = seen[c][i]
    BY <1>3, <2>1, <2>3
  <2>5. seen' \in [Clients -> Seq(Register)]
    BY <1>3, <2>1, <2>4
  <2>6. BridgeTypeOK'
    BY <1>1, <2>1, <2>2, <2>5 DEF BridgeTypeOK
  <2>7. Holding'
    BY <1>1, <2>1, <2>2 DEF Holding
  <2>8. Reading'
    <3> SUFFICES ASSUME NEW d \in Clients
                 PROVE  /\ cpc'[d] # "read" => seen'[d] = <<>>
                        /\ Len(seen'[d]) <= 3
                        /\ \A i \in 1 .. Len(seen'[d]) : seen'[d][i] = image'[Copied[i]]
      BY DEF Reading
    <3>1. CASE d = c
      <4>1. \A i \in 1 .. n : seen'[c][i] = image[Copied[i]]
        BY <2>3, <2>4 DEF Reading
      <4> QED
        BY <1>1, <2>1, <2>2, <2>3, <2>4, <3>1, <4>1
    <3>2. CASE d # c
      <4>1. seen'[d] = seen[d]
        BY <1>3, <2>1, <3>2
      <4> QED
        BY <1>1, <2>2, <4>1 DEF Reading
    <3> QED
      BY <3>1, <3>2
  <2> QED
    BY <1>2, <2>6, <2>7, <2>8
<1>7. CASE ClientUnlock(c)
  <2>1. /\ cpc[c] = "read" /\ cpc' = [cpc EXCEPT ![c] = "idle"] /\ holder' = Nobody
        /\ seen' = [seen EXCEPT ![c] = <<>>]
    BY <1>7 DEF ClientUnlock, Client, Give
  <2>2. seen' \in [Clients -> Seq(Register)] /\ seen'[c] = <<>> /\ Len(seen'[c]) = 0
    BY <1>3, <2>1
  <2>3. BridgeTypeOK'
    BY <1>1, <1>3, <2>1, <2>2 DEF BridgeTypeOK, Step
  <2>4. Holding'
    BY <1>1, <1>3, <2>1, ClientAssumption DEF Holding
  <2>5. Reading'
    BY <1>1, <1>3, <2>1, <2>2 DEF Reading
  <2> QED
    BY <1>2, <2>3, <2>4, <2>5
<1> QED
  BY <1>4, <1>5, <1>6, <1>7 DEF Serves

-----------------------------------------------------------------------------
LEMMA BridgeStep == BridgeInv /\ [BridgeNext]_bridgeVars => BridgeInv'
<1> SUFFICES ASSUME BridgeInv, [BridgeNext]_bridgeVars PROVE BridgeInv'
  OBVIOUS
<1>1. CASE SetInvert \/ UNCHANGED bridgeVars
  <2>1. /\ age' = age /\ f_watts' = f_watts /\ field' = field /\ image' = image
        /\ sign' = sign /\ copy' = copy /\ mpc' = mpc /\ holder' = holder
        /\ cpc' = cpc /\ seen' = seen
    BY <1>1 DEF SetInvert, bridgeVars, readout, sunspec, clientVars
  <2>2. inverted' \in BOOLEAN
    BY <1>1, Zenon DEF SetInvert, bridgeVars, BridgeInv, BridgeTypeOK
  <2> QED
    BY <2>1, <2>2 DEF BridgeInv, BridgeTypeOK, Holding, Copying, Reading, Agree, Fresh
<1> QED
  BY <1>1, ReadoutStep, LockStep, CopyStep, UnlockStep, ClientStep, Zenon
  DEF BridgeNext, Meters

LEMMA BridgeSound == BridgeInv => ServedTogether
<1> SUFFICES ASSUME BridgeInv, NEW c \in Clients, NEW i \in DOMAIN seen[c], NEW j \in DOMAIN seen[c]
             PROVE  /\ seen[c][i].copy = seen[c][j].copy
                    /\ HalfOf[Copied[i]] = HalfOf[Copied[j]] => seen[c][i].age = seen[c][j].age
  BY DEF ServedTogether
<1>1. seen[c] \in Seq(Register) /\ Len(seen[c]) <= 3
  BY DEF BridgeInv, BridgeTypeOK, Reading
<1>2. i \in 1 .. 3 /\ j \in 1 .. 3 /\ i \in 1 .. Len(seen[c]) /\ j \in 1 .. Len(seen[c])
  BY <1>1
<1>3. holder = c
  <2>1. seen[c] # <<>>
    BY <1>2
  <2> QED
    BY <2>1 DEF BridgeInv, Reading, Holding
<1>4. Agree
  BY <1>3, ClientAssumption DEF BridgeInv, Holding, Copying
<1>5. seen[c][i] = image[Copied[i]] /\ seen[c][j] = image[Copied[j]]
  BY <1>2 DEF BridgeInv, Reading
<1> QED
  BY <1>2, <1>4, <1>5, Registers DEF Agree

\* The registers keep their types, ages and copies within their bounds.
THEOREM BridgeTypeCorrect == BridgeSpec => []BridgeTypeOK
<1>1. BridgeInv => BridgeTypeOK
  BY DEF BridgeInv
<1> QED
  BY <1>1, BridgeInitial, BridgeStep, PTL DEF BridgeSpec

\* A client under the mutex never mixes two rounds of the meter, for any number
\* of clients and wherever readouts fail.
THEOREM OneRound == BridgeSpec => []ServedTogether
BY BridgeInitial, BridgeStep, BridgeSound, PTL DEF BridgeSpec

-----------------------------------------------------------------------------
(* The bridge implements MeasurementBoard.  A round is put up by the step  *)
(* that takes the mutex for a copy; the copying itself does not show, and  *)
(* while a client holds the mutex nothing is pending.                      *)

LEMMA InOrder == \A i, k \in 1 .. 3 : Copied[i] = Copied[k] => i = k
<1>1. Copied[1] = "phases" /\ Copied[2] = "lines" /\ Copied[3] = "power"
  BY DEF Copied
<1> QED
  BY <1>1

LEMMA NothingPending ==
  ASSUME BridgeTypeOK, mpc # "copy"
  PROVE  Published = image
<1>1. \A f \in Fields : Published[f] = image[f]
  BY DEF Published, Pending
<1>2. image = [f \in Fields |-> image[f]]
  BY DEF BridgeTypeOK
<1> QED
  BY <1>2 DEF Published, Pending

\* The copy of a register turns what was pending into the image.
LEMMA CopyHidden == ASSUME BridgeInv, Copy PROVE Published' = Published
<1> DEFINE new(g) == [age |-> age[HalfOf[g]], copy |-> copy]
<1>1. /\ mpc = "copy" /\ mpc' = (IF field = 3 THEN "unlock" ELSE "copy")
      /\ image' = [image EXCEPT ![Copied[field]] = new(Copied[field])]
      /\ field' = (IF field = 3 THEN 1 ELSE field + 1)
      /\ age' = age /\ copy' = copy
  BY DEF Copy, Task
<1>2. field \in 1 .. 3 /\ image \in [Fields -> Register]
  BY DEF BridgeInv, BridgeTypeOK
<1>3. ASSUME NEW g \in Fields PROVE Published'[g] = Published[g]
  <2>1. PICK k \in 1 .. 3 : g = Copied[k]
    BY Registers
  <2>2. Pending(g) <=> field <= k
    BY <1>1, <1>2, <2>1, InOrder DEF Pending
  <2>3. Pending(g)' <=> field < k
    <3>1. CASE field = 3
      BY <1>1, <2>1, <3>1 DEF Pending
    <3>2. CASE field # 3
      <4>1. mpc' = "copy" /\ field' = field + 1 /\ field' \in 1 .. 3
        BY <1>1, <1>2, <3>2
      <4> QED
        BY <1>2, <2>1, <4>1, InOrder DEF Pending
    <3> QED
      BY <3>1, <3>2
  <2>4. Published[g] = (IF field <= k THEN new(g) ELSE image[g])
    BY <2>2 DEF Published
  <2>5. Published'[g] = (IF field < k THEN new(g) ELSE image'[g])
    BY <1>1, <2>3 DEF Published
  <2>6. field = k => image'[g] = new(g)
    BY <1>1, <1>2, <2>1
  <2>7. k < field => image'[g] = image[g]
    BY <1>1, <1>2, <2>1, InOrder
  <2> QED
    BY <1>2, <2>1, <2>4, <2>5, <2>6, <2>7
<1> QED
  BY <1>3 DEF Published

\* Taking the mutex for a copy puts up a round.
LEMMA LockPublishes == ASSUME BridgeInv, Lock PROVE Board!Publish
<1>1. /\ mpc' = "copy" /\ holder = Nobody /\ copy' = (copy + 1) % Copies
      /\ cpc' = cpc /\ seen' = seen /\ age' = age /\ field' = field /\ field = 1
  BY DEF Lock, Task, Take, readout, clientVars, BridgeInv, Copying
<1>2. Readers = {} /\ Readers' = Readers
  BY <1>1, ClientAssumption DEF Readers, BridgeInv, Holding
<1>3. \A f \in Fields : Pending(f)'
  <2> SUFFICES ASSUME NEW f \in Fields PROVE \E i \in 1 .. 3 : Copied[i] = f
    BY <1>1 DEF Pending
  <2> QED
    BY Registers
<1>4. Published' = Board!Round(copy', age) /\ age \in [Half -> Age]
  BY <1>1, <1>3 DEF Published, Board!Round, BridgeInv, BridgeTypeOK
<1>5. [c \in Clients |-> Published]'
        = [c \in Clients |-> IF c \in Readers THEN [d \in Clients |-> Published][c] ELSE Published']
  BY <1>2
<1> QED
  BY <1>1, <1>2, <1>4, <1>5 DEF Board!Publish

LEMMA ClientReads ==
  ASSUME BridgeInv, NEW c \in Clients, ClientLock(c) \/ ReadRegister(c) \/ ClientUnlock(c)
  PROVE  Board!Next
<1>0. cpc \in [Clients -> Step] /\ seen \in [Clients -> Seq(Register)]
  BY DEF BridgeInv, BridgeTypeOK, Step
<1>1. age' = age /\ field' = field /\ image' = image /\ copy' = copy /\ mpc' = mpc
  BY DEF ClientLock, ReadRegister, ClientUnlock, Client, readout, sunspec
<1>2. Published' = Published
  BY <1>1 DEF Published, Pending
<1>3. [d \in Clients |-> Published]' = [d \in Clients |-> Published]
  BY <1>2
<1>4. Len(Copied) = 3
  BY DEF Copied
<1>5. CASE ClientLock(c)
  <2>1. cpc[c] = "lock" /\ cpc' = [cpc EXCEPT ![c] = "read"] /\ seen' = seen
    BY <1>5 DEF ClientLock, Client
  <2>2. c \notin Readers /\ Readers' = Readers \cup {c}
    BY <1>0, <2>1 DEF Readers
  <2> QED
    BY <1>1, <1>2, <1>3, <2>1, <2>2 DEF Board!Next, Board!Begin
<1>6. CASE ReadRegister(c)
  <2>1. /\ cpc[c] = "read" /\ cpc' = [cpc EXCEPT ![c] = "read"] /\ Len(seen[c]) < 3
        /\ seen' = [seen EXCEPT ![c] = Append(seen[c], image[Copied[Len(seen[c]) + 1]])]
    BY <1>6 DEF ReadRegister, Client
  <2>2. c \in Readers /\ Readers' = Readers
    BY <1>0, <2>1 DEF Readers
  <2>3. Published = image
    BY <2>1, ClientAssumption, NothingPending DEF BridgeInv, Holding
  <2> QED
    BY <1>1, <1>2, <1>3, <1>4, <2>1, <2>2, <2>3 DEF Board!Next, Board!Read
<1>7. CASE ClientUnlock(c)
  <2>1. /\ cpc[c] = "read" /\ cpc' = [cpc EXCEPT ![c] = "idle"] /\ Len(seen[c]) = 3
        /\ seen' = [seen EXCEPT ![c] = <<>>]
    BY <1>7 DEF ClientUnlock, Client
  <2>2. c \in Readers /\ Readers' = Readers \ {c}
    BY <1>0, <2>1 DEF Readers
  <2>3. [d \in Clients |-> Published]' = [[d \in Clients |-> Published] EXCEPT ![c] = Published]
    BY <1>2
  <2> QED
    BY <1>1, <1>2, <1>4, <2>1, <2>2, <2>3 DEF Board!Next, Board!Leave
<1> QED
  BY <1>5, <1>6, <1>7

LEMMA BoardStep ==
  ASSUME BridgeInv, [BridgeNext]_bridgeVars
  PROVE  [Board!Next]_(Board!vars)
<1>1. CASE ReadFirst \/ ReadSecond \/ ReadSign \/ Unlock
  <2>1. /\ mpc # "copy" /\ mpc' # "copy" /\ copy' = copy /\ image' = image /\ cpc' = cpc
        /\ seen' = seen
    BY <1>1 DEF ReadFirst, ReadSecond, Readout, ReadSign, Unlock, Task, sunspec, clientVars
  <2>2. Published' = Published
    BY <2>1 DEF Published, Pending
  <2> QED
    BY <2>1, <2>2 DEF Board!vars, Readers
<1>2. CASE Copy
  <2>1. copy' = copy /\ cpc' = cpc /\ seen' = seen
    BY <1>2 DEF Copy, Task, clientVars
  <2> QED
    BY <1>2, <2>1, CopyHidden DEF Board!vars, Readers
<1>3. CASE Lock
  BY <1>3, LockPublishes DEF Board!Next
<1>4. CASE SetInvert \/ UNCHANGED bridgeVars
  BY <1>4 DEF SetInvert, bridgeVars, readout, sunspec, clientVars, Board!vars, Readers, Published,
     Pending
<1>5. ASSUME NEW c \in Clients, Ask(c) PROVE UNCHANGED Board!vars
  <2>1. /\ age' = age /\ field' = field /\ image' = image /\ copy' = copy /\ mpc' = mpc
        /\ cpc[c] = "idle" /\ cpc' = [cpc EXCEPT ![c] = "lock"] /\ seen' = seen
    BY <1>5 DEF Ask, Client, readout, sunspec
  <2>2. Readers' = Readers
    BY <2>1 DEF Readers, BridgeInv, BridgeTypeOK
  <2> QED
    BY <2>1, <2>2 DEF Board!vars, Published, Pending
<1> QED
  BY <1>1, <1>2, <1>3, <1>4, <1>5, ClientReads DEF BridgeNext, Meters, Serves

\* The image is a board of rounds: a client reads each register from the round
\* that was the latest when it took the mutex, for any number of clients.
THEOREM BridgeIsBoard == BridgeSpec => IsMeasurementBoard
<1>1. BridgeInit => Board!Init
  <2> SUFFICES ASSUME BridgeInit PROVE Board!Init
    OBVIOUS
  <2>1. mpc # "copy" /\ BridgeTypeOK
    BY BridgeInitial DEF BridgeInit, BridgeInv
  <2>2. Published = image
    BY <2>1, NothingPending
  <2>3. image = Board!Round(0, [h \in Half |-> MaxAge]) /\ [h \in Half |-> MaxAge] \in [Half -> Age]
    BY AgeType, Registers DEF BridgeInit, Board!Round
  <2>4. Readers = {} /\ copy = 0 /\ seen = [c \in Clients |-> <<>>]
    BY DEF BridgeInit, Readers
  <2> QED
    BY <2>2, <2>3, <2>4 DEF Board!Init
<1>2. BridgeInv /\ [BridgeNext]_bridgeVars => [Board!Next]_(Board!vars)
  BY BoardStep
<1> QED
  BY <1>1, <1>2, BridgeInitial, BridgeStep, PTL DEF BridgeSpec, IsMeasurementBoard, Board!Spec

-----------------------------------------------------------------------------
(* How long a thread can wait: for the mutex, and for the sign.            *)

\* Steps until whoever holds sunspec_mutex gives it back, at most.
HeldFor ==
  CASE holder = Nobody -> 0
    [] holder = Meter  -> IF mpc = "unlock" THEN 1 ELSE 5 - field
    [] OTHER           -> 4 - Len(seen[holder])
OfHolder == (holder = Meter /\ Meters) \/ \E c \in Clients : holder = c /\ Serves(c)
\* Each step of the holder brings the mutex nearer to being free, and no step
\* of another thread puts it off or takes it over.
MutexBounded ==
  [][/\ HeldFor \in 0 .. 4
     /\ holder # Nobody =>
          /\ HeldFor > 0 /\ holder' \in {holder, Nobody}
          /\ IF OfHolder THEN HeldFor' < HeldFor ELSE HeldFor' = HeldFor]_bridgeVars

LEMMA MutexStep ==
  ASSUME BridgeInv, [BridgeNext]_bridgeVars
  PROVE  /\ HeldFor \in 0 .. 4
         /\ holder # Nobody =>
              /\ HeldFor > 0 /\ holder' \in {holder, Nobody}
              /\ IF OfHolder THEN HeldFor' < HeldFor ELSE HeldFor' = HeldFor
<1> USE ClientAssumption
<1>1. /\ cpc \in [Clients -> Step] /\ seen \in [Clients -> Seq(Register)]
      /\ \A c \in Clients : Len(seen[c]) \in 0 .. 3
      /\ field \in 1 .. 3 /\ holder \in Clients \cup {Meter, Nobody}
      /\ (holder = Meter <=> mpc \in {"copy", "unlock"})
      /\ \A c \in Clients : holder = c <=> cpc[c] = "read"
  <2>1. ASSUME NEW c \in Clients PROVE Len(seen[c]) \in 0 .. 3
    <3> DEFINE n == Len(seen[c])
    <3>1. seen[c] \in Seq(Register) /\ n <= 3
      BY DEF BridgeInv, BridgeTypeOK, Reading
    <3>2. n \in Nat
      BY <3>1
    <3> HIDE DEF n
    <3>3. n \in 0 .. 3
      BY <3>1, <3>2
    <3> QED
      BY <3>3 DEF n
  <2>2. \A c \in Clients : holder = c <=> cpc[c] = "read"
    BY DEF BridgeInv, Holding
  <2> QED
    BY <2>1, <2>2 DEF BridgeInv, BridgeTypeOK, Holding, Step
<1>2. HeldFor \in 0 .. 4 /\ (holder # Nobody => HeldFor > 0)
  <2>1. CASE holder \in Clients
    <3> DEFINE n == Len(seen[holder])
    <3>1. n \in 0 .. 3
      BY <1>1, <2>1
    <3>2. HeldFor = 4 - n
      BY <2>1 DEF HeldFor
    <3> HIDE DEF n
    <3> QED
      BY <3>1, <3>2
  <2> QED
    BY <1>1, <2>1 DEF HeldFor
<1>3. ASSUME holder = Meter
      PROVE  /\ holder' \in {holder, Nobody}
             /\ IF OfHolder THEN HeldFor' < HeldFor ELSE HeldFor' = HeldFor
  <2>0. Meter # Nobody /\ (mpc = "copy" \/ mpc = "unlock")
    BY <1>1, <1>3
  <2>1. CASE Copy
    <3>1. /\ mpc = "copy" /\ holder' = holder
          /\ IF field = 3 THEN mpc' = "unlock" ELSE mpc' = "copy" /\ field' = field + 1
      BY <2>1 DEF Copy, Task
    <3>2. HeldFor = 5 - field /\ HeldFor' = IF field = 3 THEN 1 ELSE 4 - field
      BY <1>1, <1>3, <2>0, <3>1 DEF HeldFor
    <3>3. HeldFor' < HeldFor
      BY <1>1, <3>2
    <3>4. OfHolder
      BY <1>3, <2>1 DEF OfHolder, Meters
    <3> QED
      BY <3>1, <3>3, <3>4
  <2>2. CASE Unlock
    <3>1. mpc = "unlock" /\ holder' = Nobody
      BY <2>2 DEF Unlock, Task, Give
    <3>2. HeldFor = 1 /\ HeldFor' = 0
      BY <1>3, <2>0, <3>1 DEF HeldFor
    <3>3. OfHolder
      BY <1>3, <2>2 DEF OfHolder, Meters
    <3> QED
      BY <3>1, <3>2, <3>3
  <2>3. ~(ReadFirst \/ ReadSecond \/ ReadSign \/ Lock)
    BY <2>0 DEF ReadFirst, ReadSecond, ReadSign, Lock, Readout, Task
  <2>4. ASSUME NEW c \in Clients PROVE ~Serves(c)
    <3>1. cpc[c] # "read"
      BY <1>1, <1>3
    <3> QED
      BY <1>3, <2>0, <3>1 DEF Serves, ClientLock, ReadRegister, ClientUnlock, Client, Take
  <2>5. CASE ~Copy /\ ~Unlock
    <3>1. SetInvert \/ UNCHANGED bridgeVars \/ \E c \in Clients : Ask(c)
      BY <2>3, <2>4, <2>5 DEF BridgeNext, Meters
    <3>2. mpc' = mpc /\ holder' = holder /\ field' = field
      BY <3>1 DEF SetInvert, bridgeVars, readout, sunspec, clientVars, Ask, Client
    <3>3. HeldFor' = HeldFor
      BY <1>3, <2>0, <3>2 DEF HeldFor
    <3>4. ~OfHolder
      BY <1>3, <2>3, <2>5 DEF OfHolder, Meters
    <3> QED
      BY <3>2, <3>3, <3>4
  <2> QED
    BY <2>1, <2>2, <2>5
<1>4. ASSUME NEW c \in Clients, holder = c
      PROVE  /\ holder' \in {holder, Nobody}
             /\ IF OfHolder THEN HeldFor' < HeldFor ELSE HeldFor' = HeldFor
  <2>0. /\ c # Nobody /\ c # Meter /\ cpc[c] = "read" /\ Len(seen[c]) \in 0 .. 3
        /\ mpc # "copy" /\ mpc # "unlock"
    BY <1>1, <1>4
  <2>1. HeldFor = 4 - Len(seen[c])
    BY <1>4, <2>0 DEF HeldFor
  <2>2. CASE ReadRegister(c)
    <3>1. /\ holder' = holder
          /\ seen' = [seen EXCEPT ![c] = Append(seen[c], image[Copied[Len(seen[c]) + 1]])]
      BY <2>2 DEF ReadRegister
    <3>2. seen'[c] = Append(seen[c], image[Copied[Len(seen[c]) + 1]])
      BY <1>1, <3>1
    <3>3. Len(seen'[c]) = Len(seen[c]) + 1
      BY <1>1, <3>2
    <3>4. HeldFor' = 4 - Len(seen'[c])
      BY <1>4, <2>0, <3>1 DEF HeldFor
    <3>5. OfHolder
      BY <1>4, <2>2 DEF OfHolder, Serves
    <3> QED
      BY <2>0, <2>1, <3>1, <3>3, <3>4, <3>5
  <2>3. CASE ClientUnlock(c)
    <3>1. holder' = Nobody /\ HeldFor' = 0 /\ HeldFor = 1
      BY <2>1, <2>3 DEF ClientUnlock, Give, HeldFor
    <3>2. OfHolder
      BY <1>4, <2>3 DEF OfHolder, Serves
    <3> QED
      BY <2>0, <2>1, <3>1, <3>2
  <2>4. ~ClientLock(c) /\ ~Lock /\ ~Copy /\ ~Unlock
    BY <1>4, <2>0 DEF ClientLock, Client, Lock, Take, Copy, Unlock, Task
  <2>5. CASE ~Serves(c)
    <3>1. ~OfHolder
      BY <1>4, <2>0, <2>5 DEF OfHolder
    <3>2. ASSUME NEW d \in Clients, d # c PROVE ~Serves(d)
      <4>1. cpc[d] # "read"
        BY <1>1, <1>4, <3>2
      <4> QED
        BY <1>4, <2>0, <4>1 DEF Serves, ClientLock, ReadRegister, ClientUnlock, Client, Take
    <3>3. \/ ReadFirst \/ ReadSecond \/ ReadSign \/ SetInvert \/ UNCHANGED bridgeVars
          \/ \E d \in Clients : Ask(d)
      BY <2>4, <2>5, <3>2 DEF BridgeNext, Meters
    <3>4. holder' = holder /\ seen' = seen
      BY <3>3 DEF ReadFirst, ReadSecond, ReadSign, Readout, Task, clientVars, SetInvert, bridgeVars,
         Ask
    <3>5. HeldFor' = HeldFor
      BY <1>4, <2>0, <3>4 DEF HeldFor
    <3> QED
      BY <3>1, <3>4, <3>5
  <2> QED
    BY <2>2, <2>3, <2>4, <2>5 DEF Serves
<1> QED
  BY <1>1, <1>2, <1>3, <1>4

\* sunspec_mutex is given back within four steps of the thread that holds it,
\* however many clients ask meanwhile: no thread of this model can keep it.
THEOREM MutexIsGivenBack == BridgeSpec => MutexBounded
<1>1. BridgeInv /\ [BridgeNext]_bridgeVars
      => /\ HeldFor \in 0 .. 4
         /\ holder # Nobody =>
              /\ HeldFor > 0 /\ holder' \in {holder, Nobody}
              /\ IF OfHolder THEN HeldFor' < HeldFor ELSE HeldFor' = HeldFor
  BY MutexStep
<1> QED
  BY <1>1, BridgeInitial, BridgeStep, PTL DEF BridgeSpec, MutexBounded

\* Where the task is in its round of eight steps, and how many of its steps are
\* left until the sign in the image is `inverted` as it is now: those of this
\* round, or of the next when the one that would be copied is another.
Position ==
  CASE mpc = "first" -> 0 [] mpc = "second" -> 1 [] mpc = "sign" -> 2 [] mpc = "lock" -> 3
    [] mpc = "copy" -> 3 + field [] mpc = "unlock" -> 7
SignLeft ==
  IF Position <= 2 \/ (Position <= 6 /\ f_watts = inverted) THEN 7 - Position ELSE 15 - Position
SignBounded ==
  [][/\ SignLeft \in 1 .. 12
     /\ sign # inverted /\ inverted' = inverted =>
          IF Meters THEN sign' = inverted \/ SignLeft' < SignLeft
                    ELSE sign' = sign /\ SignLeft' = SignLeft]_bridgeVars

LEMMA SignStep ==
  ASSUME BridgeInv, [BridgeNext]_bridgeVars
  PROVE  /\ SignLeft \in 1 .. 12
         /\ sign # inverted /\ inverted' = inverted =>
              IF Meters THEN sign' = inverted \/ SignLeft' < SignLeft
                        ELSE sign' = sign /\ SignLeft' = SignLeft
<1>1. /\ field \in 1 .. 3 /\ (mpc # "copy" => field = 1)
      /\ mpc \in {"first", "second", "sign", "lock", "copy", "unlock"}
  BY DEF BridgeInv, BridgeTypeOK, Copying
<1>2. Position \in 0 .. 7
  BY <1>1 DEF Position
<1>3. SignLeft \in 1 .. 12
  BY <1>1 DEF Position, SignLeft
<1>4. ASSUME Meters, sign # inverted, inverted' = inverted
      PROVE  sign' = inverted \/ SignLeft' < SignLeft
  <2>1. CASE ReadFirst \/ ReadSecond
    <3>1. /\ f_watts' = f_watts
          /\ (mpc = "first" /\ mpc' = "second") \/ (mpc = "second" /\ mpc' = "sign")
      BY <2>1 DEF ReadFirst, ReadSecond, Readout, Task
    <3>2. Position' = Position + 1 /\ Position' <= 2 /\ Position \in Nat
      BY <1>2, <3>1 DEF Position
    <3> QED
      BY <3>2 DEF SignLeft
  <2>2. CASE ReadSign
    <3>1. f_watts' = inverted' /\ mpc = "sign" /\ mpc' = "lock"
      BY <1>4, <2>2 DEF ReadSign, Task, WantedSign
    <3>2. Position = 2 /\ Position' = 3
      BY <3>1 DEF Position
    <3> QED
      BY <3>1, <3>2 DEF SignLeft
  <2>3. CASE Lock
    <3>1. f_watts' = f_watts /\ mpc = "lock" /\ mpc' = "copy" /\ field' = field
      BY <2>3 DEF Lock, Task, readout
    <3>2. Position = 3 /\ Position' = 4
      BY <1>1, <3>1 DEF Position
    <3> QED
      BY <1>4, <3>1, <3>2 DEF SignLeft
  <2>4. CASE Copy /\ field # 3
    <3>1. f_watts' = f_watts /\ mpc = "copy" /\ mpc' = "copy" /\ field' = field + 1
      BY <2>4 DEF Copy, Task
    <3>2. Position \in 4 .. 5 /\ Position' = Position + 1
      BY <1>1, <2>4, <3>1 DEF Position
    <3> QED
      BY <1>4, <3>1, <3>2 DEF SignLeft
  <2>5. CASE Copy /\ field = 3
    <3>1. f_watts' = f_watts /\ mpc = "copy" /\ mpc' = "unlock" /\ sign' = f_watts
      BY <2>5 DEF Copy, Task, Copied
    <3>2. Position = 6 /\ Position' = 7
      BY <2>5, <3>1 DEF Position
    <3> QED
      BY <1>4, <3>1, <3>2 DEF SignLeft
  <2>6. CASE Unlock
    <3>1. mpc = "unlock" /\ mpc' = "first"
      BY <2>6 DEF Unlock, Task
    <3>2. Position = 7 /\ Position' = 0
      BY <3>1 DEF Position
    <3> QED
      BY <3>2 DEF SignLeft
  <2> QED
    BY <1>4, <2>1, <2>2, <2>3, <2>4, <2>5, <2>6 DEF Meters
<1>5. ASSUME ~Meters, inverted' = inverted PROVE sign' = sign /\ SignLeft' = SignLeft
  <2>1. sign' = sign /\ f_watts' = f_watts /\ mpc' = mpc /\ field' = field
    BY <1>5 DEF BridgeNext, SetInvert, Ask, Serves, ClientLock, ReadRegister, ClientUnlock, Client,
       bridgeVars, readout, sunspec
  <2> QED
    BY <1>5, <2>1 DEF SignLeft, Position
<1> QED
  BY <1>3, <1>4, <1>5

\* When `inverted` is not set again, the sign in the image follows it within
\* twelve steps of the task, whichever step it was set in: the safety core of
\* SignFollows.
THEOREM SignIsFollowed == BridgeSpec => SignBounded
<1>1. BridgeInv /\ [BridgeNext]_bridgeVars
      => /\ SignLeft \in 1 .. 12
         /\ sign # inverted /\ inverted' = inverted =>
              IF Meters THEN sign' = inverted \/ SignLeft' < SignLeft
                        ELSE sign' = sign /\ SignLeft' = SignLeft
  BY SignStep
<1> QED
  BY <1>1, BridgeInitial, BridgeStep, PTL DEF BridgeSpec, SignBounded
=============================================================================
