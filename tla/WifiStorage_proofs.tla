------------------------- MODULE WifiStorage_proofs -------------------------
(***************************************************************************)
(* For any number of values and any retry period: types, credentials,      *)
(* flash, and the host name, which is never forgotten and is announced     *)
(* within a bounded number of steps of the task.                           *)
(***************************************************************************)
EXTENDS WifiStorage, TLAPS

\* The fields, flags and texts keep their types.
THEOREM TypeCorrect == Spec => []TypeOK
<1> USE DEF Fields, Value, Text, Damaged
<1>1. Init => TypeOK
  <2> SUFFICES ASSUME Init PROVE TypeOK
    OBVIOUS
  <2>1. nsets \in Value /\ 0 \in Value
    BY BoundAssumption DEF Init
  <2>2. ram \in [Fields -> Value] /\ text \in [Fields -> Text]
      /\ flash \in [Fields -> Value \cup {Damaged}]
    BY <2>1, BoundAssumption DEF Init
  <2>3. reading \in Text /\ tried \in Text \X Text
    BY <2>1, BoundAssumption DEF Init, Never
  <2>4. dhcp_name \in Value /\ mdns_name \in Value
    BY <2>1 DEF Init
  <2>5. dt \in 0 .. RetryPeriod - 1
    BY RetryAssumption DEF Init
  <2>6. at \in [Setters -> {"idle"}] /\ val \in [Setters -> Value]
    BY <2>1 DEF Init
  <2>7. QED
    BY <2>1, <2>2, <2>3, <2>4, <2>5, <2>6 DEF Init, TypeOK
<1>2. TypeOK /\ [Next]_vars => TypeOK'
  <2> SUFFICES ASSUME TypeOK, [Next]_vars
               PROVE  TypeOK'
    OBVIOUS
  <2>1. ASSUME Task PROVE TypeOK'
    <3>1. CASE HostCheck BY <3>1 DEF HostCheck, Step, TypeOK, settings, setter, name, conn, task
    <3>2. CASE HostDhcp BY <3>2 DEF HostDhcp, Step, TypeOK, settings, setter, conn, task
    <3>3. CASE HostMdns BY <3>3 DEF HostMdns, Step, TypeOK, settings, setter, conn, task
    <3>4. CASE HostDone BY <3>4 DEF HostDone, Step, TypeOK, settings, setter, conn, task
    <3>5. CASE Status
      <4>1. link \in BOOLEAN /\ available' \in BOOLEAN
        BY <3>5, Zenon DEF Status, TypeOK
      <4>2. QED BY <3>5, <4>1 DEF Status, Step, TypeOK, settings, setter, name
    <3>6. CASE Test BY <3>6 DEF Test, Step, TypeOK, settings, setter, name, conn, task
    <3>7. CASE Sta BY <3>7 DEF Sta, Step, TypeOK, settings, setter, name, conn, task
    <3>8. CASE ConnectSsid BY <3>8 DEF ConnectSsid, Step, TypeOK, settings, setter, name, task
    <3>14. CASE ConnectPwd
      BY <3>14, BoundAssumption DEF ConnectPwd, Step, TypeOK, settings, setter, name, task
    <3>9. CASE ConnectFails
      BY <3>9, BoundAssumption DEF ConnectFails, Step, TypeOK, settings, setter, name, task
    <3>10. CASE ClearChanged BY <3>10 DEF ClearChanged, Step, TypeOK, settings, setter, name, task
    <3>11. CASE Retry BY <3>11 DEF Retry, Step, TypeOK, settings, setter, name
    <3>12. CASE Sleep
      <4>1. PICK d \in 1 .. MaxRound : dt' = ((IF met THEN 0 ELSE dt) + d) % RetryPeriod
        BY <3>12 DEF Sleep
      <4>2. ((IF met THEN 0 ELSE dt) + d) \in Int
        BY BoundAssumption, RetryAssumption DEF TypeOK
      <4>3. dt' \in 0 .. RetryPeriod - 1
        BY <4>1, <4>2, RetryAssumption
      <4>4. QED BY <3>12, <4>3 DEF Sleep, Step, TypeOK, settings, setter, name, conn
    <3>13. QED
      BY <2>1, <3>1, <3>2, <3>3, <3>4, <3>5, <3>6, <3>7, <3>8, <3>9, <3>10, <3>11, <3>12, <3>14
      DEF Task
  <2>2. ASSUME Driver PROVE TypeOK'
    <3>1. link' \in BOOLEAN /\ UNCHANGED <<settings, flash, setter, name, conn, task, pc>>
      BY <2>2, Zenon DEF Driver, Join, Leave
    <3>2. QED BY <3>1 DEF TypeOK, settings, setter, name, conn, task
  <2>3. ASSUME NEW s \in Setters, Connect(s) \/ SetHostname(s) PROVE TypeOK'
    BY <2>3, BoundAssumption
    DEF Connect, SetHostname, Call, Goto, TypeOK, settings, name, conn, task
  <2>4. ASSUME NEW s \in Setters, Set(s) PROVE TypeOK'
    <3>1. ASSUME NEW f \in Fields, Fill(s, f)
          PROVE  /\ ram' \in [Fields -> Value] /\ text' \in [Fields -> Text]
                 /\ UNCHANGED <<flash, val, nsets, name, conn, link, task, pc>>
      BY <3>1, BoundAssumption DEF Fill, Texts, TypeOK
    <3>2. CASE FillSsid(s)
      BY <3>1, <3>2 DEF FillSsid, Goto, TypeOK, name, conn, task
    <3>3. CASE FillPwd(s)
      BY <3>1, <3>3 DEF FillPwd, Goto, TypeOK, name, conn, task
    <3>4. CASE FillName(s)
      BY <3>1, <3>4 DEF FillName, Goto, TypeOK, name, conn, task
    <3>5. CASE Flag(s)
      <4>1. missed' \in BOOLEAN BY <3>5, Zenon DEF Flag, TypeOK
      <4>2. QED BY <3>5, <4>1 DEF Flag, Goto, TypeOK, settings, name, task
    <3>6. CASE FlagName(s)
      <4>1. missedName' \in BOOLEAN BY <3>6, Zenon DEF FlagName, TypeOK
      <4>2. QED BY <3>6, <4>1 DEF FlagName, Goto, TypeOK, settings, conn, task
    <3> DEFINE Saved ==
          /\ flash' \in [Fields -> Value \cup {Damaged}] /\ val' \in [Setters -> Value]
          /\ UNCHANGED <<settings, nsets, name, conn, link, task, pc>>
    <3>a. ASSUME NEW f \in Fields, NEW from, NEW to, Store(s, from, to, f) PROVE Saved
      <4>1. (IF to = "idle" THEN 0 ELSE val[s]) \in Value
        BY BoundAssumption DEF TypeOK
      <4>2. flash' \in [Fields -> Value \cup {Damaged}]
        BY <3>a DEF Store, Written, WriteFails, TypeOK
      <4>3. QED BY <3>a, <4>1, <4>2 DEF Store, TypeOK
    <3>7. CASE StoreSsid(s)
      <4>1. Saved /\ at' = [at EXCEPT ![s] = "storePwd"]
        BY <3>7, <3>a DEF StoreSsid, Store, Goto
      <4>2. QED BY <4>1 DEF TypeOK, settings, name, conn, task
    <3>8. CASE StorePwd(s)
      <4>1. Saved /\ at' = [at EXCEPT ![s] = "idle"]
        BY <3>8, <3>a DEF StorePwd, Store, Goto
      <4>2. QED BY <4>1 DEF TypeOK, settings, name, conn, task
    <3>9. CASE StoreName(s)
      <4>1. Saved /\ at' = [at EXCEPT ![s] = "idle"]
        BY <3>9, <3>a DEF StoreName, Store, Goto
      <4>2. QED BY <4>1 DEF TypeOK, settings, name, conn, task
    <3>10. QED
      BY <2>4, <3>2, <3>3, <3>4, <3>5, <3>6, <3>7, <3>8, <3>9 DEF Set
  <2>5. CASE UNCHANGED vars
    BY <2>5 DEF vars, TypeOK, settings, setter, name, conn, task
  <2>6. QED BY <2>1, <2>2, <2>3, <2>4, <2>5 DEF Next
<1>3. QED BY <1>1, <1>2, PTL DEF Spec
-----------------------------------------------------------------------------
(* Credentials: between the connect call's reading of each and the end of   *)
(* update_wifi_connection the driver already has it, so that the end may    *)
(* clear wifi_changed unless a flag was set in between; until then it is     *)
(* set.                                                                     *)
Told == tried = <<text["ssid"], text["pwd"]>>
TriedInv ==
  /\ TriedUnlessMissed
  /\ pc \in {"sta", "connect", "reading"} => wifi_changed
  /\ pc = "reading" /\ ~missed /\ ~Unflagged => reading = text["ssid"]
  /\ pc = "clear" /\ ~missed /\ ~Unflagged => Told

LEMMA TriedStep == TypeOK /\ TriedInv /\ [Next]_vars => TriedInv'
<1> SUFFICES ASSUME TypeOK, TriedInv, [Next]_vars
             PROVE  TriedInv'
  OBVIOUS
<1> USE DEF TriedInv, TriedUnlessMissed, Told
<1>1. ASSUME UNCHANGED <<settings, at, conn, pc>> PROVE TriedInv'
  BY <1>1 DEF settings, conn, Unflagged
<1>2. ASSUME Task PROVE TriedInv'
  <2>1. UNCHANGED <<settings, at>> /\ (Unflagged' <=> Unflagged)
    BY <1>2 DEF Task, HostCheck, HostDhcp, HostMdns, HostDone, Status, Test, Sta, ConnectSsid,
                ConnectPwd, ConnectFails, ClearChanged, Retry, Sleep, Step, setter, Unflagged
  <2>2. CASE HostCheck BY <2>1, <2>2 DEF HostCheck, Step, conn, settings
  <2>3. CASE HostDhcp BY <2>1, <2>3 DEF HostDhcp, Step, conn, settings
  <2>4. CASE HostMdns BY <2>1, <2>4 DEF HostMdns, Step, conn, settings
  <2>5. CASE HostDone BY <2>1, <2>5 DEF HostDone, Step, conn, settings
  <2>6. CASE Status BY <2>1, <2>6 DEF Status, Step, settings
  <2>7. CASE Test BY <2>1, <2>7 DEF Test, Step, conn, settings
  <2>8. CASE Sta BY <2>1, <2>8 DEF Sta, Step, conn, settings
  <2>9. CASE ConnectSsid BY <2>1, <2>9 DEF ConnectSsid, Step, settings
  <2>10. CASE ConnectFails BY <2>1, <2>10 DEF ConnectFails, Step, settings
  <2>11. CASE ClearChanged BY <2>1, <2>11 DEF ClearChanged, Step, settings
  <2>12. CASE Retry BY <2>1, <2>12, Zenon DEF Retry, Step, settings
  <2>13. CASE Sleep BY <2>1, <2>13 DEF Sleep, Step, conn, settings
  <2>14. CASE ConnectPwd BY <2>1, <2>14 DEF ConnectPwd, Step, settings
  <2>15. QED
    BY <1>2, <2>2, <2>3, <2>4, <2>5, <2>6, <2>7, <2>8, <2>9, <2>10, <2>11, <2>12, <2>13, <2>14
    DEF Task
<1>3. ASSUME Driver PROVE TriedInv'
  BY <1>1, <1>3 DEF Driver, Join, Leave, setter
<1>4. ASSUME NEW s \in Setters, Connect(s) \/ SetHostname(s) PROVE TriedInv'
  <2>1. /\ UNCHANGED <<settings, conn, pc>>
        /\ at[s] = "idle" /\ at' \in {[at EXCEPT ![s] = "ssid"], [at EXCEPT ![s] = "name"]}
    BY <1>4 DEF Connect, SetHostname, Call, Goto
  <2>2. Unflagged' <=> Unflagged
    BY <2>1 DEF Unflagged, TypeOK
  <2>3. QED BY <2>1, <2>2 DEF settings, conn
<1>5. ASSUME NEW s \in Setters, Set(s) PROVE TriedInv'
  <2>1. CASE FillSsid(s) \/ FillPwd(s)
    <3>1. Unflagged' /\ UNCHANGED <<wifi_changed, pc>>
      BY <2>1 DEF FillSsid, FillPwd, Fill, Goto, Unflagged, TypeOK, conn
    <3>2. QED BY <3>1
  <2>2. CASE Flag(s)
    <3>1. wifi_changed' /\ (pc \in {"reading", "clear"} => missed') /\ pc' = pc
      BY <2>2, Zenon DEF Flag
    <3>2. QED BY <3>1
  <2>3. CASE FillName(s)
    <3>1. /\ text'["ssid"] = text["ssid"] /\ text'["pwd"] = text["pwd"]
          /\ UNCHANGED <<conn, pc>> /\ at[s] = "name" /\ at' = [at EXCEPT ![s] = "nameFlag"]
      BY <2>3 DEF FillName, Fill, Goto, TypeOK, Fields
    <3>2. Unflagged' <=> Unflagged
      BY <3>1 DEF Unflagged, TypeOK
    <3>3. QED BY <3>1, <3>2 DEF conn
  <2>4. CASE FlagName(s) \/ StoreSsid(s) \/ StorePwd(s) \/ StoreName(s)
    <3>1. /\ UNCHANGED <<settings, conn, pc>>
          /\ \E t \in {"storePwd", "storeName", "idle"} : at' = [at EXCEPT ![s] = t]
          /\ at[s] \notin {"pwd", "flag"}
      BY <2>4 DEF FlagName, StoreSsid, StorePwd, StoreName, Store, Goto
    <3>2. Unflagged' <=> Unflagged
      BY <3>1 DEF Unflagged, TypeOK
    <3>3. QED BY <3>1, <3>2 DEF settings, conn
  <2>5. QED BY <1>5, <2>1, <2>2, <2>3, <2>4 DEF Set
<1>6. CASE UNCHANGED vars
  BY <1>1, <1>6 DEF vars, setter
<1>7. QED BY <1>2, <1>3, <1>4, <1>5, <1>6 DEF Next

\* While no reconnect is due, the driver was last told the credentials as they
\* are now, but for a flag cleared by a round that had already connected.
THEOREM CredentialsTried == Spec => []TriedUnlessMissed
<1>1. Init => TriedInv
  BY DEF Init, TriedInv, TriedUnlessMissed
<1>2. TriedInv => TriedUnlessMissed
  BY DEF TriedInv
<1>3. QED BY <1>1, <1>2, TypeCorrect, TriedStep, PTL DEF Spec

-----------------------------------------------------------------------------
(* Flash: where it differs from RAM, a setter is still to store the field,  *)
(* or the last operation on it failed.                                      *)
Storing(f) ==
  CASE f = "ssid"     -> {"pwd", "flag", "storeSsid"}
    [] f = "pwd"      -> {"flag", "storeSsid", "storePwd"}
    [] f = "hostname" -> {"nameFlag", "storeName"}
FlashInv ==
  \A f \in Fields : flash[f] \in {ram[f], Damaged} \/ \E s \in Setters : at[s] \in Storing(f)

LEMMA FlashStep == TypeOK /\ FlashInv /\ [Next]_vars => FlashInv'
<1> SUFFICES ASSUME TypeOK, FlashInv, [Next]_vars
             PROVE  FlashInv'
  OBVIOUS
<1> USE DEF FlashInv, Fields, Storing
<1>1. ASSUME UNCHANGED <<flash, settings, at>> PROVE FlashInv'
  BY <1>1 DEF settings
<1>2. ASSUME Task PROVE FlashInv'
  <2>1. UNCHANGED <<flash, settings, at>>
    BY <1>2 DEF Task, HostCheck, HostDhcp, HostMdns, HostDone, Status, Test, Sta, ConnectSsid,
                ConnectPwd, ConnectFails, ClearChanged, Retry, Sleep, Step, setter
  <2>2. QED BY <1>1, <2>1
<1>3. ASSUME Driver PROVE FlashInv'
  BY <1>1, <1>3 DEF Driver, Join, Leave, setter
\* A setter that moves on without losing a field it had still to store.
<1>4. ASSUME NEW s \in Setters, NEW to, at' = [at EXCEPT ![s] = to], UNCHANGED <<flash, ram>>,
             \A f \in Fields : at[s] \in Storing(f) => to \in Storing(f)
      PROVE  FlashInv'
  <2> SUFFICES ASSUME NEW f \in Fields, flash[f] \notin {ram[f], Damaged}
               PROVE  \E r \in Setters : at'[r] \in Storing(f)
    BY <1>4
  <2>1. PICK r \in Setters : at[r] \in Storing(f)
    OBVIOUS
  <2>2. at'[r] \in Storing(f)
    BY <1>4, <2>1 DEF TypeOK
  <2>3. QED BY <2>2
\* A setter that fills a field it has still to store, and one that stores it or
\* fails to, which may damage others.
<1>5. ASSUME NEW s \in Setters, NEW to, at' = [at EXCEPT ![s] = to], NEW g \in Fields, 
             \A f \in Fields \ {g} : /\ flash'[f] \in {flash[f], Damaged} /\ ram'[f] = ram[f]
                                     /\ at[s] \in Storing(f) => to \in Storing(f),
             flash'[g] \in {ram'[g], Damaged} \/ to \in Storing(g)
      PROVE  FlashInv'
  <2> SUFFICES ASSUME NEW f \in Fields, flash'[f] \notin {ram'[f], Damaged}
               PROVE  \E r \in Setters : at'[r] \in Storing(f)
    OBVIOUS
  <2>1. CASE f = g
    <3>1. at'[s] \in Storing(f)
      BY <1>5, <2>1 DEF TypeOK
    <3>2. QED BY <3>1
  <2>2. CASE f # g
    <3>1. PICK r \in Setters : at[r] \in Storing(f)
      BY <1>5, <2>2
    <3>2. at'[r] \in Storing(f)
      BY <1>5, <2>2, <3>1 DEF TypeOK
    <3>3. QED BY <3>2
  <2>3. QED BY <2>1, <2>2
<1>6. ASSUME NEW s \in Setters, Connect(s) \/ SetHostname(s) PROVE FlashInv'
  BY <1>4, <1>6 DEF Connect, SetHostname, Call, Goto, settings
<1>7. ASSUME NEW s \in Setters, Set(s) PROVE FlashInv'
  <2>1. CASE FillSsid(s) BY <1>5, <2>1 DEF FillSsid, Fill, Goto, TypeOK
  <2>2. CASE FillPwd(s) BY <1>5, <2>2 DEF FillPwd, Fill, Goto, TypeOK
  <2>3. CASE FillName(s) BY <1>5, <2>3 DEF FillName, Fill, Goto, TypeOK
  <2>4. CASE Flag(s) BY <1>4, <2>4 DEF Flag, Goto, settings
  <2>5. CASE FlagName(s) BY <1>4, <2>5 DEF FlagName, Goto, settings
  <2>6. CASE StoreSsid(s)
    BY <1>5, <2>6 DEF StoreSsid, Store, Written, WriteFails, Goto, settings, TypeOK
  <2>7. CASE StorePwd(s)
    BY <1>5, <2>7 DEF StorePwd, Store, Written, WriteFails, Goto, settings, TypeOK
  <2>8. CASE StoreName(s)
    BY <1>5, <2>8 DEF StoreName, Store, Written, WriteFails, Goto, settings, TypeOK
  <2>9. QED BY <1>7, <2>1, <2>2, <2>3, <2>4, <2>5, <2>6, <2>7, <2>8 DEF Set
<1>8. CASE UNCHANGED vars
  BY <1>1, <1>8 DEF vars, setter
<1>9. QED BY <1>2, <1>3, <1>6, <1>7, <1>8 DEF Next

\* Once the setters are done, flash holds what is in RAM, so that a restart loads
\* it, but for what a failing flash operation has damaged since.
THEOREM FlashAgrees == Spec => []FlashFollows
<1>1. Init => FlashInv
  BY DEF Init, FlashInv, Fields
<1>2. FlashInv /\ TypeOK => FlashFollows
  BY DEF FlashInv, FlashFollows, TypeOK, Storing, Fields
<1>3. QED BY <1>1, <1>2, TypeCorrect, FlashStep, PTL DEF Spec

-----------------------------------------------------------------------------
(* The host name: while it is filled but not flagged nothing is owed yet,   *)
(* and from the time DHCP has a name until the flag is cleared the task has *)
(* announced the current one, or a flag it will clear was set in between.   *)
Announced == dhcp_name = ram["hostname"] /\ mdns_name = ram["hostname"]
NameFilled == \E s \in Setters : at[s] = "nameFlag"
\* A host name that is set is announced, or still flagged to be.
NameOwed == ~missedName /\ ~NameFilled => hostname_changed \/ Announced

NameInv ==
  /\ NameOwed
  /\ pc \in {"dhcp", "mdns", "named"} => hostname_changed
  /\ ~missedName /\ ~NameFilled =>
       /\ pc = "mdns" => dhcp_name = ram["hostname"]
       /\ pc = "named" => Announced

LEMMA NameInitial == Init => NameInv
  BY DEF Init, NameInv, NameOwed, Announced, NameFilled, Fields

LEMMA NameStep == TypeOK /\ NameInv /\ [Next]_vars => NameInv'
<1> SUFFICES ASSUME TypeOK, NameInv, [Next]_vars
             PROVE  NameInv'
  OBVIOUS
<1> USE DEF NameInv, NameOwed, Announced
<1>1. ASSUME UNCHANGED <<name, pc>>, ram'["hostname"] = ram["hostname"], NameFilled' <=> NameFilled
      PROVE  NameInv'
  BY <1>1 DEF name
<1>2. ASSUME Task PROVE NameInv'
  <2>1. ram' = ram /\ (NameFilled' <=> NameFilled)
    BY <1>2 DEF Task, HostCheck, HostDhcp, HostMdns, HostDone, Status, Test, Sta, ConnectSsid,
                ConnectPwd, ConnectFails, ClearChanged, Retry, Sleep, Step, setter, settings, NameFilled
  <2>2. CASE HostCheck BY <2>1, <2>2 DEF HostCheck, Step, name
  <2>3. CASE HostDhcp BY <2>1, <2>3 DEF HostDhcp, Step
  <2>4. CASE HostMdns BY <2>1, <2>4 DEF HostMdns, Step
  <2>5. CASE HostDone BY <2>1, <2>5 DEF HostDone, Step
  <2>6. CASE \/ Status \/ Test \/ Sta \/ ConnectSsid \/ ConnectPwd \/ ConnectFails
            \/ ClearChanged \/ Retry \/ Sleep
    BY <2>1, <2>6 DEF Status, Test, Sta, ConnectSsid, ConnectPwd, ConnectFails, ClearChanged,
       Retry, Sleep,
       Step, name
  <2>7. QED
    BY <1>2, <2>2, <2>3, <2>4, <2>5, <2>6 DEF Task
<1>3. ASSUME Driver PROVE NameInv'
  BY <1>1, <1>3 DEF Driver, Join, Leave, setter, settings, NameFilled
<1>4. ASSUME NEW s \in Setters, Connect(s) \/ SetHostname(s) PROVE NameInv'
  <2>1. /\ UNCHANGED <<settings, name, pc>>
        /\ at[s] = "idle" /\ at' \in {[at EXCEPT ![s] = "ssid"], [at EXCEPT ![s] = "name"]}
    BY <1>4 DEF Connect, SetHostname, Call, Goto
  <2>2. NameFilled' <=> NameFilled
    BY <2>1 DEF NameFilled, TypeOK
  <2>3. QED BY <1>1, <2>1, <2>2 DEF settings
<1>5. ASSUME NEW s \in Setters, Set(s) PROVE NameInv'
  <2>1. CASE FillName(s)
    <3>1. NameFilled' /\ pc' = pc /\ hostname_changed' = hostname_changed
      BY <2>1 DEF FillName, Fill, Goto, NameFilled, TypeOK, name
    <3>2. QED BY <3>1
  <2>2. CASE FlagName(s)
    <3>1. /\ hostname_changed' /\ pc' = pc
          /\ (pc = "mdns" => missedName') /\ (pc = "named" => missedName')
      BY <2>2, Zenon DEF FlagName
    <3>2. QED BY <3>1, Zenon
  <2>3. CASE FillSsid(s) \/ FillPwd(s) \/ Flag(s) \/ StoreSsid(s) \/ StorePwd(s) \/ StoreName(s)
    <3>1. /\ UNCHANGED <<name, pc>> /\ ram'["hostname"] = ram["hostname"]
          /\ \E t \in {"pwd", "flag", "storeSsid", "storePwd", "idle"} : at' = [at EXCEPT ![s] = t]
          /\ at[s] # "nameFlag"
      BY <2>3 DEF FillSsid, FillPwd, Fill, Flag, StoreSsid, StorePwd, StoreName, Store, Goto,
         settings, TypeOK, Fields
    <3>2. NameFilled' <=> NameFilled
      BY <3>1 DEF NameFilled, TypeOK
    <3>3. QED BY <1>1, <3>1, <3>2
  <2>4. QED BY <1>5, <2>1, <2>2, <2>3 DEF Set
<1>6. CASE UNCHANGED vars
  BY <1>1, <1>6 DEF vars, setter, settings, NameFilled
<1>7. QED BY <1>2, <1>3, <1>4, <1>5, <1>6 DEF Next

\* No host name is forgotten: one that DHCP or mDNS does not have yet is still
\* flagged, unless it was flagged while the task was announcing another.
THEOREM NameNotForgotten == Spec => []NameOwed
<1>1. NameInv => NameOwed
  BY DEF NameInv
<1>2. QED BY <1>1, TypeCorrect, NameInitial, NameStep, PTL DEF Spec

\* Steps of the task until a flagged name is announced: those of its round, and
\* the first three of the next.
NameLeft ==
  CASE pc = "status" -> 11 [] pc = "test" -> 10 [] pc = "sta" -> 9 [] pc = "connect" -> 8
    [] pc = "reading" -> 7 [] pc = "clear" -> 6 [] pc = "retry" -> 5 [] pc = "sleep" -> 4
    [] pc = "host" -> 3 [] pc = "dhcp" -> 2 [] pc = "mdns" -> 1 [] pc = "named" -> 0
NameBounded ==
  [][~missedName /\ ~NameFilled /\ ~Announced =>
       NameLeft \in 1 .. 11 /\ IF Task THEN NameLeft' < NameLeft ELSE NameLeft' = NameLeft]_vars

\* A name that is set is announced within eleven steps of the task, whatever else
\* is set meanwhile: the safety core of NameAnnounced.
THEOREM NameIsAnnounced == Spec => NameBounded
<1>1. ASSUME TypeOK, NameInv, [Next]_vars, ~missedName, ~NameFilled, ~Announced
      PROVE  NameLeft \in 1 .. 11 /\ IF Task THEN NameLeft' < NameLeft ELSE NameLeft' = NameLeft
  <2>1. hostname_changed /\ pc # "named"
    BY <1>1 DEF NameInv, NameOwed
  <2>2. NameLeft \in 1 .. 11
    BY <1>1, <2>1 DEF TypeOK, NameLeft
  <2>3. ASSUME Task PROVE NameLeft' < NameLeft
    <3>1. \/ (pc = "host" /\ pc' = "dhcp") \/ (pc = "dhcp" /\ pc' = "mdns")
          \/ (pc = "mdns" /\ pc' = "named") \/ (pc = "status" /\ pc' = "test")
          \/ (pc = "test" /\ pc' \in {"sta", "retry"}) \/ (pc = "sta" /\ pc' = "connect")
          \/ (pc = "connect" /\ pc' \in {"reading", "retry"})
          \/ (pc = "reading" /\ pc' \in {"clear", "retry"}) \/ (pc = "clear" /\ pc' = "retry")
          \/ (pc = "retry" /\ pc' = "sleep") \/ (pc = "sleep" /\ pc' = "host")
      BY <2>1, <2>3, Zenon DEF Task, HostCheck, HostDhcp, HostMdns, HostDone, Status, Test, Sta,
         ConnectSsid, ConnectPwd, ConnectFails, ClearChanged, Retry, Sleep, Step
    <3>2. QED BY <3>1 DEF NameLeft
  <2>4. ASSUME ~Task PROVE NameLeft' = NameLeft
    <3>1. pc' = pc
      BY <1>1, <2>4 DEF Next, Driver, Join, Leave, Connect, SetHostname, Call, Set, FillSsid, FillPwd,
         FillName, Fill, Flag, FlagName, StoreSsid, StorePwd, StoreName, Store, vars
    <3>2. QED BY <3>1 DEF NameLeft
  <2>5. QED BY <2>2, <2>3, <2>4
<1>2. TypeOK /\ NameInv /\ [Next]_vars
      => (~missedName /\ ~NameFilled /\ ~Announced =>
            NameLeft \in 1 .. 11 /\ IF Task THEN NameLeft' < NameLeft ELSE NameLeft' = NameLeft)
  BY <1>1
<1>3. QED BY <1>2, TypeCorrect, NameInitial, NameStep, PTL DEF Spec, NameBounded
=============================================================================
