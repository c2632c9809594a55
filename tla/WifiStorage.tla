---------------------------- MODULE WifiStorage ----------------------------
(***************************************************************************)
(* Credentials and host name (include/wifi_storage.h) between the threads  *)
(* that set them and wifi_search_task (src/main.cpp), which adopts them.   *)
(* The webserver's handlers connect_to_wifi and set_hostname run in lwIP's *)
(* tcpip thread, the USB command connect_wifi in its own task.  Nothing is *)
(* locked: setters and task are cut at their accesses to the shared        *)
(* fields.  A setting is a number, one per value set, 0 when empty.        *)
(*                                                                         *)
(* The driver (cyw43) takes C strings.  `text` is what a field reads as a  *)
(* C string: value v, or -v where something follows it, the end of an      *)
(* older and longer value or, behind a value that fills its storage, the   *)
(* bytes of the field's size.  Host names that long, which mDNS refuses,   *)
(* are left out, as are passwords shorter than eight characters, which are *)
(* never tried, and the access point, which the task also looks after.     *)
(***************************************************************************)
EXTENDS Integers, FiniteSets

CONSTANTS
  Web, Usb,     \* the two setters
  Setters,      \* those that are in use
  MaxSets,      \* bound: values set in one behaviour
  Long,         \* the values that fill their storage (64 characters)
  RetryPeriod,  \* seconds between reconnect tries (30)
  RetryAt,      \* their second in the period (5)
  MaxRound      \* seconds that a round of the task takes, at most

ASSUME SetterAssumption == Web # Usb /\ Setters \subseteq {Web, Usb}
ASSUME BoundAssumption  == MaxSets \in Nat /\ MaxRound \in Nat \ {0}
\* What flash holds at the start is shorter.
ASSUME LongAssumption   == Long \subseteq Nat \ {0, 1}
\* A connection is seen again before the retry second.
ASSUME RetryAssumption  ==
  RetryPeriod \in Nat \ {0} /\ RetryAt \in 0 .. RetryPeriod - 1 /\ MaxRound < RetryAt

Fields  == {"ssid", "pwd", "hostname"}
Value   == 0 .. MaxSets
Text    == -MaxSets .. MaxSets
Damaged == -1
Never   == <<0, 0>>

VARIABLES
  ram,              \* ssid_wifi, pwd_wifi and hostname
  text,             \* what they read as C strings
  flash,            \* the same settings in the settings store; Damaged: an
                    \* operation failed on it, and what it holds is anything
  nsets,            \* values set so far
  wifi_changed, wifi_connected, hostname_changed,
  link,             \* the station is joined to a network
  reading,          \* the ssid that the connect call has read
  tried,            \* credentials of the last connect call the driver took
  dhcp_name, mdns_name,  \* the host names announced
  dt,               \* seconds since the last connection, modulo RetryPeriod
  met,              \* this round has seen the connection
  available,        \* this round has seen the network
  pc,               \* step of the task
  at, val,          \* setter -> its next step, the value it sets
  missed,           \* a flag of new credentials is about to be cleared, or was
  missedName        \* so for the host name

settings == <<ram, text>>
task     == <<dt, met, available>>
name     == <<hostname_changed, dhcp_name, mdns_name, missedName>>
conn     == <<wifi_changed, wifi_connected, reading, tried, missed>>
setter   == <<at, val, nsets>>
vars     == <<settings, flash, setter, name, conn, link, task, pc>>

Stored == <<ram["ssid"], ram["pwd"]>>

TypeOK ==
  /\ ram \in [Fields -> Value] /\ text \in [Fields -> Text]
  /\ flash \in [Fields -> Value \cup {Damaged}]
  /\ nsets \in Value /\ reading \in Text /\ tried \in Text \X Text
  /\ wifi_changed \in BOOLEAN /\ wifi_connected \in BOOLEAN /\ hostname_changed \in BOOLEAN
  /\ dhcp_name \in Value /\ mdns_name \in Value /\ link \in BOOLEAN
  /\ dt \in 0 .. RetryPeriod - 1 /\ met \in BOOLEAN /\ available \in BOOLEAN
  /\ pc \in {"host", "dhcp", "mdns", "named", "status", "test", "sta", "connect", "reading",
             "clear", "retry", "sleep"}
  /\ at \in [Setters -> {"idle", "ssid", "pwd", "flag", "storeSsid", "storePwd",
                         "name", "nameFlag", "storeName"}]
  /\ val \in [Setters -> Value]
  /\ missed \in BOOLEAN /\ missedName \in BOOLEAN

\* load_from_persistent_storage, and update_hostname in startup_task, which
\* announces the name (an empty one is replaced by a default).
Init ==
  /\ nsets \in 0 .. (IF MaxSets = 0 THEN 0 ELSE 1)
  /\ ram = [f \in Fields |-> nsets] /\ text = ram /\ flash = ram
  /\ wifi_changed = TRUE /\ wifi_connected = FALSE /\ link = FALSE
  /\ reading = 0 /\ tried = Never
  /\ hostname_changed = FALSE /\ dhcp_name = ram["hostname"] /\ mdns_name = ram["hostname"]
  /\ dt = 0 /\ met = FALSE /\ available = FALSE /\ pc = "host"
  /\ at = [s \in Setters |-> "idle"] /\ val = [s \in Setters |-> 0]
  /\ missed = FALSE /\ missedName = FALSE

-----------------------------------------------------------------------------
(* The setters.                                                            *)

Goto(s, from, to) == at[s] = from /\ at' = [at EXCEPT ![s] = to]

\* A request or command with new values arrives.
Call(s, first) ==
  /\ Goto(s, "idle", first) /\ nsets < MaxSets /\ nsets' = nsets + 1
  /\ val' = [val EXCEPT ![s] = nsets + 1]
  /\ UNCHANGED <<settings, flash, name, conn, link, task, pc>>
Connect(s)     == Call(s, "ssid")
SetHostname(s) == s = Web /\ nsets + 1 \notin Long /\ Call(s, "name")

\* The texts a field may have when s fills it.  fill writes no terminator, and
\* make_c_str_safe, which the webserver's handlers call and the USB command does
\* not, has no room for one behind a value that fills its storage.
Texts(s, f) ==
  IF val[s] \in Long THEN {-val[s]}
  ELSE IF s = Web \/ text[f] = 0 THEN {val[s]} ELSE {val[s], -val[s]}

Fill(s, f) ==
  /\ ram' = [ram EXCEPT ![f] = val[s]]
  /\ \E t \in Texts(s, f) : text' = [text EXCEPT ![f] = t]
  /\ UNCHANGED <<flash, val, nsets, name, conn, link, task, pc>>
FillSsid(s) == Goto(s, "ssid", "pwd") /\ Fill(s, "ssid")
FillPwd(s)  == Goto(s, "pwd", "flag") /\ Fill(s, "pwd")
FillName(s) == Goto(s, "name", "nameFlag") /\ Fill(s, "hostname")

\* wifi_connected = false, wifi_changed = true.
\* (A definition named Mutant... is not part of the model: it is a plausible
\* bug, used to confirm that a property would notice it.)
MutantFlag(s) ==
  /\ Goto(s, "flag", "storeSsid")
  /\ wifi_connected' = FALSE
  /\ UNCHANGED <<settings, flash, val, nsets, name, wifi_changed, reading, tried, missed, link,
                 task, pc>>
Flag(s) ==
  /\ Goto(s, "flag", "storeSsid")
  /\ wifi_connected' = FALSE /\ wifi_changed' = TRUE
  /\ missed' = (missed \/ pc \in {"reading", "clear"})
  /\ UNCHANGED <<settings, flash, val, nsets, name, reading, tried, link, task, pc>>

MutantFlagName(s) ==
  /\ Goto(s, "nameFlag", "storeName")
  /\ missedName' = (missedName \/ pc \in {"mdns", "named"})
  /\ UNCHANGED <<settings, flash, val, nsets, hostname_changed, dhcp_name, mdns_name, conn,
                 link, task, pc>>
FlagName(s) ==
  /\ Goto(s, "nameFlag", "storeName")
  /\ hostname_changed' = TRUE
  /\ missedName' = (missedName \/ pc \in {"mdns", "named"})
  /\ UNCHANGED <<settings, flash, val, nsets, dhcp_name, mdns_name, conn, link, task, pc>>

\* persistent_storage::write copies the field as it is then into flash, or an
\* operation on the flash fails: the field keeps its old value or a mixture, or
\* all settings, which share a sector, have been erased.  write reports success
\* all the same, and its callers would only log a failure.
MutantWritten(s, f) == flash' = [flash EXCEPT ![f] = val[s]]
Written(s, f)       == flash' = [flash EXCEPT ![f] = ram[f]]
WriteFails(f) ==
  \/ flash' = [flash EXCEPT ![f] = Damaged]
  \/ flash' = [g \in Fields |-> Damaged]
Store(s, from, to, f) ==
  /\ Goto(s, from, to)
  /\ Written(s, f) \/ WriteFails(f)
  /\ val' = [val EXCEPT ![s] = IF to = "idle" THEN 0 ELSE val[s]]
  /\ UNCHANGED <<settings, nsets, name, conn, link, task, pc>>
StoreSsid(s) == Store(s, "storeSsid", "storePwd", "ssid")
StorePwd(s)  == Store(s, "storePwd", "idle", "pwd")
StoreName(s) == Store(s, "storeName", "idle", "hostname")

-----------------------------------------------------------------------------
(* wifi_search_task.                                                       *)

Step(from, to) == pc = from /\ pc' = to /\ UNCHANGED <<settings, flash, setter>>

\* update_hostname: nothing to do, or the new name goes to DHCP and to mDNS.
HostCheck ==
  /\ Step("host", IF hostname_changed THEN "dhcp" ELSE "status")
  /\ UNCHANGED <<name, conn, link, task>>
HostDhcp ==
  /\ Step("dhcp", "mdns")
  /\ dhcp_name' = ram["hostname"] /\ missedName' = FALSE
  /\ UNCHANGED <<hostname_changed, mdns_name, conn, link, task>>
HostMdns ==
  /\ Step("mdns", "named")
  /\ mdns_name' = ram["hostname"]
  /\ UNCHANGED <<hostname_changed, dhcp_name, missedName, conn, link, task>>
HostDone ==
  /\ Step("named", "status")
  /\ hostname_changed' = FALSE
  /\ UNCHANGED <<dhcp_name, mdns_name, missedName, conn, link, task>>

\* update_wifi_connection: look at the link and for the network in the scan
\* list, which holds what the radio has seen: anything ...
Status ==
  /\ Step("status", "test")
  /\ wifi_connected' = link /\ available' \in (IF ram["ssid"] = 0 THEN {FALSE} ELSE BOOLEAN)
  /\ UNCHANGED <<name, wifi_changed, reading, tried, missed, link, dt, met>>
\* ... and return unless there is something to try.
Test ==
  /\ Step("test", IF wifi_changed /\ ram["ssid"] # 0 /\ ram["pwd"] # 0 /\ available
                  THEN "sta" ELSE "retry")
  /\ UNCHANGED <<name, conn, link, task>>
\* The station is switched off and on again.
Sta ==
  /\ Step("sta", "connect")
  /\ link' = FALSE
  /\ UNCHANGED <<name, conn, task>>
\* cyw43_arch_wifi_connect_async reads the ssid, then the password, while it
\* sets the radio up, or fails before or after: a later round tries again.
ConnectSsid ==
  /\ Step("connect", "reading")
  /\ reading' = text["ssid"] /\ missed' = FALSE
  /\ UNCHANGED <<name, wifi_changed, wifi_connected, tried, link, task>>
ConnectPwd ==
  /\ Step("reading", "clear")
  /\ tried' = <<reading, text["pwd"]>> /\ reading' = 0
  /\ UNCHANGED <<name, wifi_changed, wifi_connected, missed, link, task>>
ConnectFails ==
  /\ Step("connect", "retry") \/ Step("reading", "retry")
  /\ reading' = 0
  /\ UNCHANGED <<name, wifi_changed, wifi_connected, tried, missed, link, task>>
ClearChanged ==
  /\ Step("clear", "retry")
  /\ wifi_changed' = FALSE
  /\ UNCHANGED <<name, wifi_connected, reading, tried, missed, link, task>>

\* last_conn = cur_time while connected; dt % 30 == 5 enables a reconnect try.
Retry ==
  /\ Step("retry", "sleep")
  /\ met' = wifi_connected
  /\ wifi_changed' = (wifi_changed \/ dt = RetryAt)
  /\ UNCHANGED <<name, wifi_connected, reading, tried, missed, link, dt, available>>
\* update_scanned starts another scan, the task sleeps, and the next round
\* reads the clock.
MutantSleep ==
  /\ Step("sleep", "host")
  /\ \E d \in 1 .. MaxRound : dt' = (IF met THEN 0 ELSE dt) + d
  /\ met' = FALSE /\ available' = FALSE
  /\ UNCHANGED <<name, conn, link>>
Sleep ==
  /\ Step("sleep", "host")
  /\ \E d \in 1 .. MaxRound : dt' = ((IF met THEN 0 ELSE dt) + d) % RetryPeriod
  /\ met' = FALSE /\ available' = FALSE
  /\ UNCHANGED <<name, conn, link>>

-----------------------------------------------------------------------------
(* The driver.                                                             *)

\* The station joins the network it was told to, when the password is its own
\* (numbers that match), or leaves one: out of range, or `disable_wifi`.
Join ==
  /\ ~link /\ tried[1] > 0 /\ tried[1] = tried[2] /\ link' = TRUE
  /\ UNCHANGED <<settings, flash, setter, name, conn, task, pc>>
Leave ==
  /\ link /\ link' = FALSE
  /\ UNCHANGED <<settings, flash, setter, name, conn, task, pc>>

-----------------------------------------------------------------------------
Task ==
  \/ HostCheck \/ HostDhcp \/ HostMdns \/ HostDone
  \/ Status \/ Test \/ Sta \/ ConnectSsid \/ ConnectPwd \/ ConnectFails \/ ClearChanged
  \/ Retry \/ Sleep
Set(s) ==
  \/ FillSsid(s) \/ FillPwd(s) \/ Flag(s) \/ StoreSsid(s) \/ StorePwd(s)
  \/ FillName(s) \/ FlagName(s) \/ StoreName(s)
Driver == Join \/ Leave
Next ==
  \/ Task \/ Driver
  \/ \E s \in Setters : Connect(s) \/ SetHostname(s) \/ Set(s)

\* The scheduler runs every task.
Spec == Init /\ [][Next]_vars /\ WF_vars(Task) /\ \A s \in Setters : WF_vars(Set(s))

-----------------------------------------------------------------------------
(* Properties.                                                             *)

\* A setter is between filling a field and setting its flag.
Unflagged == \E s \in Setters : at[s] \in {"pwd", "flag"}

\* wifi_changed: while it is false the driver was last told the credentials as
\* they are now, unless they were flagged between the beginning of the connect
\* call and the end of update_wifi_connection, which then clears that flag too.
TriedUnlessMissed ==
  ~wifi_changed /\ ~missed /\ ~Unflagged => tried = <<text["ssid"], text["pwd"]>>

\* Whoever sets what in which order, the settings in flash are those in RAM
\* once the setters are done, but for those that a flash operation failed on
\* since they were last stored: a restart loads what was last set.
FlashFollows ==
  (\A s \in Setters : at[s] = "idle") => \A f \in Fields : flash[f] \in {ram[f], Damaged}

\* A new host name is announced by DHCP and by mDNS, unless it was flagged
\* while the task was announcing another one, or is replaced.
NameAnnounced ==
  \A v \in Value \ {0} :
    (ram["hostname"] = v /\ \A s \in Setters : at[s] = "idle")
      ~> \/ dhcp_name = v /\ mdns_name = v
         \/ ram["hostname"] # v \/ missedName

\* The help of the USB console says of connect_wifi: "Store the wifi
\* credentials for a certain ssid and connect if its available".  What the
\* driver was told is what was stored.
TriedAsStored ==
  ~wifi_changed /\ ~missed /\ ~Unflagged => tried = Stored
=============================================================================
