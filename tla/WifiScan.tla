------------------------------ MODULE WifiScan ------------------------------
(***************************************************************************)
(* The list of networks in reach (include/wifi_storage.h, on the           *)
(* static_vector of include/static_types.h).  wifi_search_task starts a    *)
(* scan and then compacts the list (update_scanned); the driver calls      *)
(* _scan_result for every network it hears, in a thread of its own.        *)
(* Nothing is locked, so both are cut at their accesses to the list and to *)
(* its size.  The task connects only to a network that is in the list.     *)
(*                                                                         *)
(* Time is in seconds.  The signal strength is left out.                   *)
(***************************************************************************)
EXTENDS Integers

CONSTANTS
  Networks,     \* names the radio can hear
  NoName,       \* the name in a slot that was never filled
  MaxWifis,     \* slots of the list (8)
  Timeout,      \* DISCOVER_TIMEOUT_US: older entries are removed
  Rescan,       \* seconds until a scan in progress is given up (10)
  Wrap,         \* 2^32
  MaxSecs       \* bound: end of time

ASSUME WifisAssumption == MaxWifis \in Nat \ {0} /\ NoName \notin Networks
ASSUME ScanTimeAssumption ==
  /\ Timeout \in Nat /\ Rescan \in Nat /\ MaxSecs \in Nat
  /\ Wrap \in Nat /\ MaxSecs + Rescan < Wrap

Spot    == 0 .. MaxWifis - 1
Second  == 0 .. MaxSecs
Wifis   == [ssid : Networks \cup {NoName}, last_seen : Second]

VARIABLES
  wifis, cur_size,      \* the static_vector
  secs,                 \* time_us_64
  last_scanned, scanning,
  tpc,          \* next step of update_scanned
  asOf,         \* its reading of the clock: `cur`, then `cur_us`
  below,        \* remove_if: i + 1, the entries still to be looked at
  atSwap,       \* the size it read when it swapped
  cpc,          \* next step of _scan_result
  net,          \* the network it was called for
  look, upTo,   \* its loop over the list
  atPush,       \* the size it read to push
  heard,        \* network -> when it was last put into the list or refreshed, 0
                \* when that is more than Timeout seconds ago
  swept,        \* the clock reading of the last compaction that is through
  raced         \* both were in the list at once

list     == <<wifis, cur_size>>
taskVars == <<last_scanned, tpc, asOf, below, atSwap, swept>>
heardVars == <<cpc, net, look, upTo, atPush, heard>>
scanVars == <<list, secs, scanning, taskVars, heardVars, raced>>

ScanTypeOK ==
  /\ wifis \in [Spot -> Wifis] /\ cur_size \in 0 .. MaxWifis
  /\ secs \in Second /\ last_scanned \in Second /\ scanning \in BOOLEAN
  /\ tpc \in {"idle", "start", "begin", "test", "swap", "shrink"}
  /\ asOf \in Second /\ below \in 0 .. MaxWifis /\ atSwap \in 0 .. MaxWifis
  /\ cpc \in {"idle", "look", "refresh", "grow", "fill"}
  /\ net \in Networks \cup {NoName}
  /\ look \in 0 .. MaxWifis /\ upTo \in 0 .. MaxWifis /\ atPush \in 0 .. MaxWifis
  /\ heard \in [Networks -> Second] /\ swept \in Second /\ raced \in BOOLEAN

ScanInit ==
  /\ wifis = [i \in Spot |-> [ssid |-> NoName, last_seen |-> 0]] /\ cur_size = 0
  /\ secs = 0 /\ last_scanned = 0 /\ scanning = FALSE
  /\ tpc = "idle" /\ asOf = 0 /\ below = 0 /\ atSwap = 0 /\ swept = 0
  /\ cpc = "idle" /\ net = NoName /\ look = 0 /\ upTo = 0 /\ atPush = 0
  /\ heard = [n \in Networks |-> 0] /\ raced = FALSE

Sweeping == tpc \in {"test", "swap", "shrink"}

-----------------------------------------------------------------------------
(* update_scanned.                                                         *)

Scanner(from, to) == tpc = from /\ tpc' = to /\ UNCHANGED <<secs, heardVars>>

\* "After 10 seconds forces rediscover", but the difference is taken the wrong
\* way round: it is small only within the second in which the scan was started.
ScanDue == ~scanning \/ (last_scanned - secs) % Wrap >= Rescan
CheckScan ==
  /\ Scanner("idle", "start") /\ ScanDue
  /\ asOf' = secs
  /\ UNCHANGED <<list, scanning, last_scanned, below, atSwap, swept, raced>>
\* After half a second: the driver takes the scan, or refuses it.
StartScan ==
  /\ \/ Scanner("start", "begin") /\ scanning' = TRUE
     \/ Scanner("start", "idle") /\ scanning' = scanning
  /\ last_scanned' = asOf /\ asOf' = 0
  /\ UNCHANGED <<list, below, atSwap, swept, raced>>

\* The removal of old entries begins with the clock and the size.
BeginSweep ==
  /\ Scanner("begin", "test")
  /\ asOf' = secs /\ below' = cur_size
  /\ raced' = (raced \/ cpc # "idle")
  /\ UNCHANGED <<list, scanning, last_scanned, atSwap, swept>>

\* The difference is unsigned: what was seen after the clock was read is old.
Old(w) == w.last_seen > asOf \/ asOf - w.last_seen > Timeout
TestEntry ==
  /\ below > 0
  /\ IF Old(wifis[below - 1]) THEN Scanner("test", "swap") /\ below' = below
                              ELSE Scanner("test", "test") /\ below' = below - 1
  /\ UNCHANGED <<list, scanning, last_scanned, asOf, atSwap, swept, raced>>
\* std::swap with the last entry.
MutantNoSwap(i, j) == wifis
Swapped(i, j) == [wifis EXCEPT ![i] = wifis[j], ![j] = wifis[i]]
SwapLast ==
  /\ Scanner("swap", "shrink")
  /\ wifis' = Swapped(below - 1, cur_size - 1) /\ atSwap' = cur_size
  /\ UNCHANGED <<cur_size, scanning, last_scanned, asOf, below, swept, raced>>
\* --cur_size, of the size as it is, or as it was read for the swap.
Shrink ==
  /\ Scanner("shrink", "test")
  /\ cur_size' \in {cur_size - 1, atSwap - 1} /\ below' = below - 1
  /\ atSwap' = 0
  /\ UNCHANGED <<wifis, scanning, last_scanned, asOf, swept, raced>>
EndSweep ==
  /\ Scanner("test", "idle") /\ below = 0
  /\ swept' = asOf /\ asOf' = 0
  /\ UNCHANGED <<list, scanning, last_scanned, below, atSwap, raced>>

-----------------------------------------------------------------------------
(* _scan_result.                                                           *)

Callback(from, to) ==
  cpc = from /\ cpc' = to /\ UNCHANGED <<secs, scanning, taskVars>>

\* A network was heard; the range-based for takes the end of the list first.
Hear(n) ==
  /\ scanning /\ Callback("idle", "look")
  /\ net' = n /\ look' = 0 /\ upTo' = cur_size
  /\ raced' = (raced \/ Sweeping)
  /\ UNCHANGED <<list, atPush, heard>>
LookAt ==
  /\ look < upTo
  /\ IF wifis[look].ssid = net THEN Callback("look", "refresh") /\ look' = look
                               ELSE Callback("look", "look") /\ look' = look + 1
  /\ UNCHANGED <<list, net, upTo, atPush, heard, raced>>

Leaves == net' = NoName /\ look' = 0 /\ upTo' = 0 /\ atPush' = 0
Returns ==
  /\ heard' = [heard EXCEPT ![net] = secs]
  /\ Leaves /\ UNCHANGED <<cur_size, raced>>
Refresh ==
  /\ Callback("refresh", "idle")
  /\ wifis' = [wifis EXCEPT ![look].last_seen = secs]
  /\ Returns

\* push: without room the network is left out; else the size is stored, ...
Overflow ==
  /\ look = upTo /\ cur_size = MaxWifis
  /\ Callback("look", "idle")
  /\ Leaves /\ UNCHANGED <<list, heard, raced>>
Reserve ==
  /\ look = upTo /\ cur_size < MaxWifis
  /\ Callback("look", "grow")
  /\ atPush' = cur_size
  /\ UNCHANGED <<list, net, look, upTo, heard, raced>>
Grow ==
  /\ Callback("grow", "fill")
  /\ cur_size' = atPush + 1
  /\ UNCHANGED <<wifis, net, look, upTo, atPush, heard, raced>>
\* ... and the entry is filled by the caller.
FillEntry ==
  /\ Callback("fill", "idle")
  /\ wifis' = [wifis EXCEPT ![atPush] = [ssid |-> net, last_seen |-> secs]]
  /\ Returns

-----------------------------------------------------------------------------
Passes ==
  /\ secs < MaxSecs /\ secs' = secs + 1
  /\ heard' = [n \in Networks |-> IF secs' - heard[n] > Timeout THEN 0 ELSE heard[n]]
  /\ UNCHANGED <<list, scanning, taskVars, cpc, net, look, upTo, atPush, raced>>
ScanEnds ==
  /\ scanning /\ scanning' = FALSE
  /\ UNCHANGED <<list, secs, taskVars, heardVars, raced>>

UpdateScanned ==
  CheckScan \/ StartScan \/ BeginSweep \/ TestEntry \/ SwapLast \/ Shrink \/ EndSweep
ScanResult == LookAt \/ Refresh \/ Overflow \/ Reserve \/ Grow \/ FillEntry

ScanNext ==
  UpdateScanned \/ ScanResult \/ Passes \/ ScanEnds \/ \E n \in Networks : Hear(n)

ScanSpec == ScanInit /\ [][ScanNext]_scanVars

-----------------------------------------------------------------------------
(* Properties.                                                             *)

Listed(n) == \E i \in 0 .. cur_size - 1 : wifis[i].ssid = n

\* As long as compaction and radio have not met in the list, a network is in
\* it at most once, every network that was put in or heard again within the
\* last Timeout seconds is there, and nothing is that was too old when the list
\* was last compacted: the task does not pass over a network in reach.
ListIsRecent ==
  ~raced /\ cpc = "idle" =>
    /\ \A i, j \in 0 .. cur_size - 1 : wifis[i].ssid = wifis[j].ssid => i = j
    /\ \A n \in Networks : heard[n] # 0 => Listed(n)
    /\ \A i \in 0 .. cur_size - 1 : ~Sweeping => swept - wifis[i].last_seen <= Timeout
=============================================================================
