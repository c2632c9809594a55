----------------------------- MODULE AccessPoint -----------------------------
(***************************************************************************)
(* The access point (include/access_point.h): init and deinit, with the    *)
(* sockets of the DHCP and DNS servers (src/dhcpserver.c,                  *)
(* src/dnsserver.c).  wifi_search_task (src/main.cpp) starts it when there *)
(* is no WiFi, the webserver's set_ap_active and the USB console start and *)
(* stop it.  Nothing is locked, so both calls are cut at their accesses to *)
(* `active`, to the driver and to lwIP, each of which is one step.         *)
(*                                                                         *)
(* The program is built without assertions: the one in dns_socket_bind     *)
(* does nothing.                                                           *)
(***************************************************************************)
EXTENDS Integers, FiniteSets

CONSTANTS
  Wifi,         \* wifi_search_task
  Others,       \* the webserver's handlers and the USB console
  Pcbs,         \* lwIP's pool of UDP control blocks
  NoUdp         \* the null pointer

ASSUME ThreadAssumption == Wifi \notin Others
ASSUME UdpAssumption    == IsFiniteSet(Pcbs) /\ NoUdp \notin Pcbs

Threads == Others \cup {Wifi}
Servers == {"dhcp", "dns"}

VARIABLES
  active,       \* access_point::active
  ap_mode,      \* cyw43: the access point is on
  udp,          \* server -> its pointer to a control block
  taken,        \* control blocks in use
  bound,        \* server's port -> the block bound to it
  apc,          \* thread -> its next step, inside init or deinit
  alone,        \* dt > ap_timeout: no WiFi for a while
  overlapped    \* two calls have been past their checks at once

sockets == <<udp, taken, bound>>
apVars  == <<active, ap_mode, sockets, apc, alone, overlapped>>

InitSteps   == {"on", "newDhcp", "bindDhcp", "newDns", "bindDns", "set"}
DeinitSteps == {"freeDns", "freeDhcp", "off", "unset"}

ApTypeOK ==
  /\ active \in BOOLEAN /\ ap_mode \in BOOLEAN /\ alone \in BOOLEAN /\ overlapped \in BOOLEAN
  /\ udp \in [Servers -> Pcbs \cup {NoUdp}] /\ taken \subseteq Pcbs
  /\ bound \in [Servers -> Pcbs \cup {NoUdp}]
  /\ apc \in [Threads -> {"idle"} \cup InitSteps \cup DeinitSteps]

\* wifi_search_task calls init at once when no network is set.
ApInit ==
  /\ active = FALSE /\ ap_mode = FALSE /\ taken = {} /\ overlapped = FALSE
  /\ udp = [s \in Servers |-> NoUdp] /\ bound = [s \in Servers |-> NoUdp]
  /\ alone \in BOOLEAN
  /\ \E first \in {"idle", "on"} :
       apc = [t \in Threads |-> IF t = Wifi THEN first ELSE "idle"]

-----------------------------------------------------------------------------
Inside(t) == apc[t] # "idle"
Enter(t, step) ==
  /\ apc[t] = "idle" /\ apc' = [apc EXCEPT ![t] = step]
  /\ overlapped' = (overlapped \/ \E u \in Threads : Inside(u))
  /\ UNCHANGED <<active, ap_mode, sockets, alone>>
ApStep(t, from, to) ==
  apc[t] = from /\ apc' = [apc EXCEPT ![t] = to] /\ UNCHANGED <<alone, overlapped>>

\* The check; a call that finds nothing to do returns and is no step.
CallInit(t)   == ~active /\ (t = Wifi => alone) /\ Enter(t, "on")
CallDeinit(t) == active /\ t # Wifi /\ Enter(t, "freeDns")

-----------------------------------------------------------------------------
(* Sockets.                                                                *)

\* udp_new overwrites the pointer, with null when the pool is empty: then the
\* server's initialisation ends.
NewSocket(t, s, from, bind, skip) ==
  \/ /\ Pcbs \ taken = {}
     /\ ApStep(t, from, skip)
     /\ udp' = [udp EXCEPT ![s] = NoUdp]
     /\ UNCHANGED <<active, ap_mode, taken, bound>>
  \/ \E p \in Pcbs \ taken :
       /\ ApStep(t, from, bind)
       /\ udp' = [udp EXCEPT ![s] = p] /\ taken' = taken \cup {p}
       /\ UNCHANGED <<active, ap_mode, bound>>
\* udp_bind refuses a null pointer, and a port that another block is bound to;
\* nobody looks at the result.
BindSocket(t, s, from, to) ==
  /\ ApStep(t, from, to)
  /\ bound' = IF bound[s] = NoUdp THEN [bound EXCEPT ![s] = udp[s]] ELSE bound
  /\ UNCHANGED <<active, ap_mode, udp, taken>>
\* udp_remove, which unbinds, and the pointer is cleared.
MutantOnlyForgets(s) ==
  udp' = [udp EXCEPT ![s] = NoUdp] /\ UNCHANGED <<taken, bound>>
Removed(s) ==
  /\ udp' = [udp EXCEPT ![s] = NoUdp] /\ taken' = taken \ {udp[s]}
  /\ bound' = IF bound[s] = udp[s] THEN [bound EXCEPT ![s] = NoUdp] ELSE bound
FreeSocket(t, s, from, to) == ApStep(t, from, to) /\ Removed(s) /\ UNCHANGED <<active, ap_mode>>

-----------------------------------------------------------------------------
(* init and deinit.                                                        *)

Mode(t, on, from, to) ==
  ApStep(t, from, to) /\ ap_mode' = on /\ UNCHANGED <<active, sockets>>
MutantStaysActive(on) == TRUE
NewActive(on) == on
SetActive(t, on, from) ==
  ApStep(t, from, "idle") /\ active' = NewActive(on) /\ UNCHANGED <<ap_mode, sockets>>

InitStep(t) ==
  \/ Mode(t, TRUE, "on", "newDhcp")
  \/ NewSocket(t, "dhcp", "newDhcp", "bindDhcp", "newDns")
  \/ BindSocket(t, "dhcp", "bindDhcp", "newDns")
  \/ NewSocket(t, "dns", "newDns", "bindDns", "set")
  \/ BindSocket(t, "dns", "bindDns", "set")
  \/ SetActive(t, TRUE, "set")
DeinitStep(t) ==
  \/ FreeSocket(t, "dns", "freeDns", "freeDhcp")
  \/ FreeSocket(t, "dhcp", "freeDhcp", "off")
  \/ Mode(t, FALSE, "off", "unset")
  \/ SetActive(t, FALSE, "unset")

\* The WiFi connection comes and goes.
Alone == alone' = ~alone /\ UNCHANGED <<active, ap_mode, sockets, apc, overlapped>>

ApNext ==
  \/ Alone
  \/ \E t \in Threads : CallInit(t) \/ CallDeinit(t) \/ InitStep(t) \/ DeinitStep(t)

\* The scheduler runs every thread; only the task calls of itself.
ApRuns(t) == InitStep(t) \/ DeinitStep(t) \/ (t = Wifi /\ CallInit(t))
ApSpec == ApInit /\ [][ApNext]_apVars /\ \A t \in Threads : WF_apVars(ApRuns(t))

-----------------------------------------------------------------------------
(* Properties.                                                             *)

Up(s) == udp[s] # NoUdp /\ bound[s] = udp[s]

\* As long as calls have not met, `active` says what the device does: the radio
\* and both servers are on or off together, and no control block is leaked,
\* however often the access point is started and stopped.
ApUpWhenActive ==
  ~overlapped /\ (\A t \in Threads : ~Inside(t)) /\ Cardinality(Pcbs) > 1 =>
    /\ ap_mode = active
    /\ \A s \in Servers : IF active THEN Up(s) ELSE udp[s] = NoUdp /\ bound[s] = NoUdp
    /\ taken = {udp[s] : s \in Servers} \ {NoUdp}

\* Without WiFi the access point comes up, whoever stops it meanwhile, unless
\* calls have met: then `active` may be left set with the radio off, and
\* nothing starts it again.
ApComesUp ==
  alone ~> (ap_mode /\ \A s \in Servers : Up(s)) \/ ~alone \/ overlapped
=============================================================================
