------------------------------ MODULE NtpClient ------------------------------
(***************************************************************************)
(* The clock of the device (src/ntp_client.cpp).  wifi_search_task asks for *)
(* the time server's address in every round with WiFi; lwIP's DNS calls    *)
(* back when it has to look the name up, and only then a request is sent.  *)
(* Answers, and the webserver's set_time, set the clock in the tcpip       *)
(* thread.  The name is a pool's: each lookup may give another server.     *)
(*                                                                         *)
(* The true time is in ticks since 1970, several in a second: the device   *)
(* was not switched on at the full second, and what it keeps of the time   *)
(* since, and of an answer, are whole seconds.  The network loses, delays  *)
(* and repeats datagrams: a server that was asked once may answer at any   *)
(* later time.                                                             *)
(***************************************************************************)
EXTENDS Integers, FiniteSets

CONSTANTS
  NtpServers,   \* addresses behind pool.ntp.org
  NoServer,     \* the address before the first lookup
  Ticks,        \* ticks of a second (1000000)
  Half,         \* 2^31: half of what the 32 bits of a timestamp can tell
  Delta,        \* NTP_DELTA: seconds from 1900 to 1970
  Boots,        \* when the device may be switched on
  HandTimes,    \* seconds that a browser may set
  MaxNow,       \* bound: end of time
  MaxAnswers    \* bound: answers on their way at once

Era == 2 * Half

\* The whole seconds of t ticks.
Seconds(t) == t \div Ticks

ASSUME TickAssumption == Ticks \in Nat \ {0}
\* Delta is in the upper half of an era, and the model's time ends before the
\* middle of the era that begins in 2036.
ASSUME EraAssumption ==
  /\ Half \in Nat /\ Delta \in Nat /\ Half < Delta /\ Delta < Era
  /\ MaxNow \in Nat /\ Seconds(MaxNow) + Delta < Era + Half
ASSUME TimeAssumption == Boots \subseteq Ticks .. MaxNow /\ HandTimes \subseteq Nat
ASSUME AnswerAssumption == NoServer \notin NtpServers /\ MaxAnswers \in Nat

VARIABLES
  now,          \* the true time
  boot,         \* time_us_64 counts from here
  ntp_pcb,      \* the client has its control block
  ntp_server_address,
  dns,          \* lwIP's entry for the name: none, asking, or cached
  cached,       \* the address in it
  asked,        \* servers that have been sent a request
  answers,      \* answers on their way: who sent them, and when
  ntp_time, local_time,
  set_by,       \* who set the clock last
  set_to,       \* the time it was set to
  set_at        \* the true time then

lookup  == <<ntp_pcb, ntp_server_address, dns, cached, asked>>
clock   == <<ntp_time, local_time, set_by, set_to, set_at>>
ntpVars == <<now, boot, lookup, answers, clock>>

Answers == [from : NtpServers, at : Ticks .. MaxNow]
Address == NtpServers \cup {NoServer}

\* time_us_64() / 1000000.
Uptime == Seconds(now - boot)

NtpTypeOK ==
  /\ now \in Ticks .. MaxNow /\ boot \in Ticks .. now
  /\ ntp_pcb \in BOOLEAN /\ ntp_server_address \in Address
  /\ dns \in {"none", "asking", "cached"} /\ cached \in Address
  /\ asked \subseteq NtpServers /\ answers \subseteq Answers
  /\ ntp_time \in Nat /\ local_time \in 0 .. Uptime
  /\ set_by \in {"nobody", "hand", "network"} /\ set_to \in Nat /\ set_at \in boot .. now

NtpInit ==
  /\ now \in Boots /\ boot = now
  /\ ntp_pcb = FALSE /\ ntp_server_address = NoServer /\ dns = "none" /\ cached = NoServer
  /\ asked = {} /\ answers = {}
  /\ ntp_time = 0 /\ local_time = 0 /\ set_by = "nobody"
  /\ set_to = 0 /\ set_at = boot

-----------------------------------------------------------------------------
(* Looking the server up and asking it.                                    *)

Tick ==
  /\ now < MaxNow /\ now' = now + 1
  /\ UNCHANGED <<boot, lookup, answers, clock>>

\* update_time.  Without a control block it returns; a cached address is stored
\* and nothing more; else a callback is queued, also while others wait.
UpdateTime ==
  /\ ntp_pcb' \in {ntp_pcb, TRUE}
  /\ IF ~ntp_pcb' THEN UNCHANGED <<ntp_server_address, dns>>
     ELSE IF dns = "cached" THEN ntp_server_address' = cached /\ dns' = dns
     ELSE dns' = "asking" /\ UNCHANGED ntp_server_address
  /\ UNCHANGED <<now, boot, cached, asked, answers, clock>>

\* ntp_dns_found, once for each queued callback: ntp_request.
DnsFound(s) ==
  /\ dns = "asking" /\ dns' = "cached" /\ cached' = s
  /\ ntp_server_address' = s /\ asked' = asked \cup {s}
  /\ UNCHANGED <<now, boot, ntp_pcb, answers, clock>>
DnsFailed ==
  /\ dns = "asking" /\ dns' = "none"
  /\ UNCHANGED <<now, boot, ntp_pcb, ntp_server_address, cached, asked, answers, clock>>
\* The time to live of the answer ends.
Expire ==
  /\ dns = "cached" /\ dns' = "none"
  /\ UNCHANGED <<now, boot, ntp_pcb, ntp_server_address, cached, asked, answers, clock>>

-----------------------------------------------------------------------------
(* Answers.                                                                *)

Answer(s) ==
  /\ s \in asked /\ Cardinality(answers) < MaxAnswers
  /\ answers' = answers \cup {[from |-> s, at |-> now]}
  /\ UNCHANGED <<now, boot, lookup, clock>>
Lose(a) ==
  /\ a \in answers /\ answers' = answers \ {a}
  /\ UNCHANGED <<now, boot, lookup, clock>>

\* The seconds a server puts into its answer, which has room for an era; their
\* fraction follows in a field of its own, which the device ignores.
Sent(t) == (Seconds(t) + Delta) % Era
\* The first byte is shifted as an int, so the upper half of an era is negative.
AsInt(raw) == IF raw >= Half THEN raw - Era ELSE raw
MutantSignOnly(raw) == (IF AsInt(raw) < 0 THEN AsInt(raw) + Era ELSE raw) - Delta
Since1970(raw) ==
  LET since1900 == AsInt(raw) IN
    (IF since1900 < Delta THEN since1900 + Era ELSE since1900) - Delta

Set(t) == local_time' = Uptime /\ ntp_time' = t

\* ntp_recv: only the address looked up last may answer; the rest is dropped.
\* The datagram may come again.
Recv(a) ==
  /\ a \in answers /\ a.from = ntp_server_address
  /\ Set(Since1970(Sent(a.at)))
  /\ set_by' = "network" /\ set_to' = a.at /\ set_at' = now
  /\ UNCHANGED <<now, boot, lookup, answers>>
\* set_time_since_epoch.
SetTime(t) ==
  /\ Set(t) /\ set_by' = "hand" /\ set_to' = t * Ticks /\ set_at' = now
  /\ UNCHANGED <<now, boot, lookup, answers>>

-----------------------------------------------------------------------------
NtpNext ==
  \/ Tick \/ UpdateTime \/ DnsFailed \/ Expire
  \/ \E s \in NtpServers : DnsFound(s) \/ Answer(s)
  \/ \E a \in answers : Lose(a) \/ Recv(a)
  \/ \E t \in HandTimes : SetTime(t)

NtpSpec == NtpInit /\ [][NtpNext]_ntpVars

-----------------------------------------------------------------------------
(* Properties.                                                             *)

\* get_time_since_epoch.
MutantSinceBoot == ntp_time + Uptime
Time == ntp_time + Uptime - local_time
\* get_time answers an error as long as this is false.
ServesTime == ntp_time # 0

\* What a clock that keeps fractions would show, set as this one was.
Exact == set_to + (now - set_at)

\* The clock stays within a second before and two seconds after the exact one,
\* however often it is set and across the era that ends in 2036: the fractions
\* of the answer, of the uptime when it came and of the uptime now are dropped.
\* Set by the network, whatever a browser or an older server set before, it is
\* served, and what it was set to is not in the future: only the fractions let
\* it run ahead of the true time, by less than a second.
ClockTracks ==
  /\ set_by # "nobody" =>
       /\ Time * Ticks < Exact + Ticks
       /\ Time * Ticks > Exact - 2 * Ticks
  /\ set_by = "network" => ServesTime /\ Exact <= now
=============================================================================
