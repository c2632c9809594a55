---------------------------- MODULE Network_proofs ----------------------------
(***************************************************************************)
(* Proofs about the DNS server, the clock, the access point and the list   *)
(* of networks, each for its own specification and for the instance that   *)
(* runs them in turn.                                                      *)
(***************************************************************************)
EXTENDS MCNetwork, FiniteSetTheorems, TLAPS

-----------------------------------------------------------------------------
(* The DNS server.                                                         *)

DnsInv == DnsTypeOK /\ DnsReplyFits

LEMMA DnsInitial == DnsInit => DnsInv
  BY BufferAssumption DEF DnsInit, DnsInv, DnsTypeOK, DnsReplyFits

LEMMA DnsStep == DnsInv /\ [DnsNext]_dnsVars => DnsInv'
<1> SUFFICES ASSUME DnsInv, [DnsNext]_dnsVars PROVE DnsInv'
  OBVIOUS
<1> USE BufferAssumption, DatagramAssumption DEF DnsInv, DnsTypeOK, DnsReplyFits
<1>1. CASE \E n \in Datagrams : Query(n)
  BY <1>1, SMT DEF Query
<1>2. CASE \E n \in Labels : Label(n)
  BY <1>2 DEF Label, InQuery
<1>3. CASE \E n \in Labels : InvalidLabel(n)
  BY <1>3 DEF InvalidLabel, Back
<1>4. CASE EndOfName
  BY <1>4 DEF EndOfName, InQuery
<1>5. CASE EndOfQuery
  BY <1>5 DEF EndOfQuery
<1>6. CASE InvalidLength
  BY <1>6 DEF InvalidLength, Back
<1>7. CASE WriteAnswer
  BY <1>7 DEF WriteAnswer, TooLong, Fixed, Record
<1>8. CASE Reply
  BY <1>8 DEF Reply, Back
<1>9. CASE UNCHANGED dnsVars
  BY <1>9 DEF dnsVars
<1> QED
  BY <1>1, <1>2, <1>3, <1>4, <1>5, <1>6, <1>7, <1>8, <1>9 DEF DnsNext

\* Whatever a query has, the answer stays within the buffer: the check of the
\* name's length alone is enough, for every buffer with room for the longest.
THEOREM AnswersFit == DnsSpec => []DnsReplyFits
<1>1. DnsInv => DnsReplyFits
  BY DEF DnsInv
<1> QED
  BY <1>1, DnsInitial, DnsStep, PTL DEF DnsSpec

-----------------------------------------------------------------------------
(* The clock.                                                              *)

\* Whole seconds of ticks: how far they are from them, and their order.
LEMMA SecondsBounds ==
  ASSUME NEW n \in Nat
  PROVE  Seconds(n) \in Nat /\ Seconds(n) * Ticks <= n /\ n < Seconds(n) * Ticks + Ticks
  BY TickAssumption DEF Seconds

LEMMA SecondsMonotonic ==
  ASSUME NEW m \in Nat, NEW n \in Nat, m <= n PROVE Seconds(m) <= Seconds(n)
  BY TickAssumption DEF Seconds

LEMMA SecondsExact ==
  ASSUME NEW n \in Nat PROVE n * Ticks \in Nat /\ Seconds(n * Ticks) = n
  BY TickAssumption DEF Seconds

\* What ntp_recv makes of the timestamp is the second it was sent in, before the
\* end of the era and in the first half of the next one.
LEMMA EraCorrect ==
  ASSUME NEW n \in Ticks .. MaxNow PROVE Since1970(Sent(n)) = Seconds(n)
<1> USE EraAssumption DEF Era
<1> DEFINE t == Seconds(n)
<1>0. n \in Nat /\ Seconds(n) \in Nat /\ Seconds(n) <= Seconds(MaxNow) /\ Seconds(MaxNow) \in Nat
  BY TickAssumption, SecondsBounds, SecondsMonotonic
<1>1. t \in Nat /\ t + Delta < Era + Half /\ t + Delta \in Nat /\ Era \in Nat /\ Era > 0
  BY <1>0
<1> HIDE DEF t
<1>a. Sent(n) = (t + Delta) % Era
  BY DEF Sent, t
<1>2. CASE t + Delta < Era
  <2>1. Sent(n) = t + Delta
    BY <1>1, <1>2, <1>a
  <2>2. AsInt(Sent(n)) = t + Delta - Era
    BY <1>1, <2>1 DEF AsInt
  <2> QED
    BY <1>1, <1>2, <2>2 DEF Since1970, t
<1>3. CASE t + Delta >= Era
  <2>1. Sent(n) = t + Delta - Era
    <3>1. /\ t + Delta - Era \in Int
          /\ 0 <= t + Delta - Era /\ t + Delta - Era < Era
          /\ t + Delta = 1 * Era + (t + Delta - Era)
      BY <1>1, <1>3
    <3> QED
      BY <1>1, <3>1, <1>a
  <2>2. AsInt(Sent(n)) = t + Delta - Era
    BY <1>1, <2>1 DEF AsInt
  <2> QED
    BY <1>1, <1>3, <2>2 DEF Since1970, t
<1> QED
  BY <1>1, <1>2, <1>3 DEF t

\* An answer on its way was sent no later than now.
Past(a) == a.at <= now
\* What the clock keeps are the whole seconds of what it was set to and of the
\* uptime then.
ClockParts ==
  /\ ntp_time = Seconds(set_to) /\ local_time = Seconds(set_at - boot)
  /\ set_by = "network" => set_to \in Ticks .. set_at
NtpInv == NtpTypeOK /\ ClockParts /\ \A a \in answers : Past(a)

LEMMA NtpInitial == NtpInit => NtpInv
<1> SUFFICES ASSUME NtpInit PROVE NtpInv
  OBVIOUS
<1>1. now \in Ticks .. MaxNow /\ boot \in Ticks .. now /\ set_at \in boot .. now
  BY TimeAssumption, EraAssumption, TickAssumption DEF NtpInit
<1>2. Seconds(0) = 0 /\ set_at - boot = 0 /\ now - boot = 0
  BY <1>1, TickAssumption, SecondsExact DEF NtpInit
<1>3. NtpTypeOK
  <2>1. local_time \in 0 .. Uptime
    BY <1>2 DEF NtpInit, Uptime
  <2>2. ntp_time \in Nat /\ set_to \in Nat
    BY DEF NtpInit
  <2>3. asked \subseteq NtpServers /\ answers \subseteq Answers
    BY DEF NtpInit
  <2> QED
    BY <1>1, <2>1, <2>2, <2>3, Zenon DEF NtpInit, NtpTypeOK, Address
<1>4. ClockParts
  BY <1>2 DEF NtpInit, ClockParts
<1> QED
  BY <1>3, <1>4 DEF NtpInit, NtpInv, Past

\* What a step that sets the clock, or leaves it and the time alone, keeps.
LEMMA ClockSet ==
  ASSUME NtpInv, now' = now, boot' = boot, NEW t \in Nat, Set(t),
         set_to' \in Nat, t = Seconds(set_to'), set_at' = now,
         set_by' \in {"hand", "network"}, set_by' = "network" => set_to' \in Ticks .. now,
         UNCHANGED <<lookup>>, UNCHANGED answers
  PROVE  NtpInv'
<1>1. now - boot \in Nat /\ boot \in Nat /\ now \in Nat
  BY TickAssumption DEF NtpInv, NtpTypeOK
<1>2. Uptime \in Nat /\ Uptime' = Uptime
  BY <1>1, SecondsBounds DEF Uptime
<1>3. NtpTypeOK'
  BY <1>1, <1>2 DEF NtpInv, NtpTypeOK, Set, lookup
<1>4. ClockParts'
  BY DEF Set, ClockParts, Uptime
<1> QED
  BY <1>3, <1>4 DEF NtpInv, Past

LEMMA ClockKept ==
  ASSUME NtpInv, NtpTypeOK', UNCHANGED <<boot, clock>>, \A a \in answers' : Past(a)'
  PROVE  NtpInv'
  BY DEF NtpInv, ClockParts, clock

LEMMA NtpStep == NtpInv /\ [NtpNext]_ntpVars => NtpInv'
<1> SUFFICES ASSUME NtpInv, [NtpNext]_ntpVars PROVE NtpInv'
  OBVIOUS
<1> USE EraAssumption, TimeAssumption, TickAssumption DEF NtpInv, Past
<1>0. /\ now \in Nat /\ boot \in Nat /\ now - boot \in Nat /\ Uptime \in Nat
      /\ \A a \in answers : a.at \in Ticks .. MaxNow /\ a.at <= now
  BY SecondsBounds DEF NtpTypeOK, Uptime, Answers
<1>1. CASE Tick
  <2>1. /\ now' = now + 1 /\ boot' = boot /\ answers' = answers /\ UNCHANGED <<lookup, clock>>
        /\ now' \in Ticks .. MaxNow
    BY <1>1 DEF Tick, NtpTypeOK
  <2>2. Uptime' \in Nat /\ Uptime <= Uptime'
    <3>1. now' - boot' = now - boot + 1
      BY <1>0, <2>1
    <3> QED
      BY <1>0, <3>1, SecondsBounds, SecondsMonotonic DEF Uptime
  <2>3. NtpTypeOK'
    BY <1>0, <2>1, <2>2 DEF NtpTypeOK, lookup, clock
  <2> QED
    BY <1>0, <2>1, <2>3, ClockKept
<1> DEFINE Still == UNCHANGED <<now, boot, clock>>
<1>2. CASE UpdateTime
  <2>1. Still /\ answers' = answers /\ NtpTypeOK'
    BY <1>2 DEF UpdateTime, NtpTypeOK, Uptime, clock
  <2> QED
    BY <2>1, ClockKept
<1>3. CASE \E s \in NtpServers : DnsFound(s)
  <2>1. Still /\ answers' = answers /\ NtpTypeOK'
    BY <1>3 DEF DnsFound, NtpTypeOK, Uptime, clock, Address
  <2> QED
    BY <2>1, ClockKept
<1>4. CASE DnsFailed \/ Expire
  <2>1. Still /\ answers' = answers /\ NtpTypeOK'
    BY <1>4 DEF DnsFailed, Expire, NtpTypeOK, Uptime, clock
  <2> QED
    BY <2>1, ClockKept
<1>5. CASE \E s \in NtpServers : Answer(s)
  <2>1. Still /\ NtpTypeOK'
    BY <1>5 DEF Answer, Answers, NtpTypeOK, Uptime, lookup, clock
  <2>2. \A a \in answers' : a.at <= now
    BY <1>0, <1>5 DEF Answer
  <2> QED
    BY <2>1, <2>2, ClockKept
<1>6. CASE \E a \in answers : Lose(a)
  <2>1. Still /\ answers' \subseteq answers /\ NtpTypeOK'
    BY <1>6 DEF Lose, NtpTypeOK, Uptime, lookup, clock
  <2> QED
    BY <2>1, ClockKept
<1>7. CASE \E a \in answers : Recv(a)
  <2>1. PICK a \in answers : Recv(a)
    BY <1>7
  <2>2. /\ a.at \in Ticks .. now /\ a.at \in Nat /\ Since1970(Sent(a.at)) = Seconds(a.at)
        /\ Seconds(a.at) \in Nat
    BY <1>0, EraCorrect, SecondsBounds
  <2> QED
    BY <2>1, <2>2, ClockSet DEF Recv
<1>8. CASE \E t \in HandTimes : SetTime(t)
  <2>1. PICK t \in HandTimes : SetTime(t)
    BY <1>8
  <2>2. t \in Nat /\ t * Ticks \in Nat /\ Seconds(t * Ticks) = t
    BY SecondsExact
  <2> QED
    BY <2>1, <2>2, ClockSet DEF SetTime
<1>9. CASE UNCHANGED ntpVars
  <2>1. Still /\ answers' = answers /\ NtpTypeOK'
    BY <1>9 DEF ntpVars, NtpTypeOK, Uptime, lookup, clock
  <2> QED
    BY <2>1, ClockKept
<1> QED
  BY <1>1, <1>2, <1>3, <1>4, <1>5, <1>6, <1>7, <1>8, <1>9 DEF NtpNext

\* Three roundings: each is off by less than a second.
LEMMA ClockSound == NtpInv => ClockTracks
<1> SUFFICES ASSUME NtpInv PROVE ClockTracks
  OBVIOUS
<1> DEFINE a == Seconds(set_to)
           b == Seconds(now - boot)
           c == Seconds(set_at - boot)
<1>1. /\ set_to \in Nat /\ now - boot \in Nat /\ set_at - boot \in Nat
      /\ now \in Nat /\ boot \in Nat /\ set_at \in Nat
  BY TickAssumption DEF NtpInv, NtpTypeOK
<1>2. /\ a \in Nat /\ a * Ticks <= set_to /\ set_to < a * Ticks + Ticks
      /\ b \in Nat /\ b * Ticks <= now - boot /\ now - boot < b * Ticks + Ticks
      /\ c \in Nat /\ c * Ticks <= set_at - boot /\ set_at - boot < c * Ticks + Ticks
  BY <1>1, SecondsBounds
<1>3. Time = a + b - c
  BY DEF NtpInv, ClockParts, Time, Uptime
<1>4. set_by = "network" => a >= 1 /\ set_to <= set_at
  <2>1. Seconds(1 * Ticks) = 1 /\ 1 * Ticks = Ticks
    BY TickAssumption, SecondsExact
  <2> QED
    BY <1>1, <2>1, TickAssumption, SecondsMonotonic DEF NtpInv, ClockParts
<1> HIDE DEF a, b, c
<1>5. (a + b - c) * Ticks = a * Ticks + b * Ticks - c * Ticks
  BY <1>2, TickAssumption
<1>6. a * Ticks \in Nat /\ b * Ticks \in Nat /\ c * Ticks \in Nat
  BY <1>2, TickAssumption
<1>7. Time * Ticks < Exact + Ticks /\ Time * Ticks > Exact - 2 * Ticks
  BY <1>1, <1>2, <1>3, <1>5, <1>6, TickAssumption DEF Exact
<1>8. set_by = "network" => ServesTime /\ Exact <= now
  BY <1>1, <1>2, <1>4 DEF ServesTime, Exact, NtpInv, ClockParts, a
<1> QED
  BY <1>7, <1>8 DEF ClockTracks

\* The clock a browser is shown stays within a second before and two after an
\* exact one that was set as it was, and runs ahead of the true time by less than
\* a second once the network has set it, for every era and position in it.
THEOREM ClockRight == NtpSpec => []ClockTracks
  BY ClockSound, NtpInitial, NtpStep, PTL DEF NtpSpec

-----------------------------------------------------------------------------
(* The access point.                                                       *)

Two == Cardinality(Pcbs) > 1

\* A pool of more than one block is not used up by one socket.
LEMMA PoolLasts ==
  ASSUME Two, NEW p PROVE Pcbs # {} /\ Pcbs \ {p} # {}
<1>1. Cardinality({}) = 0 /\ Cardinality({p}) = 1
  BY FS_EmptySet, FS_Singleton
<1>2. Pcbs # {} /\ Pcbs # {p}
  BY <1>1 DEF Two
<1> QED
  BY <1>2

LEMMA ApTypeInitial == ApInit => ApTypeOK
<1> SUFFICES ASSUME ApInit PROVE ApTypeOK
  OBVIOUS
<1>1. apc \in [Threads -> {"idle"} \cup InitSteps \cup DeinitSteps]
  BY DEF ApInit, InitSteps
<1> QED
  BY <1>1, Zenon DEF ApInit, ApTypeOK

\* How the moves of a thread change its step.
LEMMA StepType ==
  ASSUME ApTypeOK, NEW t \in Threads, NEW to \in {"idle"} \cup InitSteps \cup DeinitSteps,
         apc' = [apc EXCEPT ![t] = to]
  PROVE  apc' \in [Threads -> {"idle"} \cup InitSteps \cup DeinitSteps] /\ apc'[t] = to
  BY Zenon DEF ApTypeOK

LEMMA ApTypeStep == ApTypeOK /\ [ApNext]_apVars => ApTypeOK'
<1> SUFFICES ASSUME ApTypeOK, [ApNext]_apVars PROVE ApTypeOK'
  OBVIOUS
<1> DEFINE Steps == {"idle"} \cup InitSteps \cup DeinitSteps
<1>a. \A x \in {"idle", "on", "newDhcp", "bindDhcp", "newDns", "bindDns", "set",
               "freeDns", "freeDhcp", "off", "unset"} : x \in Steps
  BY DEF InitSteps, DeinitSteps
<1>1. CASE Alone \/ UNCHANGED apVars
  BY <1>1, Zenon DEF Alone, apVars, sockets, ApTypeOK
<1>2. ASSUME NEW t \in Threads, NEW to \in Steps, Enter(t, to) PROVE ApTypeOK'
  <2>1. apc' \in [Threads -> Steps]
    BY <1>2, StepType DEF Enter
  <2>2. overlapped' \in BOOLEAN
    BY <1>2, Zenon DEF Enter, ApTypeOK
  <2> QED
    BY <1>2, <2>1, <2>2, Zenon DEF Enter, sockets, ApTypeOK
<1>3. ASSUME NEW t \in Threads, InitStep(t) \/ DeinitStep(t) PROVE ApTypeOK'
  <2>1. ASSUME NEW from, NEW to \in Steps, ApStep(t, from, to)
        PROVE  apc' \in [Threads -> Steps] /\ alone' \in BOOLEAN /\ overlapped' \in BOOLEAN
    <3>1. apc' \in [Threads -> Steps]
      BY <2>1, StepType DEF ApStep
    <3> QED
      BY <2>1, <3>1, Zenon DEF ApStep, ApTypeOK
  <2>2. ASSUME NEW s \in Servers, NEW from, NEW bind \in Steps, NEW skip \in Steps,
               NewSocket(t, s, from, bind, skip)
        PROVE  ApTypeOK'
    <3>1. CASE ApStep(t, from, skip) /\ udp' = [udp EXCEPT ![s] = NoUdp]
               /\ UNCHANGED <<active, ap_mode, taken, bound>>
      BY <2>1, <3>1 DEF ApTypeOK
    <3>2. ASSUME NEW p \in Pcbs, ApStep(t, from, bind), udp' = [udp EXCEPT ![s] = p],
                 taken' = taken \cup {p}, UNCHANGED <<active, ap_mode, bound>>
          PROVE  ApTypeOK'
      BY <2>1, <3>2 DEF ApTypeOK
    <3> QED
      BY <2>2, <3>1, <3>2 DEF NewSocket
  <2>3. ASSUME NEW s \in Servers, NEW from, NEW to \in Steps, BindSocket(t, s, from, to)
        PROVE  ApTypeOK'
    BY <2>1, <2>3 DEF BindSocket, ApTypeOK
  <2>4. ASSUME NEW s \in Servers, NEW from, NEW to \in Steps, FreeSocket(t, s, from, to)
        PROVE  ApTypeOK'
    BY <2>1, <2>4 DEF FreeSocket, Removed, ApTypeOK
  <2>5. ASSUME NEW on \in BOOLEAN, NEW from, NEW to \in Steps, Mode(t, on, from, to)
        PROVE  ApTypeOK'
    BY <2>1, <2>5, Zenon DEF Mode, sockets, ApTypeOK
  <2>6. ASSUME NEW on \in BOOLEAN, NEW from, SetActive(t, on, from) PROVE ApTypeOK'
    BY <1>a, <2>1, <2>6, Zenon DEF SetActive, NewActive, sockets, ApTypeOK
  <2>7. "dhcp" \in Servers /\ "dns" \in Servers
    BY DEF Servers
  <2>8. CASE InitStep(t)
    BY <1>a, <2>2, <2>3, <2>5, <2>6, <2>7, <2>8, Zenon DEF InitStep
  <2>9. CASE DeinitStep(t)
    BY <1>a, <2>4, <2>5, <2>6, <2>7, <2>9, Zenon DEF DeinitStep
  <2> QED
    BY <1>3, <2>8, <2>9
<1> QED
  BY <1>a, <1>1, <1>2, <1>3, Zenon DEF ApNext, CallInit, CallDeinit

\* What the only thread inside a call has done by the time of each step; "idle"
\* when no thread is inside.
HasDhcp(st) == IF st = "idle" THEN active
               ELSE st \in {"bindDhcp", "newDns", "bindDns", "set", "freeDns", "freeDhcp"}
HasDns(st)  == IF st = "idle" THEN active ELSE st \in {"bindDns", "set", "freeDns"}
Radio(st)   == IF st = "idle" THEN active ELSE st \notin {"on", "unset"}
Stage(st) ==
  /\ st \in InitSteps => ~active
  /\ st \in DeinitSteps => active
  /\ ap_mode <=> Radio(st)
  /\ udp["dhcp"] # NoUdp <=> HasDhcp(st)
  /\ udp["dns"] # NoUdp <=> HasDns(st)
  /\ bound["dhcp"] = IF st = "bindDhcp" THEN NoUdp ELSE udp["dhcp"]
  /\ bound["dns"] = IF st = "bindDns" THEN NoUdp ELSE udp["dns"]
  /\ taken = {udp["dhcp"], udp["dns"]} \ {NoUdp}
  /\ udp["dhcp"] = udp["dns"] => udp["dhcp"] = NoUdp

OnlyOne == \A t, u \in Threads : Inside(t) /\ Inside(u) => t = u
Alike(t) == (\A u \in Threads \ {t} : ~Inside(u)) => Stage(apc[t])
ApInv ==
  ApTypeOK /\ (Two /\ ~overlapped => OnlyOne /\ \A t \in Threads : Alike(t))

LEMMA StageInitial == ApInit => ApInv
<1> SUFFICES ASSUME ApInit PROVE ApInv
  OBVIOUS
<1>1. \A t \in Threads : apc[t] = IF t = Wifi THEN apc[Wifi] ELSE "idle"
  BY DEF ApInit, Threads
<1>2. OnlyOne
  BY <1>1 DEF OnlyOne, Inside
<1>3. \A t \in Threads : apc[t] \in {"idle", "on"}
  BY DEF ApInit
<1>4. Stage("idle") /\ Stage("on")
  BY DEF ApInit, Stage, HasDhcp, HasDns, Radio, InitSteps, DeinitSteps, Servers
<1> QED
  BY <1>2, <1>3, <1>4, ApTypeInitial DEF ApInv, Alike

\* A call that begins.
LEMMA StageEnter ==
  ASSUME NEW t \in Threads, ApTypeOK, Stage("idle"), CallInit(t) \/ CallDeinit(t)
  PROVE  Stage(apc[t])'
<1>1. CASE CallInit(t)
  <2>1. apc'[t] = "on" /\ ~active
    BY <1>1 DEF CallInit, Enter, ApTypeOK
  <2> QED
    BY <1>1, <2>1 DEF CallInit, Enter, sockets, Stage, HasDhcp, HasDns, Radio,
       InitSteps, DeinitSteps
<1>2. CASE CallDeinit(t)
  <2>1. apc'[t] = "freeDns" /\ active
    BY <1>2 DEF CallDeinit, Enter, ApTypeOK
  <2> QED
    BY <1>2, <2>1 DEF CallDeinit, Enter, sockets, Stage, HasDhcp, HasDns, Radio,
       InitSteps, DeinitSteps
<1> QED
  BY <1>1, <1>2

\* A call that goes on.
LEMMA StageMoves ==
  ASSUME NEW t \in Threads, Two, ApTypeOK, Stage(apc[t]), InitStep(t) \/ DeinitStep(t)
  PROVE  Stage(apc[t])'
<1> DEFINE Steps == {"idle"} \cup InitSteps \cup DeinitSteps
<1> USE DEF Stage, HasDhcp, HasDns, Radio, InitSteps, DeinitSteps
<1>a. ASSUME NEW from, NEW to, ApStep(t, from, to) PROVE apc[t] = from /\ apc'[t] = to
  BY <1>a DEF ApStep, ApTypeOK
<1>b. NoUdp \notin Pcbs /\ taken \subseteq Pcbs
  BY UdpAssumption DEF ApTypeOK
<1>c. udp["dhcp"] \in Pcbs \cup {NoUdp} /\ udp["dns"] \in Pcbs \cup {NoUdp}
  BY DEF ApTypeOK, Servers
<1>1. CASE Mode(t, TRUE, "on", "newDhcp")
  BY <1>1, <1>a DEF Mode, sockets
<1>2. CASE NewSocket(t, "dhcp", "newDhcp", "bindDhcp", "newDns")
  <2>1. apc[t] = "newDhcp"
    BY <1>2, <1>a DEF NewSocket
  <2>2. taken = {}
    BY <2>1
  <2>3. Pcbs \ taken # {}
    BY <2>2, PoolLasts
  <2>4. PICK p \in Pcbs \ taken :
          /\ ApStep(t, "newDhcp", "bindDhcp")
          /\ udp' = [udp EXCEPT !["dhcp"] = p] /\ taken' = taken \cup {p}
          /\ UNCHANGED <<active, ap_mode, bound>>
    BY <1>2, <2>3 DEF NewSocket
  <2>5. apc'[t] = "bindDhcp"
    BY <2>4, <1>a
  <2>6. udp'["dhcp"] = p /\ udp'["dns"] = udp["dns"] /\ p # NoUdp
    BY <2>4, <1>b DEF ApTypeOK, Servers
  <2> QED
    BY <2>1, <2>2, <2>4, <2>5, <2>6
<1>3. CASE BindSocket(t, "dhcp", "bindDhcp", "newDns")
  <2>1. apc[t] = "bindDhcp" /\ apc'[t] = "newDns"
    BY <1>3, <1>a DEF BindSocket
  <2>2. bound'["dhcp"] = udp["dhcp"] /\ bound'["dns"] = bound["dns"]
    BY <1>3, <2>1 DEF BindSocket, ApTypeOK, Servers
  <2> QED
    BY <1>3, <2>1, <2>2 DEF BindSocket
<1>4. CASE NewSocket(t, "dns", "newDns", "bindDns", "set")
  <2>1. apc[t] = "newDns"
    BY <1>4, <1>a DEF NewSocket
  <2>2. taken = {udp["dhcp"]}
    BY <2>1
  <2>3. Pcbs \ taken # {}
    BY <2>2, PoolLasts
  <2>4. PICK p \in Pcbs \ taken :
          /\ ApStep(t, "newDns", "bindDns")
          /\ udp' = [udp EXCEPT !["dns"] = p] /\ taken' = taken \cup {p}
          /\ UNCHANGED <<active, ap_mode, bound>>
    BY <1>4, <2>3 DEF NewSocket
  <2>5. apc'[t] = "bindDns"
    BY <2>4, <1>a
  <2>6. udp'["dns"] = p /\ udp'["dhcp"] = udp["dhcp"] /\ p # NoUdp
    BY <2>4, <1>b DEF ApTypeOK, Servers
  <2> QED
    BY <2>1, <2>2, <2>4, <2>5, <2>6
<1>5. CASE BindSocket(t, "dns", "bindDns", "set")
  <2>1. apc[t] = "bindDns" /\ apc'[t] = "set"
    BY <1>5, <1>a DEF BindSocket
  <2>2. bound'["dns"] = udp["dns"] /\ bound'["dhcp"] = bound["dhcp"]
    BY <1>5, <2>1 DEF BindSocket, ApTypeOK, Servers
  <2> QED
    BY <1>5, <2>1, <2>2 DEF BindSocket
<1>6. CASE SetActive(t, TRUE, "set")
  BY <1>6, <1>a DEF SetActive, NewActive, sockets
<1>7. CASE FreeSocket(t, "dns", "freeDns", "freeDhcp")
  <2>1. apc[t] = "freeDns" /\ apc'[t] = "freeDhcp"
    BY <1>7, <1>a DEF FreeSocket
  <2>2. udp'["dns"] = NoUdp /\ udp'["dhcp"] = udp["dhcp"]
    BY <1>7 DEF FreeSocket, Removed, ApTypeOK, Servers
  <2>3. bound'["dns"] = NoUdp /\ bound'["dhcp"] = udp["dhcp"]
    BY <1>7, <2>1 DEF FreeSocket, Removed, ApTypeOK, Servers
  <2> QED
    BY <1>7, <2>1, <2>2, <2>3 DEF FreeSocket, Removed
<1>8. CASE FreeSocket(t, "dhcp", "freeDhcp", "off")
  <2>1. apc[t] = "freeDhcp" /\ apc'[t] = "off"
    BY <1>8, <1>a DEF FreeSocket
  <2>2. udp'["dhcp"] = NoUdp /\ udp'["dns"] = udp["dns"]
    BY <1>8 DEF FreeSocket, Removed, ApTypeOK, Servers
  <2>3. bound'["dhcp"] = NoUdp /\ bound'["dns"] = NoUdp
    BY <1>8, <2>1 DEF FreeSocket, Removed, ApTypeOK, Servers
  <2> QED
    BY <1>8, <2>1, <2>2, <2>3 DEF FreeSocket, Removed
<1>9. CASE Mode(t, FALSE, "off", "unset")
  BY <1>9, <1>a DEF Mode, sockets
<1>10. CASE SetActive(t, FALSE, "unset")
  BY <1>10, <1>a DEF SetActive, NewActive, sockets
<1> QED
  BY <1>1, <1>2, <1>3, <1>4, <1>5, <1>6, <1>7, <1>8, <1>9, <1>10, Zenon DEF InitStep, DeinitStep

LEMMA StageStep == ApInv /\ [ApNext]_apVars => ApInv'
<1> SUFFICES ASSUME ApInv, [ApNext]_apVars, Two, ~overlapped'
             PROVE  OnlyOne' /\ \A t \in Threads : Alike(t)'
  BY ApTypeStep, Zenon DEF ApInv, Two
<1>1. CASE Alone \/ UNCHANGED apVars
  <2>1. ~overlapped /\ apc' = apc /\ active' = active /\ ap_mode' = ap_mode
        /\ udp' = udp /\ taken' = taken /\ bound' = bound
    BY <1>1 DEF Alone, apVars, sockets
  <2> QED
    BY <2>1 DEF ApInv, OnlyOne, Alike, Inside, Stage, HasDhcp, HasDns, Radio
<1>2. ASSUME NEW t \in Threads, CallInit(t) \/ CallDeinit(t)
      PROVE  OnlyOne' /\ \A v \in Threads : Alike(v)'
  <2>1. PICK to \in {"on", "freeDns"} : Enter(t, to)
    BY <1>2 DEF CallInit, CallDeinit
  <2>2. ~overlapped /\ (\A u \in Threads : apc[u] = "idle") /\ ApTypeOK
    BY <2>1 DEF Enter, Inside, ApInv
  <2>3. Stage(apc[t])'
    <3>1. Stage("idle")
      BY <2>2 DEF ApInv, Alike, Inside
    <3> QED
      BY <1>2, <2>2, <3>1, StageEnter
  <2>4. apc'[t] = to /\ \A u \in Threads \ {t} : apc'[u] = "idle"
    BY <2>1, <2>2 DEF Enter, ApTypeOK
  <2> QED
    BY <2>3, <2>4 DEF OnlyOne, Alike, Inside
<1>3. ASSUME NEW t \in Threads, InitStep(t) \/ DeinitStep(t)
      PROVE  OnlyOne' /\ \A v \in Threads : Alike(v)'
  <2>1. PICK from \in InitSteps \cup DeinitSteps, to \in InitSteps \cup DeinitSteps \cup {"idle"} : ApStep(t, from, to)
    BY <1>3 DEF InitStep, DeinitStep, Mode, NewSocket, BindSocket, SetActive, FreeSocket,
       InitSteps, DeinitSteps
  <2>2. ~overlapped /\ ApTypeOK /\ OnlyOne /\ Inside(t)
    BY <2>1 DEF ApStep, ApInv, Inside, InitSteps, DeinitSteps
  <2>3. \A u \in Threads \ {t} : apc[u] = "idle" /\ apc'[u] = "idle"
    BY <2>1, <2>2 DEF OnlyOne, Inside, ApStep, ApTypeOK
  <2>4. Stage(apc[t])'
    <3>1. Stage(apc[t])
      BY <2>2, <2>3 DEF ApInv, Alike, Inside
    <3> QED
      BY <1>3, <2>2, <3>1, StageMoves
  <2>5. \A v \in Threads : Alike(v)'
    BY <2>3, <2>4 DEF Alike, Inside
  <2> QED
    BY <2>3, <2>5 DEF OnlyOne, Inside
<1> QED
  BY <1>1, <1>2, <1>3, Zenon DEF ApNext

\* With a pool of any size but one, `active`, the radio, the two sockets and the
\* pool agree whenever no call is in progress and none have met.
LEMMA StageSound == ApInv => ApUpWhenActive
<1> SUFFICES ASSUME ApInv, ~overlapped, \A t \in Threads : ~Inside(t), Two
             PROVE  /\ ap_mode = active
                    /\ \A s \in Servers :
                         IF active THEN Up(s) ELSE udp[s] = NoUdp /\ bound[s] = NoUdp
                    /\ taken = {udp[s] : s \in Servers} \ {NoUdp}
  BY DEF ApUpWhenActive, Two
<1>1. Stage("idle")
  BY DEF ApInv, Alike, Inside, Threads
<1>2. ap_mode = active
  BY <1>1, Zenon DEF Stage, Radio, ApInv, ApTypeOK
<1>3. \A s \in Servers : IF active THEN Up(s) ELSE udp[s] = NoUdp /\ bound[s] = NoUdp
  BY <1>1 DEF Stage, HasDhcp, HasDns, Up, Servers
<1>4. taken = {udp[s] : s \in Servers} \ {NoUdp}
  BY <1>1 DEF Stage, Servers
<1> QED
  BY <1>2, <1>3, <1>4

\* `active` says what the device does, for any number of threads and any pool.
THEOREM AccessPointAgrees == ApSpec => []ApUpWhenActive
BY StageInitial, StageStep, StageSound, PTL DEF ApSpec

\* The steps left until the access point is up, when the thread that is inside a
\* call is at st: what is left of its init, or of its deinit and the init that
\* follows it.
LeftAt(st) ==
  CASE st = "idle"    -> (IF active THEN 0 ELSE 7)
    [] st = "on"      -> 6 [] st = "newDhcp" -> 5 [] st = "bindDhcp" -> 4
    [] st = "newDns"  -> 3 [] st = "bindDns" -> 2 [] st = "set" -> 1
    [] st = "freeDns" -> 11 [] st = "freeDhcp" -> 10 [] st = "off" -> 9 [] st = "unset" -> 8
Acting == CHOOSE t \in Threads : Inside(t)
UpLeft == IF \A t \in Threads : ~Inside(t) THEN LeftAt("idle") ELSE LeftAt(apc[Acting])
Working == ap_mode /\ \A s \in Servers : Up(s)

\* Without WiFi, while the access point is not up and calls have not met: a
\* thread is inside a call, or the task is about to make one; each step of a
\* thread that the scheduler owes brings the access point nearer, and nothing
\* that the others do puts it off.
ComesUpBounded ==
  [][Two /\ alone /\ ~overlapped' /\ ~Working =>
       /\ (\E t \in Threads : Inside(t)) \/ ~active
       /\ UpLeft \in 1 .. 11 /\ UpLeft' <= UpLeft
       /\ (\E t \in Threads : ApRuns(t)) => UpLeft' < UpLeft]_apVars

LEMMA UpLeftIs ==
  ASSUME OnlyOne, NEW t \in Threads, Inside(t) PROVE UpLeft = LeftAt(apc[t])
<1>1. Acting \in Threads /\ Inside(Acting)
  BY DEF Acting
<1>2. Acting = t
  BY <1>1 DEF OnlyOne
<1> QED
  BY <1>2 DEF UpLeft

LEMMA UpLeftNext ==
  ASSUME OnlyOne', NEW t \in Threads, Inside(t)' PROVE UpLeft' = LeftAt(apc[t])'
<1>1. Acting' \in Threads /\ apc'[Acting'] # "idle"
  BY DEF Acting, Inside
<1>2. Acting' = t
  BY <1>1 DEF OnlyOne, Inside
<1> QED
  BY <1>2 DEF UpLeft, Inside, LeftAt

LEMMA ComesUpStep ==
  ASSUME ApInv, [ApNext]_apVars, Two, alone, ~overlapped', ~Working
  PROVE  /\ (\E t \in Threads : Inside(t)) \/ ~active
         /\ UpLeft \in 1 .. 11 /\ UpLeft' <= UpLeft
         /\ (\E t \in Threads : ApRuns(t)) => UpLeft' < UpLeft
<1> DEFINE Steps == InitSteps \cup DeinitSteps
<1>0. ApInv' /\ ~overlapped
  <2>1. ~overlapped
    BY DEF ApNext, Alone, apVars, CallInit, CallDeinit, Enter, InitStep, DeinitStep, Mode, NewSocket,
       BindSocket, FreeSocket, SetActive, ApStep
  <2> QED
    BY <2>1, StageStep
<1>1. /\ OnlyOne /\ OnlyOne' /\ (\A t \in Threads : Alike(t)) /\ ApTypeOK
      /\ apc \in [Threads -> {"idle"} \cup Steps]
  BY <1>0 DEF ApInv, Two, ApTypeOK
<1>2. ASSUME \A t \in Threads : ~Inside(t) PROVE ~active
  <2>1. Stage("idle")
    BY <1>1, <1>2 DEF Alike, Inside, Threads
  <2> QED
    BY <2>1 DEF Stage, Radio, HasDhcp, HasDns, Working, Up, Servers
<1>3. UpLeft \in 1 .. 11
  <2>1. CASE \A t \in Threads : ~Inside(t)
    BY <1>2, <2>1 DEF UpLeft, LeftAt
  <2>2. ASSUME NEW t \in Threads, Inside(t) PROVE UpLeft \in 1 .. 11
    <3>1. UpLeft = LeftAt(apc[t]) /\ apc[t] \in Steps
      BY <1>1, <2>2, UpLeftIs DEF Inside
    <3> QED
      BY <3>1 DEF LeftAt, InitSteps, DeinitSteps
  <2> QED
    BY <2>1, <2>2
<1>4. ASSUME NEW t \in Threads, CallInit(t) \/ CallDeinit(t) PROVE UpLeft' < UpLeft
  <2>1. PICK to \in {"on", "freeDns"} : Enter(t, to)
    BY <1>4 DEF CallInit, CallDeinit
  <2>2. \A u \in Threads : ~Inside(u)
    BY <2>1 DEF Enter
  <2>3. ~active /\ UpLeft = 7
    BY <1>2, <2>2 DEF UpLeft, LeftAt
  <2>4. CallInit(t)
    BY <1>4, <2>3 DEF CallDeinit
  <2>5. apc'[t] = "on" /\ Inside(t)'
    BY <1>1, <2>4 DEF CallInit, Enter, Inside
  <2>6. UpLeft' = LeftAt(apc[t])'
    BY <1>1, <2>5, UpLeftNext
  <2>7. UpLeft' = 6
    BY <2>5, <2>6 DEF LeftAt
  <2> QED
    BY <2>3, <2>7
<1>5. ASSUME NEW t \in Threads, InitStep(t) \/ DeinitStep(t) PROVE UpLeft' < UpLeft
  <2> DEFINE Move(from, to) == apc[t] = from /\ apc' = [apc EXCEPT ![t] = to]
  <2>1. \/ Move("on", "newDhcp") \/ Move("newDhcp", "bindDhcp") \/ Move("newDhcp", "newDns")
        \/ Move("bindDhcp", "newDns") \/ Move("newDns", "bindDns") \/ Move("newDns", "set")
        \/ Move("bindDns", "set") \/ (Move("set", "idle") /\ active')
        \/ Move("freeDns", "freeDhcp") \/ Move("freeDhcp", "off") \/ Move("off", "unset")
        \/ (Move("unset", "idle") /\ ~active')
    BY <1>5, Zenon DEF InitStep, DeinitStep, Mode, NewSocket, BindSocket, SetActive, NewActive, FreeSocket, ApStep
  <2> HIDE DEF Move
  <2>2. ASSUME NEW from, NEW to, Move(from, to) PROVE apc[t] = from /\ apc'[t] = to /\ apc' = [apc EXCEPT ![t] = to]
    BY <1>1, <2>2 DEF Move
  <2>3. Inside(t) /\ apc[t] \in Steps
    BY <1>1, <2>1, <2>2 DEF Inside
  <2>4. UpLeft = LeftAt(apc[t])
    BY <1>1, <2>3, UpLeftIs
  <2>5. apc'[t] # "idle" => UpLeft' = LeftAt(apc[t])'
    BY <1>1, UpLeftNext DEF Inside
  <2>6. apc'[t] = "idle" => UpLeft' = LeftAt("idle")'
    <3>1. \A u \in Threads \ {t} : apc'[u] = apc[u]
      BY <1>1, <2>1, <2>2
    <3>2. \A u \in Threads \ {t} : apc[u] = "idle"
      BY <1>1, <2>3 DEF OnlyOne, Inside
    <3> QED
      BY <3>1, <3>2 DEF UpLeft, Inside
  <2>7. CASE apc'[t] = "idle"
    <3>1. (apc[t] = "set" /\ active') \/ (apc[t] = "unset" /\ ~active')
      BY <2>1, <2>2, <2>7
    <3> QED
      BY <2>4, <2>6, <2>7, <3>1 DEF LeftAt
  <2>8. CASE apc'[t] # "idle"
    BY <2>1, <2>2, <2>4, <2>5, <2>8 DEF LeftAt
  <2> QED
    BY <2>7, <2>8
<1>6. ASSUME Alone \/ UNCHANGED apVars PROVE UpLeft' = UpLeft
  <2>1. apc' = apc /\ active' = active
    BY <1>6 DEF Alone, apVars
  <2>2. \A t \in Threads : Inside(t)' <=> Inside(t)
    BY <2>1 DEF Inside
  <2>3. ASSUME \A t \in Threads : ~Inside(t) PROVE UpLeft' = UpLeft
    BY <2>1, <2>2, <2>3 DEF UpLeft, LeftAt
  <2>4. ASSUME NEW t \in Threads, Inside(t) PROVE UpLeft' = UpLeft
    <3>1. UpLeft = LeftAt(apc[t]) /\ UpLeft' = LeftAt(apc[t])'
      BY <1>1, <2>2, <2>4, UpLeftIs, UpLeftNext
    <3>2. LeftAt(apc[t])' = LeftAt(apc[t])
      BY <2>1 DEF LeftAt
    <3> QED
      BY <3>1, <3>2
  <2> QED
    BY <2>3, <2>4
<1>7. UpLeft' <= UpLeft
  <2>1. CASE UpLeft' < UpLeft
    <3>1. UpLeft' \in Int
      <4>1. CASE \A t \in Threads : ~Inside(t)'
        BY <4>1 DEF UpLeft, LeftAt
      <4>2. ASSUME NEW t \in Threads, Inside(t)' PROVE UpLeft' \in Int
        <5>1. UpLeft' = LeftAt(apc[t])' /\ apc'[t] \in Steps
          BY <1>0, <1>1, <4>2, UpLeftNext DEF Inside, ApInv, ApTypeOK
        <5> QED
          BY <5>1 DEF LeftAt, InitSteps, DeinitSteps
      <4> QED
        BY <4>1, <4>2
    <3> QED
      BY <1>3, <2>1, <3>1
  <2>2. CASE UpLeft' = UpLeft
    BY <1>3, <2>2
  <2> QED
    BY <1>4, <1>5, <1>6, <2>1, <2>2 DEF ApNext
<1>8. (\E t \in Threads : ApRuns(t)) => UpLeft' < UpLeft
  BY <1>4, <1>5 DEF ApRuns
<1>9. (\E t \in Threads : Inside(t)) \/ ~active
  BY <1>2
<1> QED
  BY <1>3, <1>7, <1>8, <1>9

\* Without WiFi the access point is at most eleven steps from being up, as long
\* as no calls meet, whoever stops it meanwhile: the safety core of ApComesUp.
THEOREM AccessPointNears == ApSpec => ComesUpBounded
<1>1. ApInv /\ [ApNext]_apVars
      => (Two /\ alone /\ ~overlapped' /\ ~Working =>
            /\ (\E t \in Threads : Inside(t)) \/ ~active
            /\ UpLeft \in 1 .. 11 /\ UpLeft' <= UpLeft
            /\ (\E t \in Threads : ApRuns(t)) => UpLeft' < UpLeft)
  BY ComesUpStep
<1> QED
  BY <1>1, StageInitial, StageStep, PTL DEF ApSpec, ComesUpBounded

-----------------------------------------------------------------------------
(* The list of networks.                                                   *)

\* Whatever races: the compaction looks at entries below the size only, and a
\* push stores no less than the size was, so the size stays within the array.
SizeInv ==
  /\ ScanTypeOK
  /\ asOf <= secs /\ swept <= secs
  /\ \A i \in Spot : wifis[i].last_seen <= secs
  /\ Sweeping => below <= cur_size
  /\ tpc \in {"swap", "shrink"} => below > 0
  /\ tpc = "shrink" => below <= atSwap /\ atSwap <= cur_size
  /\ cpc # "idle" => net \in Networks
  /\ cpc = "grow" => cur_size <= atPush
  /\ cpc \in {"grow", "fill"} => atPush < MaxWifis
  /\ cpc = "refresh" => look < MaxWifis

\* Entries that have been filled.
Known == 0 .. (IF cpc = "fill" THEN cur_size - 2 ELSE cur_size - 1)
Recent(t, i) == t - wifis[i].last_seen <= Timeout

Once   == \A i, j \in Known : wifis[i].ssid = wifis[j].ssid => i = j
\* What is heard has an entry of that time, or a later one.
Kept   ==
  \A n \in Networks : heard[n] # 0 =>
    /\ heard[n] <= secs /\ secs - heard[n] <= Timeout
    /\ \E i \in Known : wifis[i].ssid = n /\ heard[n] <= wifis[i].last_seen
\* Before a compaction, and what it has looked at; the entry to be removed is
\* where it was found, then last.
Purged ==
  /\ ~Sweeping => \A i \in Known : Recent(swept, i)
  /\ Sweeping => \A i \in Known : wifis[i].last_seen <= asOf
  /\ tpc \in {"test", "swap"} => \A i \in below .. cur_size - 1 : Recent(asOf, i)
  /\ tpc = "swap" => ~Recent(asOf, below - 1)
  /\ tpc = "shrink" =>
       /\ atSwap = cur_size /\ ~Recent(asOf, cur_size - 1)
       /\ \A i \in below - 1 .. cur_size - 2 : Recent(asOf, i)
\* What _scan_result knows of the list.
Looked ==
  /\ cpc = "look" => /\ upTo = cur_size /\ look <= upTo
                     /\ \A i \in 0 .. look - 1 : wifis[i].ssid # net
  /\ cpc = "refresh" => look < cur_size /\ wifis[look].ssid = net
  /\ cpc = "grow" => atPush = cur_size
  /\ cpc = "fill" => atPush = cur_size - 1
  /\ cpc \in {"grow", "fill"} => \A i \in Known : wifis[i].ssid # net

Apart == ~Sweeping \/ cpc = "idle"

ScanInv == SizeInv /\ (~raced => Apart /\ Once /\ Kept /\ Purged /\ Looked)

LEMMA SizeInitial == ScanInit => SizeInv
<1> SUFFICES ASSUME ScanInit PROVE SizeInv
  OBVIOUS
<1> USE WifisAssumption, ScanTimeAssumption DEF ScanInit, Second
<1>1. wifis \in [Spot -> Wifis] /\ \A i \in Spot : wifis[i].last_seen <= secs
  BY DEF Wifis
<1>2. scanning \in BOOLEAN /\ raced \in BOOLEAN
  BY Zenon
<1>3. heard \in [Networks -> Second]
  OBVIOUS
<1>4. ScanTypeOK
  BY <1>1, <1>2, <1>3 DEF ScanTypeOK
<1> QED
  BY <1>1, <1>4 DEF SizeInv, Sweeping

LEMMA SizeStep == SizeInv /\ [ScanNext]_scanVars => SizeInv'
<1> SUFFICES ASSUME SizeInv, [ScanNext]_scanVars PROVE SizeInv'
  OBVIOUS
<1> USE WifisAssumption, ScanTimeAssumption DEF SizeInv, ScanTypeOK, Spot, Second, Sweeping
<1>1. CASE CheckScan
  BY <1>1 DEF CheckScan, Scanner, list, heardVars
<1>2. CASE StartScan
  <2>1. Scanner("start", "begin") \/ Scanner("start", "idle")
    BY <1>2 DEF StartScan
  <2>2. scanning' \in BOOLEAN
    BY <1>2, Zenon DEF StartScan
  <2> QED
    BY <1>2, <2>1, <2>2 DEF StartScan, Scanner, list, heardVars
<1>3. CASE BeginSweep
  BY <1>3 DEF BeginSweep, Scanner, list, heardVars
<1>4. CASE TestEntry
  BY <1>4 DEF TestEntry, Scanner, list, heardVars
<1>5. CASE SwapLast
  <2>1. below - 1 \in Spot /\ cur_size - 1 \in Spot
    BY <1>5 DEF SwapLast, Scanner
  <2>2. wifis' \in [Spot -> Wifis] /\ \A i \in Spot : wifis'[i].last_seen <= secs
    BY <1>5, <2>1 DEF SwapLast, Swapped
  <2> QED
    BY <1>5, <2>2 DEF SwapLast, Scanner, heardVars
<1>6. CASE Shrink
  BY <1>6 DEF Shrink, Scanner, heardVars
<1>7. CASE EndSweep
  BY <1>7 DEF EndSweep, Scanner, list, heardVars
<1>8. CASE \E n \in Networks : Hear(n)
  BY <1>8 DEF Hear, Callback, list, taskVars
<1>9. CASE LookAt
  <2>1. CASE Callback("look", "refresh") /\ look' = look
    BY <1>9, <2>1 DEF LookAt, Callback, list, taskVars
  <2>2. CASE Callback("look", "look") /\ look' = look + 1
    BY <1>9, <2>2 DEF LookAt, Callback, list, taskVars
  <2> QED
    BY <1>9, <2>1, <2>2 DEF LookAt
<1>10. CASE Refresh
  <2>1. look \in Spot /\ net \in Networks /\ secs \in Second
    BY <1>10 DEF Refresh, Callback
  <2>2. wifis' = [wifis EXCEPT ![look] = [wifis[look] EXCEPT !.last_seen = secs]]
    BY <1>10 DEF Refresh
  <2>3. wifis' \in [Spot -> Wifis] /\ \A i \in Spot : wifis'[i].last_seen <= secs
    <3> DEFINE e == [wifis[look] EXCEPT !.last_seen = secs]
    <3>1. e \in Wifis /\ e.last_seen = secs
      BY <2>1 DEF Wifis
    <3>2. wifis' = [wifis EXCEPT ![look] = e]
      BY <2>2
    <3> HIDE DEF e
    <3> QED
      BY <2>1, <3>1, <3>2
  <2> QED
    BY <1>10, <2>1, <2>3 DEF Refresh, Returns, Leaves, Callback, taskVars
<1>11. CASE Overflow
  BY <1>11 DEF Overflow, Leaves, Callback, list, taskVars
<1>12. CASE Reserve
  BY <1>12 DEF Reserve, Callback, list, taskVars
<1>13. CASE Grow
  BY <1>13 DEF Grow, Callback, taskVars
<1>14. CASE FillEntry
  <2>1. atPush \in Spot /\ net \in Networks /\ secs \in Second
    BY <1>14 DEF FillEntry, Callback
  <2>2. wifis' = [wifis EXCEPT ![atPush] = [ssid |-> net, last_seen |-> secs]]
    BY <1>14 DEF FillEntry
  <2>3. wifis' \in [Spot -> Wifis] /\ \A i \in Spot : wifis'[i].last_seen <= secs
    BY <2>1, <2>2 DEF Wifis
  <2> QED
    BY <1>14, <2>1, <2>3 DEF FillEntry, Returns, Leaves, Callback, taskVars
<1>15. CASE Passes
  <2>1. secs' \in Second /\ secs <= secs' /\ heard' \in [Networks -> Second]
    BY <1>15 DEF Passes
  <2>2. \A i \in Spot : wifis[i].last_seen \in Second
    BY DEF Wifis
  <2> QED
    BY <1>15, <2>1, <2>2 DEF Passes, list, taskVars
<1>16. CASE ScanEnds
  BY <1>16 DEF ScanEnds, list, taskVars, heardVars
<1>17. CASE UNCHANGED scanVars
  BY <1>17 DEF scanVars, list, taskVars, heardVars
<1> QED
  BY <1>1, <1>2, <1>3, <1>4, <1>5, <1>6, <1>7, <1>8, <1>9, <1>10, <1>11, <1>12, <1>13, <1>14,
     <1>15, <1>16, <1>17 DEF ScanNext, UpdateScanned, ScanResult

Fresh == Apart /\ Once /\ Kept /\ Purged /\ Looked

\* Steps that touch neither the list nor what is known of it.
LEMMA FreshQuiet ==
  ASSUME Fresh, UNCHANGED <<list, secs, swept, heardVars>>, ~Sweeping, ~Sweeping'
  PROVE  Fresh'
BY DEF Fresh, Apart, Once, Kept, Purged, Looked, Known, Recent, Sweeping, list, heardVars

\* The compaction runs without the radio.
LEMMA FreshSweep ==
  ASSUME SizeInv, Fresh, BeginSweep \/ TestEntry \/ SwapLast \/ Shrink \/ EndSweep, ~raced'
  PROVE  Fresh'
<1> USE WifisAssumption, ScanTimeAssumption
<1>0. /\ wifis \in [Spot -> Wifis] /\ cur_size \in 0 .. MaxWifis /\ secs \in Nat
      /\ asOf \in Nat /\ below \in 0 .. MaxWifis /\ asOf <= secs
      /\ \A i \in Spot : wifis[i].last_seen \in Nat /\ wifis[i].last_seen <= secs
      /\ heard \in [Networks -> Nat]
  BY DEF SizeInv, ScanTypeOK, Wifis, Second
<1>1. cpc = "idle" /\ cpc' = "idle" /\ secs' = secs /\ heard' = heard
  BY DEF Fresh, Apart, Sweeping, BeginSweep, TestEntry, SwapLast, Shrink, EndSweep, Scanner, heardVars
<1>2. Looked' /\ Apart'
  BY <1>1 DEF Looked, Apart
<1>3. Known = 0 .. cur_size - 1 /\ Known' = 0 .. cur_size' - 1 /\ Known \subseteq Spot
  BY <1>0, <1>1 DEF Known, Spot
<1>4. CASE BeginSweep
  <2>1. /\ wifis' = wifis /\ cur_size' = cur_size
        /\ tpc' = "test" /\ asOf' = secs /\ below' = cur_size
    BY <1>4 DEF BeginSweep, Scanner, list
  <2>2. Once' /\ Kept'
    BY <1>1, <1>3, <2>1 DEF Fresh, Once, Kept
  <2>3. Purged'
    BY <1>0, <1>3, <2>1 DEF Purged, Sweeping
  <2> QED
    BY <1>2, <2>2, <2>3 DEF Fresh
<1>5. CASE TestEntry
  <2>1. /\ wifis' = wifis /\ cur_size' = cur_size /\ asOf' = asOf /\ tpc = "test" /\ below > 0
        /\ IF Old(wifis[below - 1]) THEN tpc' = "swap" /\ below' = below
                                    ELSE tpc' = "test" /\ below' = below - 1
    BY <1>5 DEF TestEntry, Scanner, list
  <2>2. Once' /\ Kept'
    BY <1>1, <1>3, <2>1 DEF Fresh, Once, Kept
  <2>3. below <= cur_size
    BY <2>1 DEF SizeInv, Sweeping
  <2>4. Old(wifis[below - 1]) <=> ~Recent(asOf, below - 1)
    <3>1. below - 1 \in Known
      BY <1>0, <1>3, <2>1, <2>3
    <3>2. wifis[below - 1].last_seen <= asOf
      BY <2>1, <3>1 DEF Fresh, Purged, Sweeping
    <3> QED
      BY <1>0, <1>3, <3>1, <3>2 DEF Old, Recent
  <2>5. Purged'
    <3>1. \A i \in Known' : wifis'[i].last_seen <= asOf'
      BY <1>3, <2>1 DEF Fresh, Purged, Sweeping
    <3>2. \A i \in below .. cur_size - 1 : Recent(asOf, i)
      BY <2>1 DEF Fresh, Purged
    <3>3. CASE Old(wifis[below - 1])
      BY <2>1, <2>4, <3>1, <3>2, <3>3 DEF Purged, Sweeping, Recent
    <3>4. CASE ~Old(wifis[below - 1])
      <4>1. \A i \in below - 1 .. cur_size - 1 : Recent(asOf, i)
        BY <1>0, <2>4, <3>2, <3>4
      <4> QED
        BY <2>1, <3>1, <3>4, <4>1 DEF Purged, Sweeping, Recent
    <3> QED
      BY <3>3, <3>4
  <2> QED
    BY <1>2, <2>2, <2>5 DEF Fresh
<1>6. CASE SwapLast
  <2> DEFINE a == below - 1
             b == cur_size - 1
             At(i) == IF i = a THEN b ELSE IF i = b THEN a ELSE i
  <2>1. /\ cur_size' = cur_size /\ asOf' = asOf /\ below' = below /\ tpc = "swap" /\ tpc' = "shrink"
        /\ atSwap' = cur_size /\ wifis' = [wifis EXCEPT ![a] = wifis[b], ![b] = wifis[a]]
    BY <1>6 DEF SwapLast, Scanner, Swapped
  <2>2. below > 0 /\ below <= cur_size
    BY <2>1 DEF SizeInv, Sweeping
  <2>3. a \in Known /\ b \in Known /\ a <= b
    BY <1>0, <1>3, <2>2
  <2>4. \A i \in Known : wifis'[i] = wifis[At(i)] /\ At(i) \in Known /\ At(At(i)) = i
    BY <1>0, <1>3, <2>1, <2>3
  <2>5. Known' = Known
    BY <1>3, <2>1
  <2>6. Once'
    <3> SUFFICES ASSUME NEW i \in Known, NEW j \in Known, wifis'[i].ssid = wifis'[j].ssid
                 PROVE  i = j
      BY <2>5 DEF Once
    <3>1. At(i) = At(j)
      BY <2>4 DEF Fresh, Once
    <3>2. At(At(i)) = i /\ At(At(j)) = j
      BY <2>4
    <3> QED
      BY <3>1, <3>2
  <2>7. Kept'
    <3> SUFFICES ASSUME NEW m \in Networks, heard[m] # 0
                 PROVE  /\ heard[m] <= secs /\ secs - heard[m] <= Timeout
                        /\ \E i \in Known : wifis'[i].ssid = m /\ heard[m] <= wifis'[i].last_seen
      BY <1>1, <2>5 DEF Kept
    <3>1. heard[m] <= secs /\ secs - heard[m] <= Timeout
      BY DEF Fresh, Kept
    <3>2. PICK i \in Known : wifis[i].ssid = m /\ heard[m] <= wifis[i].last_seen
      BY DEF Fresh, Kept
    <3>3. At(i) \in Known /\ wifis'[At(i)] = wifis[i]
      BY <2>4
    <3> QED
      BY <3>1, <3>2, <3>3
  <2>8. \A i \in Known : wifis'[i].last_seen <= asOf
    BY <2>1, <2>4 DEF Fresh, Purged, Sweeping
  <2>9. ~Recent(asOf, b)'
    BY <2>1, <2>3, <2>4 DEF Fresh, Purged, Recent
  <2>10. \A i \in a .. b - 1 : Recent(asOf, i)'
    <3> SUFFICES ASSUME NEW i \in a .. b - 1 PROVE Recent(asOf, i)'
      OBVIOUS
    <3>1. i \in Known /\ At(i) \in below .. b
      BY <1>0, <1>3, <2>2, <2>3
    <3>2. Recent(asOf, At(i))
      BY <2>1, <3>1 DEF Fresh, Purged
    <3> QED
      BY <2>1, <2>4, <3>1, <3>2 DEF Recent
  <2>11. Purged'
    <3>1. cur_size - 2 = b - 1
      BY <1>0
    <3> QED
      BY <2>1, <2>5, <2>8, <2>9, <2>10, <3>1 DEF Purged, Sweeping
  <2> QED
    BY <1>2, <2>6, <2>7, <2>11 DEF Fresh
<1>7. CASE Shrink
  <2>1. /\ wifis' = wifis /\ asOf' = asOf /\ below' = below - 1 /\ tpc = "shrink" /\ tpc' = "test"
        /\ cur_size' = cur_size - 1 /\ below > 0 /\ below <= cur_size
    BY <1>0, <1>7 DEF Shrink, Scanner, Fresh, Purged, SizeInv, Sweeping
  <2>2. Known' \subseteq Known /\ \A i \in Known \ Known' : i = cur_size - 1
    BY <1>0, <1>3, <2>1
  <2>3. Once'
    BY <2>1, <2>2 DEF Fresh, Once
  <2>4. Kept'
    <3> SUFFICES ASSUME NEW m \in Networks, heard[m] # 0
                 PROVE  /\ heard[m] <= secs /\ secs - heard[m] <= Timeout
                        /\ \E i \in Known' : wifis[i].ssid = m /\ heard[m] <= wifis[i].last_seen
      BY <1>1, <2>1 DEF Kept
    <3>1. heard[m] <= secs /\ secs - heard[m] <= Timeout
      BY DEF Fresh, Kept
    <3>2. PICK i \in Known : wifis[i].ssid = m /\ heard[m] <= wifis[i].last_seen
      BY DEF Fresh, Kept
    <3>3. Recent(asOf, i)
      BY <1>0, <1>3, <3>1, <3>2 DEF Recent
    <3>4. i # cur_size - 1
      BY <2>1, <3>3 DEF Fresh, Purged
    <3> QED
      BY <2>2, <3>1, <3>2, <3>4
  <2>5. Purged'
    <3>1. \A i \in Known' : wifis'[i].last_seen <= asOf'
      BY <2>1, <2>2 DEF Fresh, Purged, Sweeping
    <3>2. \A i \in below' .. cur_size' - 1 : Recent(asOf, i)
      BY <1>0, <2>1 DEF Fresh, Purged
    <3> QED
      BY <2>1, <3>1, <3>2 DEF Purged, Sweeping, Recent
  <2> QED
    BY <1>2, <2>3, <2>4, <2>5 DEF Fresh
<1>8. CASE EndSweep
  <2>1. /\ wifis' = wifis /\ cur_size' = cur_size /\ tpc = "test" /\ tpc' = "idle" /\ below = 0
        /\ swept' = asOf
    BY <1>8 DEF EndSweep, Scanner, list
  <2>2. Once' /\ Kept'
    BY <1>1, <1>3, <2>1 DEF Fresh, Once, Kept
  <2>3. Purged'
    BY <1>3, <2>1 DEF Fresh, Purged, Sweeping, Recent
  <2> QED
    BY <1>2, <2>2, <2>3 DEF Fresh
<1> QED
  BY <1>4, <1>5, <1>6, <1>7, <1>8

\* The radio runs without the compaction.
LEMMA FreshHeard ==
  ASSUME SizeInv, Fresh, \/ \E n \in Networks : Hear(n)
                         \/ LookAt \/ Refresh \/ Overflow \/ Reserve \/ Grow \/ FillEntry,
         ~raced'
  PROVE  Fresh'
<1> USE WifisAssumption, ScanTimeAssumption
<1>0. /\ wifis \in [Spot -> Wifis] /\ cur_size \in 0 .. MaxWifis /\ secs \in Nat
      /\ swept \in Nat /\ swept <= secs /\ Timeout \in Nat
      /\ look \in Nat /\ upTo \in Nat /\ Spot = 0 .. MaxWifis - 1 /\ MaxWifis \in Nat
      /\ \A i \in Spot : wifis[i].last_seen \in Nat /\ wifis[i].last_seen <= secs
      /\ heard \in [Networks -> Nat]
  BY DEF SizeInv, ScanTypeOK, Wifis, Second, Spot
<1>1. ~Sweeping /\ ~Sweeping' /\ secs' = secs /\ swept' = swept /\ tpc' = tpc
  BY DEF Fresh, Apart, Sweeping, Hear, LookAt, Refresh, Overflow, Reserve, Grow, FillEntry, Callback,
     taskVars
<1>2. Apart' /\ (Purged' <=> \A i \in Known' : Recent(swept, i)')
  BY <1>1 DEF Apart, Purged, Sweeping
<1>3. \A i \in Known : Recent(swept, i)
  BY <1>1 DEF Fresh, Purged
\* Steps that leave the list and what was heard alone.
<1>4. ASSUME wifis' = wifis, Known' = Known, heard' = heard PROVE Once' /\ Kept' /\ Purged'
  <2>1. Once' /\ Kept'
    BY <1>1, <1>4 DEF Fresh, Once, Kept
  <2> QED
    BY <1>1, <1>2, <1>3, <1>4, <2>1 DEF Recent
<1>5. CASE \E n \in Networks : Hear(n)
  <2>1. /\ wifis' = wifis /\ cur_size' = cur_size /\ heard' = heard
        /\ cpc = "idle" /\ cpc' = "look" /\ look' = 0 /\ upTo' = cur_size
    BY <1>5 DEF Hear, Callback, list
  <2>2. Known' = Known /\ Looked'
    BY <1>0, <2>1 DEF Known, Looked
  <2> QED
    BY <1>2, <1>4, <2>1, <2>2 DEF Fresh
<1>6. CASE LookAt
  <2>1. /\ wifis' = wifis /\ cur_size' = cur_size /\ heard' = heard /\ net' = net /\ upTo' = upTo
        /\ look < upTo /\ cpc = "look"
        /\ IF wifis[look].ssid = net THEN cpc' = "refresh" /\ look' = look
                                     ELSE cpc' = "look" /\ look' = look + 1
    BY <1>6 DEF LookAt, Callback, list
  <2>2. upTo = cur_size /\ \A i \in 0 .. look - 1 : wifis[i].ssid # net
    BY <2>1 DEF Fresh, Looked
  <2>3. Known' = Known
    BY <2>1 DEF Known
  <2>4. Looked'
    <3>1. CASE wifis[look].ssid = net
      BY <2>1, <2>2, <3>1 DEF Looked
    <3>2. CASE wifis[look].ssid # net
      <4>1. look' <= upTo /\ \A i \in 0 .. look' - 1 : wifis[i].ssid # net
        BY <1>0, <2>1, <2>2, <3>2
      <4> QED
        BY <2>1, <2>2, <3>2, <4>1 DEF Looked
    <3> QED
      BY <3>1, <3>2
  <2> QED
    BY <1>2, <1>4, <2>1, <2>3, <2>4 DEF Fresh
<1>7. CASE Refresh
  <2> DEFINE e == [wifis[look] EXCEPT !.last_seen = secs]
  <2>1. /\ cpc = "refresh" /\ cpc' = "idle" /\ cur_size' = cur_size
        /\ wifis' = [wifis EXCEPT ![look] = e] /\ heard' = [heard EXCEPT ![net] = secs]
    BY <1>7 DEF Refresh, Callback, Returns
  <2>2. look \in Known /\ look \in Spot /\ wifis[look].ssid = net /\ net \in Networks
    BY <1>0, <2>1 DEF Fresh, Looked, Known, SizeInv
  <2>3. e.ssid = net /\ e.last_seen = secs
    BY <1>0, <2>2 DEF Wifis
  <2>4. Known' = Known /\ Known \subseteq Spot
    BY <1>0, <2>1 DEF Known
  <2> HIDE DEF e
  <2>5. wifis'[look] = e /\ \A i \in Known \ {look} : wifis'[i] = wifis[i]
    BY <1>0, <2>1, <2>2, <2>4
  <2>6. \A i \in Known : wifis'[i].ssid = wifis[i].ssid
    BY <2>2, <2>3, <2>5
  <2>7. Once'
    BY <2>4, <2>6 DEF Fresh, Once
  <2>8. Kept'
    <3> SUFFICES ASSUME NEW m \in Networks, heard'[m] # 0
                 PROVE  /\ heard'[m] <= secs /\ secs - heard'[m] <= Timeout
                        /\ \E i \in Known : wifis'[i].ssid = m /\ heard'[m] <= wifis'[i].last_seen
      BY <1>1, <2>4 DEF Kept
    <3>1. CASE m = net
      <4>1. heard'[m] = secs
        BY <1>0, <2>1, <2>2, <3>1
      <4> QED
        BY <1>0, <2>2, <2>3, <2>5, <3>1, <4>1
    <3>2. CASE m # net
      <4>1. heard'[m] = heard[m]
        BY <1>0, <2>1, <3>2
      <4>2. PICK i \in Known : wifis[i].ssid = m /\ heard[m] <= wifis[i].last_seen
        BY <4>1 DEF Fresh, Kept
      <4>3. wifis'[i] = wifis[i]
        BY <2>2, <2>5, <3>2, <4>2
      <4> QED
        BY <4>1, <4>2, <4>3 DEF Fresh, Kept
    <3> QED
      BY <3>1, <3>2
  <2>9. Purged'
    <3> SUFFICES ASSUME NEW i \in Known PROVE Recent(swept, i)'
      BY <1>2, <2>4
    <3>1. CASE i = look
      BY <1>0, <1>1, <2>3, <2>5, <3>1 DEF Recent
    <3>2. CASE i # look
      BY <1>1, <1>3, <2>5, <3>2 DEF Recent
    <3> QED
      BY <3>1, <3>2
  <2> QED
    BY <1>2, <2>1, <2>7, <2>8, <2>9 DEF Fresh, Looked
<1>8. CASE Overflow
  <2>1. /\ wifis' = wifis /\ cur_size' = cur_size /\ heard' = heard /\ cpc = "look" /\ cpc' = "idle"
    BY <1>8 DEF Overflow, Callback, list
  <2>2. Known' = Known /\ Looked'
    BY <2>1 DEF Known, Looked
  <2> QED
    BY <1>2, <1>4, <2>1, <2>2 DEF Fresh
<1>9. CASE Reserve
  <2>1. /\ wifis' = wifis /\ cur_size' = cur_size /\ heard' = heard /\ net' = net
        /\ cpc = "look" /\ cpc' = "grow" /\ look = upTo /\ atPush' = cur_size
    BY <1>9 DEF Reserve, Callback, list
  <2>2. Known' = Known /\ Known = 0 .. cur_size - 1
    BY <2>1 DEF Known
  <2>3. \A i \in Known : wifis[i].ssid # net
    BY <2>1, <2>2 DEF Fresh, Looked
  <2>4. Looked'
    BY <2>1, <2>2, <2>3 DEF Looked
  <2> QED
    BY <1>2, <1>4, <2>1, <2>2, <2>4 DEF Fresh
<1>10. CASE Grow
  <2>1. /\ wifis' = wifis /\ heard' = heard /\ net' = net /\ atPush' = atPush
        /\ cpc = "grow" /\ cpc' = "fill" /\ cur_size' = atPush + 1
    BY <1>10 DEF Grow, Callback
  <2>2. atPush = cur_size /\ \A i \in Known : wifis[i].ssid # net
    BY <2>1 DEF Fresh, Looked
  <2>3. Known' = Known
    BY <1>0, <2>1, <2>2 DEF Known
  <2>4. Looked'
    BY <1>0, <2>1, <2>2, <2>3 DEF Looked
  <2> QED
    BY <1>2, <1>4, <2>1, <2>3, <2>4 DEF Fresh
<1>11. CASE FillEntry
  <2> DEFINE e == [ssid |-> net, last_seen |-> secs]
  <2>1. /\ cpc = "fill" /\ cpc' = "idle" /\ cur_size' = cur_size
        /\ wifis' = [wifis EXCEPT ![atPush] = e] /\ heard' = [heard EXCEPT ![net] = secs]
    BY <1>11 DEF FillEntry, Callback, Returns
  <2>2. atPush = cur_size - 1 /\ net \in Networks /\ \A i \in Known : wifis[i].ssid # net
    BY <2>1 DEF Fresh, Looked, SizeInv
  <2>3. atPush < MaxWifis /\ atPush \in 0 .. MaxWifis
    BY <2>1 DEF SizeInv, ScanTypeOK
  <2>4. /\ atPush \in Spot /\ Known = 0 .. cur_size - 2 /\ Known' = Known \cup {atPush}
        /\ Known \subseteq Spot \ {atPush}
    BY <1>0, <2>1, <2>2, <2>3 DEF Known
  <2>5. e.ssid = net /\ e.last_seen = secs
    OBVIOUS
  <2> HIDE DEF e
  <2>6. wifis'[atPush] = e /\ \A i \in Known : wifis'[i] = wifis[i]
    BY <1>0, <2>1, <2>4
  <2>7. Once'
    BY <2>2, <2>4, <2>5, <2>6 DEF Fresh, Once
  <2>8. Kept'
    <3> SUFFICES ASSUME NEW m \in Networks, heard'[m] # 0
                 PROVE  /\ heard'[m] <= secs /\ secs - heard'[m] <= Timeout
                        /\ \E i \in Known' : wifis'[i].ssid = m /\ heard'[m] <= wifis'[i].last_seen
      BY <1>1 DEF Kept
    <3>1. CASE m = net
      <4>1. heard'[m] = secs
        BY <1>0, <2>1, <2>2, <3>1
      <4> QED
        BY <1>0, <2>4, <2>5, <2>6, <3>1, <4>1
    <3>2. CASE m # net
      <4>1. heard'[m] = heard[m]
        BY <1>0, <2>1, <3>2
      <4>2. PICK i \in Known : wifis[i].ssid = m /\ heard[m] <= wifis[i].last_seen
        BY <4>1 DEF Fresh, Kept
      <4> QED
        BY <2>4, <2>6, <4>1, <4>2 DEF Fresh, Kept
    <3> QED
      BY <3>1, <3>2
  <2>9. Purged'
    <3> SUFFICES ASSUME NEW i \in Known' PROVE Recent(swept, i)'
      BY <1>2
    <3>1. CASE i = atPush
      BY <1>0, <1>1, <2>5, <2>6, <3>1 DEF Recent
    <3>2. CASE i # atPush
      BY <1>1, <1>3, <2>4, <2>6, <3>2 DEF Recent
    <3> QED
      BY <3>1, <3>2
  <2> QED
    BY <1>2, <2>1, <2>7, <2>8, <2>9 DEF Fresh, Looked
<1> QED
  BY <1>5, <1>6, <1>7, <1>8, <1>9, <1>10, <1>11

\* Time passes.
LEMMA FreshPasses ==
  ASSUME SizeInv, Fresh, Passes PROVE Fresh'
<1>1. /\ heard \in [Networks -> Nat] /\ secs \in Nat
  BY DEF SizeInv, ScanTypeOK, Second
<1>2. /\ UNCHANGED <<wifis, cur_size, taskVars, cpc, net, look, upTo, atPush>> /\ secs' = secs + 1
      /\ heard' = [n \in Networks |-> IF secs' - heard[n] > Timeout THEN 0 ELSE heard[n]]
  BY DEF Passes, list
<1>3. Known' = Known
  BY <1>2 DEF Known
<1>4. Kept'
  <2> SUFFICES ASSUME NEW m \in Networks, heard'[m] # 0
               PROVE  /\ heard'[m] <= secs' /\ secs' - heard'[m] <= Timeout
                      /\ \E i \in Known : wifis[i].ssid = m /\ heard'[m] <= wifis[i].last_seen
    BY <1>2, <1>3 DEF Kept
  <2>1. heard'[m] = heard[m] /\ ~(secs' - heard[m] > Timeout)
    BY <1>2
  <2> QED
    BY <1>1, <1>2, <2>1, ScanTimeAssumption DEF Fresh, Kept
<1>5. Apart' /\ Once' /\ Purged' /\ Looked'
  BY <1>2, <1>3 DEF Fresh, Apart, Once, Purged, Looked, Recent, Sweeping, taskVars
<1> QED
  BY <1>4, <1>5 DEF Fresh

LEMMA ScanStep == ScanInv /\ [ScanNext]_scanVars => ScanInv'
<1> SUFFICES ASSUME ScanInv, [ScanNext]_scanVars PROVE ScanInv'
  OBVIOUS
<1>1. SizeInv /\ SizeInv'
  BY SizeStep DEF ScanInv
<1> SUFFICES ASSUME ~raced' PROVE Fresh'
  BY <1>1 DEF ScanInv, Fresh
<1>2. ~raced
  BY DEF ScanNext, UpdateScanned, ScanResult, scanVars, CheckScan, StartScan, BeginSweep, TestEntry,
     SwapLast, Shrink, EndSweep, Hear, LookAt, Refresh, Returns, Overflow, Reserve, Grow, FillEntry,
     Passes, ScanEnds
<1>3. Fresh
  BY <1>2 DEF ScanInv, Fresh
<1>4. CASE CheckScan \/ StartScan
  BY <1>3, <1>4, FreshQuiet DEF CheckScan, StartScan, Scanner, Sweeping
<1>5. CASE BeginSweep \/ TestEntry \/ SwapLast \/ Shrink \/ EndSweep
  BY <1>1, <1>3, <1>5, FreshSweep
<1>6. CASE ScanResult \/ \E n \in Networks : Hear(n)
  BY <1>1, <1>3, <1>6, FreshHeard DEF ScanResult
<1>7. CASE Passes
  BY <1>1, <1>3, <1>7, FreshPasses
<1>8. CASE ScanEnds \/ UNCHANGED scanVars
  BY <1>3, <1>8 DEF ScanEnds, scanVars, taskVars, heardVars, list, Fresh, Apart, Once, Kept, Purged,
     Looked, Known, Recent, Sweeping
<1> QED
  BY <1>4, <1>5, <1>6, <1>7, <1>8 DEF ScanNext, UpdateScanned

LEMMA ScanInitial == ScanInit => ScanInv
<1> SUFFICES ASSUME ScanInit PROVE ScanInv
  OBVIOUS
<1>1. Known = {} /\ \A m \in Networks : heard[m] = 0
  BY DEF ScanInit, Known
<1>2. cpc = "idle" /\ tpc = "idle"
  BY DEF ScanInit
<1> QED
  BY <1>1, <1>2, SizeInitial DEF ScanInv, Apart, Once, Kept, Purged, Looked, Sweeping

LEMMA ScanSound == ScanInv => ListIsRecent
<1> SUFFICES ASSUME ScanInv, ~raced, cpc = "idle" PROVE ListIsRecent
  BY DEF ListIsRecent
<1>1. Known = 0 .. cur_size - 1
  BY DEF Known
<1>2. /\ \A i, j \in 0 .. cur_size - 1 : wifis[i].ssid = wifis[j].ssid => i = j
      /\ \A n \in Networks : heard[n] # 0 => Listed(n)
  BY <1>1 DEF ScanInv, Once, Kept, Listed
<1>3. \A i \in 0 .. cur_size - 1 : ~Sweeping => swept - wifis[i].last_seen <= Timeout
  BY <1>1 DEF ScanInv, Purged, Recent
<1> QED
  BY <1>2, <1>3 DEF ListIsRecent

\* The size of the list stays within its array, whatever races.
THEOREM ScanTypeCorrect == ScanSpec => []ScanTypeOK
<1>1. SizeInv => ScanTypeOK
  BY DEF SizeInv
<1> QED
  BY <1>1, SizeInitial, SizeStep, PTL DEF ScanSpec

\* The list is what the radio hears, for every length and every timeout, as
\* long as compaction and radio do not meet in it.
THEOREM ListFollowsRadio == ScanSpec => []ListIsRecent
BY ScanInitial, ScanStep, ScanSound, PTL DEF ScanSpec

-----------------------------------------------------------------------------
(* The instance.                                                           *)

AllInv == DnsInv /\ NtpInv /\ ApInv /\ ScanInv

LEMMA AllInitial == Init => AllInv
  BY DnsInitial, NtpInitial, StageInitial, ScanInitial, Zenon DEF Init, AllInv

LEMMA AllStep == AllInv /\ [Next]_vars => AllInv'
<1> SUFFICES ASSUME AllInv, [Next]_vars PROVE AllInv'
  OBVIOUS
<1>1. [DnsNext]_dnsVars /\ [NtpNext]_ntpVars /\ [ApNext]_apVars
      /\ [ScanNext]_scanVars
  BY Zenon DEF Next, Ap, Ntp, Dns, Scan, vars
<1> QED
  BY <1>1, DnsStep, NtpStep, StageStep, ScanStep, Zenon DEF AllInv

LEMMA AllAlways == Spec => []AllInv
BY AllInitial, AllStep, PTL DEF Spec

\* The variables of the four parts keep their types: the pointer and the place
\* of the answer, the address and the times, who owns which block, and the size
\* of the list.
THEOREM TypeCorrect == Spec => []TypeOK
<1>1. AllInv => TypeOK
  BY Zenon DEF AllInv, DnsInv, NtpInv, ApInv, ScanInv, SizeInv, TypeOK
<1> QED
  BY <1>1, AllAlways, PTL

\* What the run checks on small instances holds in every one.
THEOREM NetworkSafe == Spec => [](DnsReplyFits /\ ClockTracks /\ ApUpWhenActive /\ ListIsRecent)
<1>1. AllInv => DnsReplyFits /\ ClockTracks /\ ApUpWhenActive /\ ListIsRecent
  BY StageSound, ScanSound, ClockSound, Zenon DEF AllInv, DnsInv
<1> QED
  BY <1>1, AllAlways, PTL
=============================================================================
