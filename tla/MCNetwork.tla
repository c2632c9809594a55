------------------------------ MODULE MCNetwork ------------------------------
(* What the device is to its network without a configured one, and with it: *)
(* the access point with its two servers, the DNS server's answers, the     *)
(* list of networks in reach, and the clock.  As in MCPages, the parts      *)
(* share no variable and run one at a time.                                 *)
EXTENDS AccessPoint, NtpClient, DnsServer, WifiScan

VARIABLE part

Ap(A)   == part = "ap"   /\ A /\ UNCHANGED <<part, ntpVars, dnsVars, scanVars>>
Ntp(A)  == part = "ntp"  /\ A /\ UNCHANGED <<part, apVars, dnsVars, scanVars>>
Dns(A)  == part = "dns"  /\ A /\ UNCHANGED <<part, apVars, ntpVars, scanVars>>
Scan(A) == part = "scan" /\ A /\ UNCHANGED <<part, apVars, ntpVars, dnsVars>>

vars == <<part, apVars, ntpVars, dnsVars, scanVars>>

\* A part that does not run starts where it owes nothing.
Init ==
  /\ part \in {"ap", "ntp", "dns", "scan"}
  /\ ApInit /\ NtpInit /\ DnsInit /\ ScanInit
  /\ part # "ap" => ~alone /\ apc[Wifi] = "idle"
  /\ part # "ntp" => now = Ticks
Next == Ap(ApNext) \/ Ntp(NtpNext) \/ Dns(DnsNext) \/ Scan(ScanNext)

\* The fairness of ApSpec.
Spec == Init /\ [][Next]_vars /\ \A t \in Threads : WF_vars(Ap(ApRuns(t)))

\* The variables of the four parts keep their types; the size of the scan list
\* stays within its array even when radio and compaction race.
TypeOK == ApTypeOK /\ NtpTypeOK /\ DnsTypeOK /\ ScanTypeOK
=============================================================================
