----------------------------- MODULE DhcpServer -----------------------------
(***************************************************************************)
(* The lease table of the access point's DHCP server (src/dhcpserver.c).   *)
(* dhcp_server_process runs in lwIP's tcpip thread, one packet at a time:  *)
(* one action per message type.  A lease keeps its end in 16 bits, in      *)
(* units of 2^16 ms; DISCOVER rounds it up and compares it with the clock  *)
(* modulo 2^32 as a signed number.  `granted` and `until` are history      *)
(* variables: the exact ends that the server and the clients were told.    *)
(*                                                                         *)
(* Packets the server ignores without touching the table are left out:     *)
(* too short, no message type, another type than DISCOVER and REQUEST, a   *)
(* REQUEST with no requested address (RFC 2131 renewals are such) or with  *)
(* one outside the pool.                                                   *)
(***************************************************************************)
EXTENDS Integers

CONSTANTS
  Macs,      \* hardware addresses of the clients
  NoMac,     \* the all-zero address: a free slot
  Slots,     \* DHCPS_MAX_IP (8)
  Lease,     \* DEFAULT_LEASE_TIME_S in ms (86 400 000)
  Unit,      \* ms per unit of the expiry field (2^16)
  Units,     \* values of the expiry field (2^16)
  MaxTime    \* bound: the clock stops here

Wrap == Unit * Units     \* the clock as the comparison sees it (2^32)
Half == Wrap \div 2

ASSUME MacAssumption   == NoMac \notin Macs
ASSUME SlotAssumption  == Slots \in Nat \ {0} /\ MaxTime \in Nat
ASSUME UnitAssumption  == Unit \in Nat \ {0} /\ Units \in Nat \ {0}
ASSUME LeaseAssumption == Lease \in Nat \ {0} /\ Lease + Unit <= Half

Index == 0 .. Slots - 1

VARIABLES
  now,      \* hal_ticks_ms(), 64 bits
  mac,      \* slot -> lease[slot].mac
  expiry,   \* slot -> lease[slot].expiry
  running,  \* the UDP socket is open
  granted,  \* slot -> exact end of its last grant
  until,    \* client, slot -> end of the lease the client was last told of, 0 if over
  forgotten \* client, slot: leases that outlived a restart of the server

vars == <<now, mac, expiry, running, granted, until, forgotten>>

TypeOK ==
  /\ now \in Nat
  /\ mac \in [Index -> Macs \cup {NoMac}]
  /\ expiry \in [Index -> 0 .. Units - 1]
  /\ running \in BOOLEAN
  /\ granted \in [Index -> Nat]
  /\ until \in [Macs \X Index -> Nat]
  /\ forgotten \subseteq Macs \X Index

Init ==
  /\ now = 0 /\ running = FALSE
  /\ mac = [i \in Index |-> NoMac] /\ expiry = [i \in Index |-> 0]
  /\ granted = [i \in Index |-> 0]
  /\ until = [c \in Macs \X Index |-> 0] /\ forgotten = {}

-----------------------------------------------------------------------------
(* The expiry field.                                                       *)

\* (A definition named Mutant... is not part of the model: it is a plausible
\* bug, used to confirm that a property would notice it.)
MutantStampWide(t) == (t \div Unit) % (Units + 1)

\* `(t) >> 16` stored into a uint16_t.
Stamp(t) == (t \div Unit) % Units

MutantUnsigned(e, t)  == e * Unit + Unit - 1 < t % Wrap
\* `(int32_t)((expiry << 16 | 0xffff) - t) < 0`.
Past(e, t) == (e * Unit + (Unit - 1) - t) % Wrap >= Half

Expired(i) == Past(expiry[i], now)
Free(i)    == mac[i] = NoMac

-----------------------------------------------------------------------------
(* DISCOVER scans the slots until it meets the client's own.  The first    *)
(* free or expired one before that is remembered, and wiped if expired,    *)
(* even when the client's own slot comes later and is the one offered.     *)

\* i is the first member of S, Slots when S is empty.
IsFirst(i, S) == IF S = {} THEN i = Slots ELSE i \in S /\ \A j \in S : i <= j

MutantReusable(before) == {i \in Index : i < before /\ Free(i)}

Own(m)           == {i \in Index : mac[i] = m}
Reusable(before) == {i \in Index : i < before /\ (Free(i) \/ Expired(i))}
Found(m, own, reuse) == IsFirst(own, Own(m)) /\ IsFirst(reuse, Reusable(own))

\* The slot a DISCOVER of m is offered now, Slots when it is ignored.
Chosen(m, yi) ==
  \E own, reuse \in 0 .. Slots :
    Found(m, own, reuse) /\ yi = (IF own < Slots THEN own ELSE reuse)

\* DHCPDISCOVER: only a wiped slot changes the table, an offer reserves nothing.
Discover(m) ==
  /\ running
  /\ \E own, reuse \in 0 .. Slots :
       /\ Found(m, own, reuse)
       /\ mac' = [i \in Index |-> IF i = reuse /\ Expired(i) THEN NoMac ELSE mac[i]]
  /\ UNCHANGED <<now, expiry, running, granted, until, forgotten>>

\* DHCPREQUEST for slot i: the client's own or a free slot is granted and
\* stamped, another client's is ignored.  The ACK may get lost, but the table has
\* the client again.
Grants(m, i) == mac[i] \in {m, NoMac}
Request(m, i) ==
  /\ running /\ Grants(m, i)
  /\ mac' = [mac EXCEPT ![i] = m]
  /\ expiry' = [expiry EXCEPT ![i] = Stamp(now + Lease)]
  /\ granted' = [granted EXCEPT ![i] = now + Lease]
  /\ until' \in {until, [until EXCEPT ![<<m, i>>] = now + Lease]}
  /\ forgotten' = forgotten \ {<<m, i>>}
  /\ UNCHANGED <<now, running>>

\* dhcp_server_deinit: the socket is removed, the table stays.
Stop ==
  /\ running /\ running' = FALSE
  /\ UNCHANGED <<now, mac, expiry, granted, until, forgotten>>

\* dhcp_server_init forgets every lease, while the clients keep theirs; without
\* memory for the socket nothing listens.
Start ==
  /\ ~running /\ running' \in BOOLEAN
  /\ mac' = [i \in Index |-> NoMac] /\ expiry' = [i \in Index |-> 0]
  /\ granted' = [i \in Index |-> 0]
  /\ forgotten' = {c \in Macs \X Index : until[c] # 0}
  /\ UNCHANGED <<now, until>>

\* A millisecond passes; a client gives up a lease that is over.
Tick ==
  /\ now < MaxTime /\ now' = now + 1
  /\ until' = [c \in Macs \X Index |-> IF until[c] > now + 1 THEN until[c] ELSE 0]
  /\ forgotten' = {c \in forgotten : until'[c] # 0}
  /\ UNCHANGED <<mac, expiry, running, granted>>

Next ==
  \/ \E m \in Macs : Discover(m)
  \/ \E m \in Macs, i \in Index : Request(m, i)
  \/ Stop \/ Start \/ Tick

Spec == Init /\ [][Next]_vars

-----------------------------------------------------------------------------
(* Properties.                                                             *)

Holds(m, i) == until[<<m, i>>] > now

Remembered(m, i) == Holds(m, i) /\ <<m, i>> \notin forgotten

\* One client per address: no two clients hold an unexpired lease on the same
\* slot, across renewals, lost ACKs, purges by DISCOVER and the wrap-around of
\* the 16-bit expiry.  Only a lease that a restart of the server forgot, and its
\* client did not renew since, does not keep others away.
NoDoubleLease ==
  \A i \in Index, m1, m2 \in Macs : Remembered(m1, i) /\ Remembered(m2, i) => m1 = m2

\* An offered address is not one another client still holds, with the same
\* exception.
OfferIsFree ==
  \A m1, m2 \in Macs, i \in Index : Chosen(m1, i) /\ Remembered(m2, i) => m1 = m2

\* A DISCOVER is ignored only when every slot has a lease that is running, or
\* ended less than a unit ago, or ended so long ago that the signed comparison
\* takes it for running again.
RefusedOnlyWhenFull ==
  \A m \in Macs : Chosen(m, Slots) =>
    \A i \in Index : granted[i] + Unit > now \/ now - granted[i] > Half
=============================================================================
