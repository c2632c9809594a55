------------------------------ MODULE DnsServer ------------------------------
(***************************************************************************)
(* The DNS server of the access point (src/dnsserver.c): every query is    *)
(* answered with the device's address.  The answer is written behind the   *)
(* question, over what the query has there, in the buffer that holds it:   *)
(* dns_server_process counts labels to find the place, which the query may *)
(* give in any number and length.  Bytes are their places in the buffer.   *)
(***************************************************************************)
EXTENDS Integers

CONSTANTS
  Datagrams,    \* lengths of datagrams
  Labels,       \* what the length byte of a label may hold, but 0
  BufferSize,   \* MAX_DNS_MSG_SIZE
  Header,       \* sizeof(dns_header_t)
  MaxLabel,     \* longest label
  MaxName       \* longest name, with its length bytes

Fixed  == 4     \* QTYPE and QCLASS
Record == 16    \* the record that is written

ASSUME DatagramAssumption == Datagrams \subseteq Nat /\ Labels \subseteq Nat \ {0}
ASSUME BufferAssumption ==
  /\ BufferSize \in Nat /\ Header \in Nat /\ MaxLabel \in Nat /\ MaxName \in Nat
  /\ Header + MaxName + Fixed + Record <= BufferSize

VARIABLES
  step,         \* of dns_server_process
  msg_len,      \* bytes of the query in the buffer
  question_ptr, \* where it reads
  answer_ptr    \* where it has written up to

dnsVars == <<step, msg_len, question_ptr, answer_ptr>>

DnsTypeOK ==
  /\ step \in {"idle", "name", "length", "reply"}
  /\ msg_len \in 0 .. BufferSize /\ question_ptr \in Nat /\ answer_ptr \in Nat

DnsInit == step = "idle" /\ msg_len = 0 /\ question_ptr = 0 /\ answer_ptr = 0

-----------------------------------------------------------------------------
Back == step' = "idle" /\ msg_len' = 0 /\ question_ptr' = 0 /\ answer_ptr' = 0

\* A datagram arrives, of which the buffer takes what fits; what is no standard
\* query with a question is ignored.
Query(n) ==
  /\ step = "idle" /\ n >= Header
  /\ step' = "name"
  /\ msg_len' = IF n < BufferSize THEN n ELSE BufferSize
  /\ question_ptr' = Header /\ UNCHANGED answer_ptr

\* The loop over the labels ends at a zero byte or behind the query, where the
\* last label may have led far beyond it; a label that is too long ends it all.
InQuery == step = "name" /\ question_ptr < msg_len
Label(n) ==
  /\ InQuery /\ n <= MaxLabel
  /\ question_ptr' = question_ptr + 1 + n
  /\ UNCHANGED <<step, msg_len, answer_ptr>>
InvalidLabel(n) == InQuery /\ n > MaxLabel /\ Back
EndOfName ==
  /\ InQuery /\ step' = "length" /\ question_ptr' = question_ptr + 1
  /\ UNCHANGED <<msg_len, answer_ptr>>
EndOfQuery ==
  /\ step = "name" /\ question_ptr >= msg_len /\ step' = "length"
  /\ UNCHANGED <<msg_len, question_ptr, answer_ptr>>

MutantTrustsQuery == question_ptr > BufferSize
TooLong == question_ptr - Header > MaxName
InvalidLength == step = "length" /\ TooLong /\ Back
WriteAnswer ==
  /\ step = "length" /\ ~TooLong /\ step' = "reply"
  /\ answer_ptr' = question_ptr + Fixed + Record
  /\ UNCHANGED <<msg_len, question_ptr>>
\* The reply is sent up to answer_ptr, or there is no memory for it.
Reply == step = "reply" /\ Back

DnsNext ==
  \/ \E n \in Datagrams : Query(n)
  \/ \E n \in Labels : Label(n) \/ InvalidLabel(n)
  \/ EndOfName \/ EndOfQuery \/ InvalidLength \/ WriteAnswer \/ Reply

DnsSpec == DnsInit /\ [][DnsNext]_dnsVars

-----------------------------------------------------------------------------
(* Properties.                                                             *)

\* The answer is written within the buffer, whatever labels the query has and
\* wherever it was cut off.
DnsReplyFits == step = "reply" => answer_ptr <= BufferSize
=============================================================================
