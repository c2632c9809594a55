------------------------------- MODULE MCPages -------------------------------
(* What the webserver's pages are made of: the log, the measurements, and   *)
(* the response that carries them.  Each is written by tasks, or read by    *)
(* lwIP, while the tcpip thread is in the handler.  The three share no      *)
(* variable, so the instance runs one of them at a time: that covers every  *)
(* behaviour of each.                                                       *)
EXTENDS LogRing, MeterBridge, HttpResponse

VARIABLE part

Log(A)      == part = "log"      /\ A /\ UNCHANGED <<part, bridgeVars, responseVars>>
Bridge(A)   == part = "bridge"   /\ A /\ UNCHANGED <<part, logVars, responseVars>>
Response(A) == part = "response" /\ A /\ UNCHANGED <<part, logVars, bridgeVars>>

vars == <<part, logVars, bridgeVars, responseVars>>

\* A part that does not run starts where it owes nothing.
Init ==
  /\ part \in {"log", "bridge", "response"} /\ LogInit /\ BridgeInit /\ ResponseInit
  /\ part # "bridge" => inverted = sign
Next == Log(LogNext) \/ Bridge(BridgeNext) \/ Response(ResponseNext)

\* The fairness of LogSpec, BridgeSpec and ResponseSpec.
Fairness ==
  /\ WF_vars(Log(Reader))
  /\ WF_vars(Bridge(Meters)) /\ SF_vars(Bridge(Lock))
  /\ \A c \in Clients : WF_vars(Bridge(Serves(c))) /\ SF_vars(Bridge(ClientLock(c)))
  /\ WF_vars(Response(Tcpip))

Spec == Init /\ [][Next]_vars /\ Fairness

\* The variables of the three parts keep their types: indices stay within the
\* ring, lengths within the buffers, and a page within its room.
TypeOK == LogTypeOK /\ BridgeTypeOK /\ ResponseTypeOK
=============================================================================
