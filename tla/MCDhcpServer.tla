---------------------------- MODULE MCDhcpServer ----------------------------
(* The lease table on a small clock: units of 2 ms, wrapping after 10.     *)
EXTENDS DhcpServer, TLC

\* Clients are interchangeable.
MacSymmetry == Permutations(Macs)
=============================================================================
