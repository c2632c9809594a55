--------------------------- MODULE MCWifiStorage ---------------------------
(* The task against both setters.  The retry period is short, but longer   *)
(* than its rounds, which meet the retry second or skip it; two values are *)
(* enough for one to replace another.                                      *)
EXTENDS WifiStorage
=============================================================================
