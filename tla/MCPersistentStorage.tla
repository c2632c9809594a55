------------------------ MODULE MCPersistentStorage ------------------------
(* The store on a flash of two sectors of four bytes, pages of two bytes,  *)
(* one-bit bytes, and a layout of five bytes: one field crosses the sector *)
(* boundary, the other shares the second sector with its end, and three    *)
(* bytes of the image lie in front.                                        *)
EXTENDS PersistentStorage, TLC

MCFields == {"pwd", "ssid"}
MCOffset == [pwd |-> 0, ssid |-> 3]
MCSize   == [pwd |-> 2, ssid |-> 2]

\* Bytes as sets of bits: zero and one.
MCSamples == {{}, {1}}

\* A first start over an image of zeros, of ones, and of both, with the settings
\* erased or of an earlier run.
MCContents ==
  {[a \in Addr |-> IF a \in zeros THEN {} ELSE {1}] : zeros \in {{0, 1, 2}, {1, 4, 6}, {}}}
=============================================================================
