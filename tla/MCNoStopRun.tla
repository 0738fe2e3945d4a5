---------------------------- MODULE MCNoStopRun -----------------------------
EXTENDS NoStopRun

(* Spurious gates reach everything, QDC 0 alone or the TDC alone; or QDC 0 *)
(* and the TDC without QDC 1.                                              *)
AllOrOne == {Modules, {0}, {TDC}}
NotQdc1 == {Modules \ {1}}
Qdc1 == {1}

(* The block of QDC 1 alone fails to come, or those of both QDCs.          *)
LastOrAll == {{1}, QDCs}
=============================================================================
