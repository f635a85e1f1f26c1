--------------------------- MODULE MCHLSVODSession ---------------------------
(* Small instances of HLSVODSession for TLC.                               *)
EXTENDS HLSVODSession, TLC

CONSTANTS c1, c2

MCClients == {c1, c2}
OneClient == {c1}
Swap      == Permutations(MCClients)
=============================================================================
