----------------------------- MODULE MCDetection -----------------------------
(* Small instances of Detection for TLC.                                   *)
EXTENDS Detection

CONSTANTS t1, t2

MCThreads == {t1, t2}
=============================================================================
