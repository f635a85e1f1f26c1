---------------------------- MODULE MCEncodeHead ----------------------------
(* Small instances of EncodeHead for TLC.                                  *)
EXTENDS EncodeHead

CONSTANTS t1, t2

MCThreads == {t1, t2}
=============================================================================
