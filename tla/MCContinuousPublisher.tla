----------------------- MODULE MCContinuousPublisher -----------------------
(* Small instances of ContinuousPublisher for TLC.                         *)
EXTENDS ContinuousPublisher
=============================================================================
