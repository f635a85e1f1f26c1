---------------------------- MODULE MCServiceCalls ----------------------------
(* Two calls of any of the methods that differ in how they deliver, one slot *)
(* of each class: every pair of methods competes for the slots they share.   *)
EXTENDS ServiceCalls

MCCapacity == [k \in Classes |-> 1]

MCMethods == {"ProbeStream", "Screenshot", "VideoPreview", "CaptureFrameFile",
              "FMP4Transcode", "HLSSegment", "StartHLSVODSegmentJob", "ConcatMedia"}

MCCapture == {"CaptureFrame"}
=============================================================================
