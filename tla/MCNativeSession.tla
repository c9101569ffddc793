-------------------------- MODULE MCNativeSession --------------------------
(***************************************************************************)
(* A session with one sweep and one failing cleanup step anywhere in its   *)
(* life, and plausible bugs of the code for each property to detect.       *)
(***************************************************************************)
EXTENDS NativeSession
=============================================================================
