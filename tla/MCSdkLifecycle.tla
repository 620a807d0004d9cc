--------------------------- MODULE MCSdkLifecycle ---------------------------
(* Instances of SdkLifecycle for TLC. *)
EXTENDS SdkLifecycle
=============================================================================
