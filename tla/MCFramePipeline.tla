--------------------------- MODULE MCFramePipeline ---------------------------
(* Small instances of FramePipeline for TLC: see the configuration files. *)
EXTENDS FramePipeline

DataOnly == {"point"}
=============================================================================
