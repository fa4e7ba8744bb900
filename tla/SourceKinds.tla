------------------------------ MODULE SourceKinds -------------------------------
(* The kinds of source a bus can have (packages/core/src/source-mode.ts). *)

Base == {"live", "demo"}
Kinds == Base \cup {"replay"}
=================================================================================
