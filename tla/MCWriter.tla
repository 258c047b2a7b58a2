------------------------------ MODULE MCWriter ------------------------------
(***************************************************************************)
(* Four handlers and a queue of two; no symmetry, for the sake of liveness.*)
(***************************************************************************)
EXTENDS UsageLogWriter
=============================================================================
