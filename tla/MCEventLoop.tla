---------------------------- MODULE MCEventLoop -----------------------------
(* The loop with handlers for one of two kinds of events. *)
EXTENDS EventLoop

CONSTANTS tick, note

MCKinds == {tick, note}
MCRegistered == {tick}
=============================================================================
