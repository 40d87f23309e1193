---------------------------- MODULE MCStreamRelay ----------------------------
(* A small instance of StreamRelay. *)
EXTENDS StreamRelay
=============================================================================
