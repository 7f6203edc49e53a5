--------------------------- MODULE MCAliveReport ---------------------------
(* Small instances of AliveReport. *)
EXTENDS AliveReport
=============================================================================
