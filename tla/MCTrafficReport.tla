-------------------------- MODULE MCTrafficReport --------------------------
(* Small instances of TrafficReport. *)
EXTENDS TrafficReport, TLC
=============================================================================
