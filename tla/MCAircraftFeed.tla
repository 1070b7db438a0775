---------------------------- MODULE MCAircraftFeed ----------------------------
(* Instances of AircraftFeed for TLC. *)
EXTENDS AircraftFeed

CONSTANT a1
=============================================================================
