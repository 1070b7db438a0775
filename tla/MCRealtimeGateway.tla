-------------------------- MODULE MCRealtimeGateway --------------------------
(* Instances of RealtimeGateway for TLC. *)
EXTENDS RealtimeGateway

CONSTANTS s1, s2
MCSymmetry == Permutations(Socket)
=============================================================================
