-------------------------- MODULE MCOpenSkyProducer --------------------------
(* Instance of OpenSkyProducer for TLC; one unit of time is about 30 seconds. *)
EXTENDS OpenSkyProducer

\* One lifetime below the floor, one just above it.
MCLifetimes == {1, 3}
=============================================================================
