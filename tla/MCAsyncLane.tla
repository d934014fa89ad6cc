----------------------------- MODULE MCAsyncLane -----------------------------
(* Constants for model-checking AsyncLane on small instances. *)
EXTENDS AsyncLane

\* The jobs of either lane may stop both.
AllStops == Lanes \X Lanes
=============================================================================
