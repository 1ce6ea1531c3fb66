------------------------------- MODULE MCFlows -------------------------------
(* A year of five units, walked by three; simulations of two chunks, the second cut. *)
EXTENDS Flows, DataChecks, ArtifactChecks

MCSpans == {<<0, 3>>}
=============================================================================
