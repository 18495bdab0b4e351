------------------------------ MODULE MCAgent ------------------------------
(* Instances of Agent for TLC. *)
EXTENDS Agent

\* No hint, a delay below the cap and one above it.
MCHints == {NoHint, 30, 60}

=============================================================================
