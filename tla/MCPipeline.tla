---------------------------- MODULE MCPipeline ----------------------------
(* Instances of Pipeline for TLC. *)
EXTENDS Pipeline, TLC

\* Workers and requests are interchangeable, tasks too (safety runs only).
Symmetry == Permutations(Workers) \cup Permutations(Requests) \cup Permutations(Tasks)

=============================================================================
