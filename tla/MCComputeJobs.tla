---------------------------- MODULE MCComputeJobs ---------------------------
(***************************************************************************)
(* ComputeJobs with two submissions and two queries on a single worker, so *)
(* that calls wait for a thread; submissions are alike, and so are queries. *)
(***************************************************************************)
EXTENDS ComputeJobs, TLC

CONSTANTS s1, s2, q1, q2

MCTaskTypes == {"bulk-cog-conversion", "model-inference", "unknown"}

MCSymmetry == Permutations({s1, s2}) \cup Permutations({q1, q2})
=============================================================================
