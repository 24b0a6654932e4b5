---------------------------- MODULE MCCiPipelines ----------------------------
(***************************************************************************)
(* Instances of CiPipelines for TLC: two pipelines of the same branch, for *)
(* revisions 1 and 2.                                                      *)
(***************************************************************************)
EXTENDS CiPipelines

CONSTANTS p1, p2

MCRevisionOf == [p \in Pipelines |-> IF p = p1 THEN 1 ELSE 2]

=============================================================================
