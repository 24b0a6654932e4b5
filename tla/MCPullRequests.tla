--------------------------- MODULE MCPullRequests ---------------------------
(***************************************************************************)
(* Instances of PullRequests for TLC.                                      *)
(***************************************************************************)
EXTENDS PullRequests, TLC

Symmetry == Permutations(Requests) \cup Permutations(Branches) \cup Permutations(Reviewers)

=============================================================================
