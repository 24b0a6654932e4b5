----------------------------- MODULE MCAuthzSync -----------------------------
(***************************************************************************)
(* AuthzSync for TLC.  The requests are symmetric where no liveness        *)
(* property is checked.                                                    *)
(***************************************************************************)
EXTENDS AuthzSync, TLC

Symmetry == Permutations(Requests)

=============================================================================
