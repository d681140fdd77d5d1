------------------------------ MODULE MCApprovals ------------------------------
(* Small instances of Approvals for TLC.                                   *)
EXTENDS Approvals, TLC

Symmetry == Permutations(Users) \union Permutations(Ids) \union Permutations(Requests)
==============================================================================
