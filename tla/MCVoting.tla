------------------------------- MODULE MCVoting -------------------------------
(* Small instances of Voting for TLC.                                      *)
EXTENDS Voting, TLC

CONSTANTS o1, o2, q1   \* o1 and o2 belong to every poll, q1 to none

BothOptions == [p \in Polls |-> {o1, o2}]
(* A body that mixes the poll's options with another's, and one that has   *)
(* none of them.                                                           *)
MixedBodies == {<<q1, o2, o1>>, <<q1>>}
Symmetry == Permutations(Users) \union Permutations(Tokens) \union Permutations(Reqs)
==============================================================================
