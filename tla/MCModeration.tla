----------------------------- MODULE MCModeration -----------------------------
(* Small instances of Moderation for TLC.                                  *)
EXTENDS Moderation, TLC

CONSTANTS s1, s2, s3, u1, a1, a2, b1, b2

OneAuthor == [s \in Submissions |-> u1]
NoImages == [s \in Submissions |-> <<>>]
(* The same two images, uploaded in opposite orders.                       *)
SharedImages == [s \in Submissions |-> IF s = s1 THEN <<a1, a2>> ELSE <<a2, a1>>]
OneBase == [s \in Submissions |-> b1]
(* b2 is the second address of b1.                                         *)
Addresses == [b \in Bases |-> IF b = b1 THEN <<1, 2, 3, 4>> ELSE <<2, 5, 6, 7>>]
TwoBases == [s \in Submissions |-> IF s = s1 THEN b1 ELSE b2]
Symmetry == Permutations(Requests) \union Permutations(Workers)
==============================================================================
