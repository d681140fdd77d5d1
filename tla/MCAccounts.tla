------------------------------ MODULE MCAccounts ------------------------------
(* Small instances of Accounts for TLC.                                    *)
EXTENDS Accounts, TLC

Symmetry == Permutations(Requests) \union Permutations(Tokens)
              \union Permutations(Users) \union Permutations(Passwords)
==============================================================================
