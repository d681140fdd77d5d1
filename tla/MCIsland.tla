------------------------------- MODULE MCIsland -------------------------------
(* Small instances of Island for TLC.                                      *)
EXTENDS Island, TLC

CONSTANTS d, u

OneDevice == [p \in Pages |-> d]
OneAccount == [x \in Devices |-> u]
Clicks == {{o} : o \in OptionIds}
Symmetry == Permutations(Tokens) \union Permutations(Pages)
==============================================================================
