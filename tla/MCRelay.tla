------------------------------- MODULE MCRelay -------------------------------
EXTENDS RelayProperties, TLC
CONSTANTS A, B
TwoApps == {A, B}
OneApp == {A}
Symmetry == Permutations(Apps)
=============================================================================
