------------------------------ MODULE MCServices ------------------------------
EXTENDS Services, TLC
CONSTANTS A, B
TwoApps == {A, B}
=============================================================================
