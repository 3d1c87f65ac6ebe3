---------------------------- MODULE MCController ----------------------------
EXTENDS ControllerProperties, TLC
CONSTANTS a, b
OneApp == {a}
TwoApps == {a, b}
OneSaved == (a :> 3)
FarSaved == (a :> 7)
TwoSaved == (a :> 0 @@ b :> 3)
=============================================================================
