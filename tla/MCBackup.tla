------------------------------ MODULE MCBackup ------------------------------
EXTENDS BackupProperties, TLC
CONSTANTS A, B, C, Low, High
ThreeApps == {A, B, C}
TwoValues == {Low, High}
NothingSaved == {<<>>}
TwoSaved == {s \in [1..2 -> [app : ThreeApps, value : TwoValues]] :
               s[1].app # s[2].app /\ s[1].value # s[2].value}
MaybeSaved == {<<>>} \cup TwoSaved
Symmetry == Permutations(ThreeApps) \cup Permutations(TwoValues)
=============================================================================
