----------------------------- MODULE SlotStore ------------------------------
(***************************************************************************)
(* What the app table promises, whatever banks and keys it is stored in:   *)
(* a table of slots and one stored copy of it.  A slot changes, and is     *)
(* saved then or later; a restart gives back what was saved; a backup      *)
(* comes into an empty table and its copy at once, or not at all.          *)
(***************************************************************************)
EXTENDS Integers

CONSTANTS Slots, Row, NoRow, MaxSequence

VARIABLES
  table,  \* the rows the firmware works with
  stored  \* the rows the next restart loads

vars == <<table, stored>>

Empty == [i \in Slots |-> NoRow]

Init == table = Empty /\ stored = Empty

SavedSlot(i) == [stored EXCEPT ![i] = table'[i]]

(* A new row in slot i is one the firmware has changed just now.            *)
Change(i) ==
  /\ table'[i] \in Row
  /\ table' = [table EXCEPT ![i] = table'[i]]
  /\ table[i] # NoRow => table[i].sequence < table'[i].sequence
  /\ stored' \in {stored, SavedSlot(i)}

Save(i) == table[i] # NoRow /\ UNCHANGED table /\ stored' = SavedSlot(i)

(* The power may go while slot i is being saved.                            *)
Restart(i) ==
  /\ stored' \in {stored, [stored EXCEPT ![i] = table[i]]}
  /\ table' = stored'

(* The rows of a backup are numbered without a gap.                         *)
RestoreAll ==
  /\ table = Empty /\ stored = Empty
  /\ stored' = table'
  /\ \E last \in Slots, base \in 0..MaxSequence :
       \A i \in Slots : IF i <= last
                        THEN table'[i] \in Row /\ table'[i].sequence = base + i + 1
                        ELSE table'[i] = NoRow

Erase == table' = Empty /\ stored' = Empty

Next == (\E i \in Slots : Change(i) \/ Save(i) \/ Restart(i)) \/ RestoreAll \/ Erase

Spec == Init /\ [][Next]_vars
=============================================================================
