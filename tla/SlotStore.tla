------------------------------ MODULE SlotStore ------------------------------
(***************************************************************************)
(* What an annotation store promises its readers, with no rids, rows or    *)
(* transactions: a slot shows the value of the last committed write, or,   *)
(* after a revert, a value written to that very slot before, or nothing.   *)
(* Writing one slot never changes what another shows.                      *)
(***************************************************************************)
CONSTANTS Slots, Values, NoValue

VARIABLES
  shown,    \* [Slots -> Values or NoValue]: what a reader of the slot sees
  written   \* [Slots -> SUBSET Values]: everything ever written to the slot

vars == <<shown, written>>

Init ==
  /\ shown = [s \in Slots |-> NoValue]
  /\ written = [s \in Slots |-> {}]

Put(s, v) ==
  /\ shown' = [shown EXCEPT ![s] = v]
  /\ written' = [written EXCEPT ![s] = @ \cup {v}]

Undo(s, v) ==
  /\ v \in written[s] \cup {NoValue}
  /\ shown' = [shown EXCEPT ![s] = v]
  /\ UNCHANGED written

Next ==
  \E s \in Slots :
    \/ \E v \in Values : Put(s, v)
    \/ \E v \in Values \cup {NoValue} : Undo(s, v)

Spec == Init /\ [][Next]_vars
=============================================================================
