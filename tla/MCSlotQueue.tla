---------------------------- MODULE MCSlotQueue ----------------------------
(***************************************************************************)
(* SlotQueue on small instances: a week of two instants and lists of one   *)
(* or two slots.                                                           *)
(***************************************************************************)
EXTENDS SlotQueue

CONSTANT c1

OneQueue == [p \in Posts |-> c1]

\* One slot; the same slot twice.
FewLists == {<<0>>, <<1, 1>>}

\* Two slots.
OneList == {<<0, 1>>}

=============================================================================
