----------------------------- MODULE MCEventQueue -----------------------------
(***************************************************************************)
(* Small instances of EventQueue: one dispatching thread, as the slave     *)
(* has, two workers, of which one may be cancelled, and a ring of three    *)
(* slots, so that it wraps and holds two elements.                         *)
(***************************************************************************)
EXTENDS EventQueue, TLC

CONSTANTS d1, w1, w2, e1, e2

OneProducer  == {d1}
TwoConsumers == {w1, w2}
TwoElems     == {e1, e2}
OnlyW2       == {w2}
Nobody       == {}
WaitOnly     == {TRUE}
BothModes    == {TRUE, FALSE}

(* The elements are interchangeable. *)
Symmetry == Permutations(TwoElems)
=============================================================================
