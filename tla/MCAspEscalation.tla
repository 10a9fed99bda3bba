-------------------------- MODULE MCAspEscalation ---------------------------
(***************************************************************************)
(* Providers for the runs of AspEscalation: one of each kind the engine    *)
(* treats differently.                                                     *)
(***************************************************************************)
EXTENDS AspEscalation, TLC

CONSTANTS s1, s2, unlocker

OneSlot  == {s1}
TwoSlots == {s1, s2}

MixedChain == <<Grid, Captcha, unlocker>>
LocalChain == <<Local, unlocker>>
PaidOnly   == {unlocker}
UnitCost   == [v \in {Local, Grid, Captcha, unlocker} |-> IF v \in {Grid, Captcha} THEN 0 ELSE 1]
CostOf     == [v \in Providers |-> UnitCost[v]]

SlotSymmetry == Permutations(Slots)
=============================================================================
