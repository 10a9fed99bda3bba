---------------------------- MODULE MCSourceGate ----------------------------
(***************************************************************************)
(* Model values for the run of SourceGate.                                 *)
(***************************************************************************)
EXTENDS SourceGate

CONSTANTS s1, f1, f2

OneSource  == {s1}
TwoFetches == {f1, f2}
=============================================================================
