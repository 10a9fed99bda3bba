--------------------------- MODULE MCBrowserGrid ----------------------------
(***************************************************************************)
(* Model values for the run of BrowserGrid.                                *)
(***************************************************************************)
EXTENDS BrowserGrid

CONSTANTS j1, j2, w1, w2

TwoJobs    == {j1, j2}
TwoWorkers == {w1, w2}
=============================================================================
