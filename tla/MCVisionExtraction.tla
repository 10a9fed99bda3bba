------------------------- MODULE MCVisionExtraction -------------------------
(***************************************************************************)
(* Two tasks, one page and one model call at a time.                       *)
(***************************************************************************)
EXTENDS VisionExtraction

CONSTANTS t1, t2

TwoTasks == {t1, t2}
OneTimed == {t2}
Pair(a, b) == [t \in TwoTasks |-> IF t = t1 THEN a ELSE b]
Pairs == {Pair("fetch", "shots"), Pair("captcha", "fetch"), Pair("plain", "text"),
          Pair("shots", "captcha"), Pair("text", "plain")}
=============================================================================
