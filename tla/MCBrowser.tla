------------------------------ MODULE MCBrowser ------------------------------
(* The values of Browser that a configuration file cannot write.           *)
EXTENDS Browser, Sequences

CONSTANTS m1, m2, m3, m4

\* The tile that shows a sequence of items.
Tile(s) == {<<s[p[1]], s[p[2]]>> : p \in {q \in (DOMAIN s) \X (DOMAIN s) : q[1] <= q[2]}}

MCLeft     == Tile(<<m1, m2>>)
MCRight    == Tile(<<m3, m4>>)
MCColViews == {{"plan"}}
=============================================================================
