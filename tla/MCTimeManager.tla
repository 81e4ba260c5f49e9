--------------------------- MODULE MCTimeManager ---------------------------
EXTENDS TimeManager

CONSTANTS t1, t2

\* The extended task is also primed with 0, which continues it.
McDelays == (t1 :> {0, 1}) @@ (t2 :> {1})
=============================================================================
