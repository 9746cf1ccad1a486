---------------------------- MODULE MCStaticInit ----------------------------
(* Two threads, two process-wide guards and one that is `static threaded`. *)
EXTENDS StaticInit, TLC

CONSTANTS t1, t2, a, b, c

MCThreads == {t1, t2}
MCGuards == {a, b, c}
MCHome == [g \in MCGuards |-> IF g = c THEN t1 ELSE None]
=============================================================================
