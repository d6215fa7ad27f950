---- MODULE MCSystemSignals ----
(* Instances of SystemSignals: a restart, a background tool, an approval   *)
(* and a fact, of which each configuration takes two or three.             *)
EXTENDS SystemSignals

CONSTANTS r1, b1, a1, f1, t1, t2, t3

====
