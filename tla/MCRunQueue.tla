---- MODULE MCRunQueue ----
(* RunQueue with two threads sharing four callers, three deep.             *)
EXTENDS RunQueue
CONSTANTS t1, t2, j1, j2, j3, j4
MCThreads == {t1, t2}
MCJobs == {j1, j2, j3, j4}
MCExpiring == {j1}
====
