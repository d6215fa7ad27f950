---- MODULE MCRunRegistry ----
(* RunRegistry with one page, two runs and a buffer of two chunks.         *)
EXTENDS RunRegistry
CONSTANTS c1
MCClients == {c1}
MCMaxEvents == <<3, 1>>
====
