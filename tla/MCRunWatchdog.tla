---- MODULE MCRunWatchdog ----
(* RunWatchdog with two tools.                                             *)
EXTENDS RunWatchdog
CONSTANTS a, b
MCTools == {a, b}
====
