--------------------------------- MODULE Sums ---------------------------------
(* Adding up what a function gives for the members of a finite set.         *)
EXTENDS FiniteSetsExt

SumOver(S, f) == MapThenSumSet(LAMBDA x : f[x], S)
================================================================================
