------------------------------ MODULE MCPhases ------------------------------
(* Three candidates, the first behind the subscription gate. *)
EXTENDS Phases
MCCandidates == <<"plus", "card", "spare">>
=============================================================================
