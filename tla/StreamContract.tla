--------------------------- MODULE StreamContract ---------------------------
(***************************************************************************)
(* What the event stream of one browser run promises whoever iterates it:  *)
(* aexecute runs at most once and only for an iterator somebody began, and *)
(* the iterator is gone only when aexecute has ended.  A reader who drains *)
(* it leaves no task at work behind; a reader who leaves it may, but only  *)
(* those that were at work when aexecute ended, and none starts again.     *)
(***************************************************************************)
CONSTANT Task

VARIABLES
  run,     \* aexecute: "idle", "running", "stopping", "over"
  reader,  \* the iterator: "new", "open", "leaving", "gone"
  working  \* the tasks at work, those that unwind included

streamVars == <<run, reader, working>>

SInit == run = "idle" /\ reader = "new" /\ working = {}

SBegin ==
  /\ reader = "new"
  /\ reader' = "open"
  /\ run' = "running"
  /\ UNCHANGED working

(* Tasks come and go while aexecute runs. *)
SWork ==
  /\ run \in {"running", "stopping"}
  /\ working' \in SUBSET Task
  /\ UNCHANGED <<run, reader>>

(* It waits for them all, unless it was told to stop. *)
SFinish ==
  /\ \/ run = "running" /\ working = {}
     \/ run = "stopping"
  /\ run' = "over"
  /\ UNCHANGED <<reader, working>>

(* The others end by themselves. *)
STrail ==
  /\ run = "over"
  /\ working' \in SUBSET working
  /\ UNCHANGED <<run, reader>>

(* The reader has seen everything, the end included. *)
SDrained ==
  /\ reader = "open"
  /\ run = "over"
  /\ reader' = "gone"
  /\ UNCHANGED <<run, working>>

SLeave ==
  /\ reader = "open"
  /\ reader' = "leaving"
  /\ run' = IF run = "over" THEN "over" ELSE "stopping"
  /\ UNCHANGED working

(* An iterator nobody began has no engine to stop. *)
SDiscard ==
  /\ reader = "new"
  /\ reader' = "gone"
  /\ UNCHANGED <<run, working>>

SLeft ==
  /\ reader = "leaving"
  /\ run = "over"
  /\ reader' = "gone"
  /\ UNCHANGED <<run, working>>

SNext ==
  SBegin \/ SWork \/ SFinish \/ STrail \/ SDrained \/ SLeave \/ SDiscard \/ SLeft

StreamSpec == SInit /\ [][SNext]_streamVars

=============================================================================
