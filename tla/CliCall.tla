------------------------------- MODULE CliCall -------------------------------
(***************************************************************************)
(* One call of a subscription CLI agent: CliAgentProvider.complete and     *)
(* stream over subprocess_cli_runner, with the two adapters' reading of    *)
(* what the child left on the wire.                                        *)
(*                                                                         *)
(*   running    lines are read under the deadline                          *)
(*   settling   the child is killed, _settle waits for the pipes           *)
(*   letting    _settle has closed our ends and waits again                *)
(*   reaping    a finally clause settles once more, and                    *)
(*   releasing  closes our ends once more                                  *)
(*                                                                         *)
(* The prompt's feed ends with the child and is not modelled apart.        *)
(***************************************************************************)
EXTENDS ChildCall

(* Once the retained copy lost a line, claude's single JSON object does not *)
(* parse; codex's line of events is read around the hole.                   *)
Lossy == heard > Limit
Refused == seen = "failed" /\ (kind = "codex" \/ ~Lossy)

(* complete and stream: an early stop is a partial answer whatever the exit *)
(* status; a failure is an error; what reached its terminal envelope is     *)
(* whole, unless the copy has a hole in it.                                 *)
Judged ==
  IF stopped THEN "partial"
  ELSE IF child.code # 0 \/ Refused THEN "error"
  ELSE IF seen = "done" /\ (~Lossy \/ (kind = "codex" /\ ~streamed)) THEN "whole"
  ELSE "partial"

-----------------------------------------------------------------------------
(* The recursion guard refuses before anything is spawned. *)
CliRefuses ==
  /\ at = "idle" /\ kind \in Cli /\ calls < MaxCalls
  /\ calls' = calls + 1
  /\ outcome' = "error"
  /\ UNCHANGED <<kind, streamed, child, at, cause, heard, seen, stopped, missed>>

CliSpawns ==
  /\ at = "idle" /\ kind \in Cli /\ calls < MaxCalls
  /\ calls' = calls + 1
  /\ child' = Fresh("alive")
  /\ at' = "running"
  /\ outcome' = "none" /\ cause' = "none"
  /\ heard' = 0 /\ seen' = "none" /\ stopped' = FALSE
  /\ UNCHANGED <<kind, streamed, missed>>

(* _drain and _pump read on whatever they retain; on_text may stop a stream, *)
(* and the producer is killed.                                               *)
CliReads(stop) ==
  /\ at = "running" /\ kind \in Cli /\ ~stopped /\ child.unread # <<>>
  /\ stop => streamed /\ Head(child.unread) = "text"
  /\ heard' = heard + 1
  /\ seen' = IF Head(child.unread) \in Envelope THEN Head(child.unread) ELSE seen
  /\ stopped' = stop
  /\ child' = LET rest == [child EXCEPT !.unread = Tail(@)]
              IN IF stop THEN Killed(rest) ELSE rest
  /\ UNCHANGED <<kind, streamed, at, cause, outcome, missed, calls>>

CliFinishes ==
  /\ at = "running" /\ kind \in Cli
  /\ Waitable /\ (stopped \/ Drained)
  /\ Over(Judged)
  /\ UNCHANGED <<kind, streamed, child, cause, heard, seen, stopped, missed, calls>>

(* Mutant: the handler settles a child nobody has killed. *)
StopNoKill(why, where) ==
  /\ cause' = why
  /\ at' = where
  /\ UNCHANGED <<kind, streamed, child, outcome, heard, seen, stopped, missed, calls>>

Stop(why, where) ==
  /\ child' = Killed(child)
  /\ cause' = why
  /\ at' = where
  /\ UNCHANGED <<kind, streamed, outcome, heard, seen, stopped, missed, calls>>

CliTimesOut == at = "running" /\ kind \in Cli /\ Stop("timeout", "settling")
CliCancelled == at = "running" /\ kind \in Cli /\ Stop("cancel", "settling")

(* A reader or a callback raises: the finally clause of whoever spawned. *)
CliRaises == at = "running" /\ kind \in Cli /\ Stop("raise", "reaping")

-----------------------------------------------------------------------------
(* _settle: two bounded waits, our pipe ends closed between them.          *)
Verdict ==
  CASE cause = "timeout" -> IF stopped THEN "partial" ELSE "error"
    [] cause = "cancel" -> "cancelled"
    [] cause = "raise" -> "raised"

CliSettles ==
  /\ at \in {"settling", "letting", "reaping", "releasing"}
  /\ Waitable
  /\ Over(Verdict)
  /\ UNCHANGED <<kind, streamed, child, cause, heard, seen, stopped, missed, calls>>

(* Mutant: a bare await proc.wait(). *)
CliLetsGoNever ==
  /\ at \in {"settling", "reaping"} /\ Waitable
  /\ UNCHANGED callVars

CliLetsGo ==
  /\ at \in {"settling", "reaping"}
  /\ child' = Released(child)
  /\ at' = IF at = "settling" THEN "letting" ELSE "releasing"
  /\ UNCHANGED <<kind, streamed, cause, outcome, heard, seen, stopped, missed, calls>>

CliGivesUp ==
  /\ at \in {"letting", "releasing"}
  /\ Over(Verdict)
  /\ UNCHANGED <<kind, streamed, child, cause, heard, seen, stopped, missed, calls>>

(* A second cancellation goes through _settle, which lets it pass; the     *)
(* finally clauses settle again only what is still unreaped.               *)
CliCancelledAgain ==
  /\ at \in {"settling", "letting", "reaping", "releasing"}
  /\ cause' = "cancel"
  /\ \/ at \in {"settling", "letting"} /\ at' = "reaping" /\ UNCHANGED outcome
     \/ (at \in {"reaping", "releasing"} \/ ~streamed) /\ Over("cancelled")
  /\ UNCHANGED <<kind, streamed, child, heard, seen, stopped, missed, calls>>

CliHears == \E stop \in BOOLEAN : CliReads(stop)
CliWaits == CliFinishes \/ CliTimesOut \/ CliSettles \/ CliLetsGo \/ CliGivesUp
CliTakesCancel == CliCancelled \/ CliCancelledAgain
CliStep == CliRefuses \/ CliSpawns \/ CliHears \/ CliWaits \/ CliRaises
=============================================================================
