------------------------------ MODULE ChildCall ------------------------------
(***************************************************************************)
(* What a call that runs a child process shares, whether the child is a    *)
(* CLI agent (providers/cli_agent.py) or code written by a model           *)
(* (tools/sandbox.py, tools/docker_sandbox.py): the child and its output   *)
(* pipe, which the operating system moves, and where the caller stands.    *)
(*                                                                         *)
(* stdout and stderr are one pipe of lines.  A descendant of the child may *)
(* leave its process group and keep the pipe's write end: no kill reaches  *)
(* it, and nothing obliges it ever to let go.  asyncio's Process.wait()    *)
(* returns once the process is dead and its pipes are disconnected.  A     *)
(* fetch (tools/fetch_url.py) has a connection and no child.               *)
(***************************************************************************)
EXTENDS Integers, Sequences

CONSTANTS
  Kinds,     \* those of {"claude", "codex", "host", "docker", "fetch"} to look at
  PipeRoom,  \* lines the pipe holds
  MaxLines,  \* bound: lines a child writes
  Limit,     \* lines the caller retains
  MaxCalls   \* bound: calls one task makes

ASSUME BoundsAssumption ==
  /\ Kinds \subseteq {"claude", "codex", "host", "docker", "fetch"}
  /\ {PipeRoom, MaxLines, Limit, MaxCalls} \subseteq Nat \ {0}

VARIABLES
  kind,      \* who runs the child, or "fetch"
  streamed,  \* the CLI's lines are relayed as they come
  child,     \* see NoChild
  at,        \* where the caller is suspended
  cause,     \* what made it stop the child
  outcome,   \* what the last call returned or raised
  heard,     \* lines read in this call
  seen,      \* the terminal envelope among them
  stopped,   \* on_text asked for an early stop
  missed,    \* a docker kill that reached no container
  calls      \* calls made

callVars == <<kind, streamed, child, at, cause, outcome, heard, seen, stopped, missed, calls>>
ownVars == <<kind, streamed, calls>>

Cli == {"claude", "codex"}
Life == {"none", "pending", "alive", "dead"}   \* "pending": docker is creating it
Envelope == {"done", "failed"}                 \* what ends a turn on the wire
Line == {"text"} \cup Envelope

NoChild == [life |-> "none", client |-> FALSE, held |-> FALSE, open |-> FALSE,
            unread |-> <<>>, wrote |-> 0, code |-> 0]
Fresh(life) == [NoChild EXCEPT !.life = life, !.client = TRUE, !.open = TRUE]

(* The process asyncio spawned: under docker the client, else the child. *)
ProcDead == IF kind = "docker" THEN ~child.client ELSE child.life = "dead"
HungUp == ProcDead /\ ~child.held
Waitable == ProcDead /\ (HungUp \/ ~child.open)
Drained == child.unread = <<>> /\ (HungUp \/ ~child.open)

CallTypeOK ==
  /\ kind \in Kinds
  /\ streamed \in BOOLEAN
  /\ child \in [life : Life, client : BOOLEAN, held : BOOLEAN, open : BOOLEAN,
                unread : Seq(Line), wrote : 0..MaxLines, code : {0, 1, -9}]
  /\ at \in {"idle", "running", "settling", "letting", "reaping", "releasing",
             "killing", "terminating", "again", "collecting",
             "resolving", "connecting", "reading"}
  /\ cause \in {"none", "timeout", "limit", "cancel", "raise"}
  /\ outcome \in {"none", "whole", "partial", "error", "normal", "limited",
                  "timeout", "raised", "cancelled", "refused", "errored", "fetched"}
  /\ heard \in 0..MaxLines
  /\ seen \in {"none"} \cup Envelope
  /\ stopped \in BOOLEAN
  /\ missed \in BOOLEAN
  /\ calls \in 0..MaxCalls

CallInit ==
  /\ kind \in Kinds
  /\ streamed \in (IF kind \in Cli THEN BOOLEAN ELSE {FALSE})
  /\ child = NoChild
  /\ at = "idle"
  /\ cause = "none"
  /\ outcome = "none"
  /\ heard = 0
  /\ seen = "none"
  /\ stopped = FALSE
  /\ missed = FALSE
  /\ calls = 0

-----------------------------------------------------------------------------
(* The operating system.  Nothing here is fair: a child may sleep for ever. *)

Become(c) ==
  /\ child' = c
  /\ UNCHANGED <<kind, streamed, at, cause, outcome, heard, seen, stopped, missed, calls>>

Ended == child.unread # <<>> /\ child.unread[Len(child.unread)] \in Envelope

ChildWrites(line) ==
  /\ child.life = "alive" /\ child.open
  /\ Len(child.unread) < PipeRoom /\ child.wrote < MaxLines
  /\ seen = "none" /\ ~Ended
  /\ line \in Envelope => kind \in Cli
  /\ Become([child EXCEPT !.unread = Append(@, line), !.wrote = @ + 1])
ChildDetaches ==
  /\ child.life = "alive" /\ kind # "docker" /\ ~child.held
  /\ Become([child EXCEPT !.held = TRUE])
ChildExits(code) ==
  /\ child.life = "alive"
  /\ Become([child EXCEPT !.life = "dead", !.client = FALSE, !.code = code])
HolderLetsGo == child.held /\ Become([child EXCEPT !.held = FALSE])

(* The daemon creates the container, whether or not the client still lives. *)
ContainerStarts ==
  /\ child.life = "pending"
  /\ Become([child EXCEPT !.life = "alive"])

Environment ==
  \/ \E line \in Line : ChildWrites(line)
  \/ \E code \in {0, 1} : ChildExits(code)
  \/ ChildDetaches
  \/ HolderLetsGo
  \/ ContainerStarts

-----------------------------------------------------------------------------
(* _killpg reaches the process group, whoever left it aside.               *)
Killed(c) ==
  IF c.life = "alive"
    THEN [c EXCEPT !.life = "dead", !.client = FALSE, !.code = -9]
    ELSE c

(* _release_pipes: our ends are closed, so the wait no longer hangs on     *)
(* whoever holds the other ends.                                           *)
Released(c) == [c EXCEPT !.open = FALSE]

Over(result) ==
  /\ at' = "idle"
  /\ outcome' = result
=============================================================================
