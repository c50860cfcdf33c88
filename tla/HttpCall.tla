------------------------------ MODULE HttpCall ------------------------------
(***************************************************************************)
(* One call of an HTTP provider (openai_compat.py, anthropic.py): complete *)
(* and stream, the reading of what the server sends, and the translation   *)
(* of every exception into a ProviderError with its flags.                 *)
(***************************************************************************)
EXTENDS Integers

CONSTANT MaxPieces  \* bound: pieces of text in one answer
ASSUME HttpAssumption == MaxPieces \in Nat

VARIABLES
  http,    \* "closed", "opening", "streaming"
  pieces,  \* pieces of text so far, each handed to on_text
  stop,    \* the last stop reason on the wire, "none" before there is one
  reply    \* what the caller has been given

httpVars == <<http, pieces, stop, reply>>

Plan == {"plan_included", "plan_credit"}

(* A server's or a socket's error: its status, 0 for none, what the body   *)
(* says, and whether the SDK or the operating system calls it a network    *)
(* error.  408 is treated like 500; 401 and 403 like 404.                  *)
Says == {"depleted", "rate_limit", "no_such_model", "nothing"}
ServerErrors ==
  [status : {400, 404, 429, 500}, says : Says, network : {"no"}]
NetworkError == [status |-> 0, says |-> "nothing", network |-> "sdk"]
BrokenPipe == [status |-> 0, says |-> "nothing", network |-> "os"]

NoFlags == [retryable |-> FALSE, quota |-> FALSE, candidate |-> FALSE, provider |-> FALSE]

(* classify_429. *)
RateLimited(says, billing) ==
  IF says = "depleted" \/ (says # "rate_limit" /\ billing \in Plan)
  THEN [NoFlags EXCEPT !.quota = TRUE]
  ELSE [NoFlags EXCEPT !.retryable = TRUE]

(* _to_provider_error of the two adapters: only openai_compat counts the   *)
(* operating system's ConnectionErrors among the transient ones.           *)
Flags(adapter, err, billing) ==
  IF err.says = "depleted" THEN [NoFlags EXCEPT !.quota = TRUE]
  ELSE IF err.status = 429 THEN RateLimited(err.says, billing)
  ELSE IF err.says = "no_such_model" THEN [NoFlags EXCEPT !.candidate = TRUE]
  ELSE [NoFlags EXCEPT
          !.retryable = \/ err.status = 408 \/ err.status >= 500
                        \/ err.network = "sdk"
                        \/ err.network = "os" /\ adapter = "openai",
          !.provider = err.status \in {401, 403, 404}]

NoReply == [kind |-> "none"]
Error(adapter, err, billing) ==
  [kind |-> "error", err |-> err, flags |-> Flags(adapter, err, billing)]
Response(text, reason) == [kind |-> "response", text |-> text, stop |-> reason]
Escapes(why) == [kind |-> "raised", why |-> why]

HttpTypeOK ==
  /\ http \in {"closed", "opening", "streaming"}
  /\ pieces \in 0..MaxPieces
  /\ stop \in {"none", "stop", "length", "tool_calls"}
  /\ reply.kind \in {"none", "error", "response", "raised"}

HttpInit == http = "closed" /\ pieces = 0 /\ stop = "none" /\ reply = NoReply

(* _canonical_stop_reason; anthropic sends these names itself. *)
Canonical(wire) ==
  IF wire = "none" THEN "unknown"
  ELSE IF wire = "stop" THEN "end_turn"
  ELSE IF wire = "length" THEN "max_tokens" ELSE "tool_use"

Returns(answer) == http' = "closed" /\ reply' = answer

-----------------------------------------------------------------------------
HttpOpens ==
  /\ http = "closed"
  /\ http' = "opening"
  /\ pieces' = 0 /\ stop' = "none" /\ reply' = NoReply

(* An error instead of an answer, or in the middle of one. *)
HttpFails(adapter, billing) ==
  \E err \in (IF http = "opening" THEN ServerErrors ELSE {}) \cup {NetworkError} :
    /\ http # "closed"
    /\ Returns(Error(adapter, err, billing))
    /\ UNCHANGED <<pieces, stop>>

(* complete: the whole answer at once.  openai_compat takes choices[0]     *)
(* outside its try block.                                                  *)
HttpAnswers(adapter) ==
  /\ http = "opening"
  /\ \/ \E n \in 0..MaxPieces, wire \in {"stop", "length", "tool_calls", "none"} :
          Returns(Response(n, Canonical(wire)))
     \/ adapter = "openai" /\ Returns(Escapes("IndexError"))
  /\ UNCHANGED <<pieces, stop>>

HttpStartsStream ==
  /\ http = "opening"
  /\ http' = "streaming"
  /\ UNCHANGED <<pieces, stop, reply>>

(* A piece of text reaches on_text, which prints it; what on_text raises   *)
(* is caught with what the SDK raises.                                     *)
HttpPiece(adapter, billing, printable) ==
  /\ http = "streaming" /\ stop = "none" /\ pieces < MaxPieces
  /\ pieces' = pieces + 1
  /\ IF printable THEN UNCHANGED <<http, reply>>
     ELSE Returns(Error(adapter, BrokenPipe, billing))
  /\ UNCHANGED stop

HttpStopReason(wire) ==
  /\ http = "streaming" /\ stop = "none"
  /\ stop' = wire
  /\ UNCHANGED <<http, pieces, reply>>

HttpEndsStream ==
  /\ http = "streaming"
  /\ Returns(Response(pieces, Canonical(stop)))
  /\ UNCHANGED <<pieces, stop>>
=============================================================================
