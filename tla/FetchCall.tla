----------------------------- MODULE FetchCall -----------------------------
(***************************************************************************)
(* One call of fetch_url (tools/fetch_url.py): the URL is looked at, the   *)
(* host resolved, every address checked, and one connected to after the    *)
(* other until an origin is reached, whose body is read up to a limit.     *)
(* One deadline covers all that touches the network.                       *)
(*                                                                         *)
(* httpx gives a connection as long as the deadline gives the whole fetch, *)
(* and later: its ConnectTimeout never comes first, so an address that     *)
(* never answers is not left for the next one.                             *)
(***************************************************************************)
EXTENDS ChildCall

VARIABLE fetch  \* the addresses resolved, and history: what each tried one did

NoFetch == [addresses |-> <<>>, fates |-> <<>>]
FetchStage == {"resolving", "connecting", "reading"}

(* An address and those encoded in it: only the outer one may be public to *)
(* the eye (IPv4 in IPv6, NAT64, Teredo).                                  *)
Address == [outer : {"public"}, inner : {{}, {"private"}}] \cup [outer : {"private"}, inner : {{}}]
Embedded(a) == {a.outer} \cup a.inner
IsDisallowed(a) == Embedded(a) # {"public"}

FetchOver(result, why) ==
  /\ Over(result)
  /\ cause' = why
Untouched == <<ownVars, child, seen, stopped, missed>>

-----------------------------------------------------------------------------
(* No string, another scheme, credentials, a host outside the allowlist, a *)
(* port that is none or not 80 or 443.                                     *)
FetchRefuses ==
  /\ at = "idle" /\ kind = "fetch" /\ calls < MaxCalls
  /\ calls' = calls + 1
  /\ fetch' = NoFetch /\ heard' = 0
  /\ FetchOver("refused", "none")
  /\ UNCHANGED <<kind, streamed, child, seen, stopped, missed>>

FetchStarts ==
  /\ at = "idle" /\ kind = "fetch" /\ calls < MaxCalls
  /\ calls' = calls + 1
  /\ at' = "resolving"
  /\ fetch' = NoFetch /\ heard' = 0
  /\ outcome' = "none" /\ cause' = "none"
  /\ UNCHANGED <<kind, streamed, child, seen, stopped, missed>>

(* All addresses of the answer must be public: one that is not refuses     *)
(* the others with it.  A failed resolution has no address.                *)
FetchResolves ==
  /\ at = "resolving"
  /\ \E addresses \in {<<>>} \cup {<<a>> : a \in Address} \cup (Address \X Address) :
       /\ fetch' = [fetch EXCEPT !.addresses = addresses]
       /\ IF addresses = <<>> \/ \E i \in DOMAIN addresses : IsDisallowed(addresses[i])
          THEN FetchOver("errored", "none")
          ELSE at' = "connecting" /\ UNCHANGED <<cause, outcome>>
  /\ UNCHANGED <<Untouched, heard>>

(* The connection is pinned to the next address.  Refused, there may be    *)
(* another; an error of any other kind ends the fetch; so does an origin   *)
(* that encodes its answer after being told not to.                        *)
FetchConnects ==
  /\ at = "connecting"
  /\ \E fate \in {"refused", "failed", "encoded", "reached"} :
       /\ fetch' = [fetch EXCEPT !.fates = Append(@, fate)]
       /\ CASE fate = "reached" -> at' = "reading" /\ UNCHANGED <<cause, outcome>>
            [] fate = "refused" /\ Len(fetch.fates) + 1 < Len(fetch.addresses) ->
                 UNCHANGED <<at, cause, outcome>>
            [] OTHER -> FetchOver("errored", "none")
  /\ UNCHANGED <<Untouched, heard>>

(* _read_limited: a piece of the body, the last one cut to the limit. *)
FetchReads ==
  /\ at = "reading"
  /\ heard' = heard + 1
  /\ IF heard' < Limit THEN UNCHANGED <<at, cause, outcome>> ELSE FetchOver("fetched", "none")
  /\ UNCHANGED <<Untouched, fetch>>

(* The body ends, or the connection breaks. *)
FetchEnds(result) ==
  /\ at = "reading"
  /\ FetchOver(result, "none")
  /\ UNCHANGED <<Untouched, fetch, heard>>

(* wait_for's deadline, or a cancellation of the task, at any await. *)
FetchStops(result, why) ==
  /\ at \in FetchStage
  /\ FetchOver(result, why)
  /\ UNCHANGED <<Untouched, fetch, heard>>
FetchExpires == FetchStops("timeout", "timeout")
FetchCancelled == FetchStops("cancelled", "cancel")

FetchStep ==
  \/ FetchRefuses \/ FetchStarts \/ FetchResolves \/ FetchConnects \/ FetchReads
  \/ FetchEnds("fetched") \/ FetchEnds("errored") \/ FetchExpires
=============================================================================
