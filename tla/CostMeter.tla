----------------------------- MODULE CostMeter -----------------------------
(***************************************************************************)
(* The cost meter (cost.py): tokens added up per model, and beside them    *)
(* those of the calls whose provider named its own price, so that only the *)
(* rest is priced at the model's rates.  Money is in thousandths of what a *)
(* rate is given in, so that it stays whole.                               *)
(***************************************************************************)
EXTENDS Integers, FiniteSets, Sums

(* What one response says it used: usd is NoPrice when the provider names  *)
(* no price, estimated says its tokens were counted by us.                 *)
NoPrice == -1
Usage(in, out, estimated, usd) == [in |-> in, out |-> out, estimated |-> estimated, usd |-> usd]

NewMeter == [totals |-> <<>>, direct |-> <<>>, estimated |-> FALSE]

NoTokens == [in |-> 0, out |-> 0, estimated |-> FALSE, usd |-> 0]
At(book, id) == IF id \in DOMAIN book THEN book[id] ELSE NoTokens
Plus(a, b) ==
  [in |-> a.in + b.in, out |-> a.out + b.out, estimated |-> a.estimated \/ b.estimated,
   usd |-> a.usd + b.usd]
Joined(book, other) ==
  [id \in DOMAIN book \cup DOMAIN other |-> Plus(At(book, id), At(other, id))]

Add(meter, id, use) ==
  [totals |-> Joined(meter.totals, [i \in {id} |-> [use EXCEPT !.usd = 0]]),
   direct |-> IF use.usd = NoPrice THEN meter.direct
              ELSE Joined(meter.direct, [i \in {id} |-> [use EXCEPT !.estimated = FALSE]]),
   estimated |-> meter.estimated \/ use.estimated]

(* Mutant: the probe's tokens are replayed without the prices named for    *)
(* them.                                                                   *)
MergeTokens(meter, other) ==
  [totals |-> Joined(meter.totals, other.totals),
   direct |-> meter.direct,
   estimated |-> meter.estimated \/ other.estimated]

Merge(meter, other) ==
  [totals |-> Joined(meter.totals, other.totals),
   direct |-> Joined(meter.direct, other.direct),
   estimated |-> meter.estimated \/ other.estimated]

-----------------------------------------------------------------------------
Charged(meter, m) ==
  LET all == At(meter.totals, m.id)
      named == At(meter.direct, m.id)
      rest(a, b) == IF a > b THEN a - b ELSE 0
  IN  rest(all.in, named.in) * m.costIn + rest(all.out, named.out) * m.costOut + named.usd

(* costs_usd: cash and plan credit apart. *)
CostsUsd(meter, models) ==
  LET sum(S) == SumOver(S, [m \in S |-> Charged(meter, m)])
      used == {m \in models : m.id \in DOMAIN meter.totals}
  IN  [billed |-> sum({m \in used : m.billing = "card"}),
       credit |-> sum({m \in used : m.billing # "card"})]

(* The warning under the price: tokens were used at no rate. *)
Unpriced(meter, models) ==
  {m \in models : /\ m.id \in DOMAIN meter.totals
                  /\ At(meter.totals, m.id).in + At(meter.totals, m.id).out > 0
                  /\ m.costIn = 0 /\ m.costOut = 0}
=============================================================================
