------------------------------ MODULE MCEvidence ------------------------------
(***************************************************************************)
(* Evidence on two code goals and one of each other type, two projects,    *)
(* two wires, and environments with each way of getting one wrong.         *)
(***************************************************************************)
EXTENDS Evidence

CONSTANTS c1, c2, r, w, a, p1, p2

MCGoals == {c1, c2, r, w, a, p1, p2}
MCRepo == {p1, p2}
MCTypeOf ==
  [g \in MCGoals |-> CASE g = r -> "research" [] g = w -> "write" [] g = a -> "analyze"
                       [] OTHER -> "code"]
MCBlank == 999
MCUnsafe == {MCBlank, 998}
MCNamed == {901, 998}
MCWires == {1, 2}
MCSuites ==
  {[goals |-> <<c1>>, k |-> 1], [goals |-> <<p1, p2>>, k |-> 1], [goals |-> <<p1>>, k |-> 2]}
MCKnownWires == {1}

On == [on |-> TRUE, plural |-> Null, singular |-> Null, names |-> Null, name |-> Null,
       tier |-> Null, price |-> Null]
Slot(base, wire) ==
  [base |-> base, wire |-> wire, name |-> Null, tier |-> Null, price |-> Null]

MCSettings ==
  [anthropic |->
     {Off, On, [On EXCEPT !.plural = <<1, 2>>],
      [On EXCEPT !.plural = <<1, 2>>, !.names = <<101>>],           \* one name short
      [On EXCEPT !.plural = <<1, 2>>, !.names = <<102, 101>>],
      [On EXCEPT !.plural = <<1, 1>>],
      [On EXCEPT !.plural = <<MCBlank>>, !.singular = <<1>>],
      [On EXCEPT !.singular = <<2>>, !.name = <<201>>],             \* a slot's default id
      [On EXCEPT !.singular = <<2>>, !.names = <<MCBlank>>, !.tier = MCBlank],
      [On EXCEPT !.tier = 9]},
   compat |->
     {<< >>, 0 :> Slot(TRUE, 1), 0 :> Slot(FALSE, 1), 0 :> Slot(TRUE, Null),
      0 :> Slot(TRUE, 1) @@ 2 :> Slot(TRUE, 1),                     \* the same id twice
      0 :> Slot(TRUE, 1) @@ 2 :> [Slot(TRUE, 2) EXCEPT !.price = 2],
      0 :> Slot(TRUE, 1) @@ 3 :> Slot(TRUE, 2),                     \* a gap
      0 :> Slot(TRUE, 1) @@ 2 :> Slot(FALSE, 2),                    \* no endpoint
      1 :> Slot(TRUE, 1),
      2 :> [Slot(TRUE, 2) EXCEPT !.name = 401]},
   moonshot |-> {Off, On},
   ollama |-> {Off, On},
   claude |-> {Off, On, [On EXCEPT !.plural = <<1, 2>>]},
   codex |-> {Off, On, [On EXCEPT !.tier = 3, !.singular = <<1>>], [On EXCEPT !.tier = 2]}]

MCOverrides ==
  {<< >>, 101 :> [tier |-> 2], 201 :> [maxOut |-> 200000], 201 :> [tier |-> 5], 998 :> << >>}

Scored(x) ==
  [taskScores |-> [code |-> x], confidence |-> 2500, overall |-> Unclaimed,
   reliability |-> Unclaimed]
MCProfileFiles ==
  {NoFile, [kind |-> "broken"],
   [kind |-> "profiles", of |-> 101 :> Scored(9000) @@ 777 :> Scored(0)],
   [kind |-> "profiles", of |-> 777 :> Scored(5000)],
   [kind |-> "profiles", of |-> 201 :> Scored(10001)]}

MCAsked == {101, 501, 777}
=============================================================================
