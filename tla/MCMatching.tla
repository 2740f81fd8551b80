----------------------------- MODULE MCMatching -----------------------------
(* Four agents of three providers with scores on both sides of the floors. *)
EXTENDS Matching, TLC

Row(provider, lexical, rep, valid, samples, exposed) ==
    [fits |-> TRUE, provider |-> provider, lexical |-> lexical, reputation |-> <<rep, rep, rep, rep, 100>>,
     checked |-> 0, valid |-> valid, active |-> 0, max |-> 1, duration |-> 1, price |-> 0,
     samples |-> samples, exposed |-> exposed]

MCProfile(a) ==
    CASE a = 1 -> {Row("p", 10000, 100, 9, 0, 0), Row("p", 3333, 60, 9, 0, 0)}
      [] a = 2 -> {Row("p", 10000, 80, 9, 30, 1)}
      [] a = 3 -> {Row("q", 6667, 80, 1, 30, 1), Row("me", 10000, 100, 9, 0, 0)}
      [] a = 4 -> {Row("r", 0, 100, 9, 30, 0), [Row("r", 6667, 100, 9, 0, 0) EXCEPT !.price = 1]}

MCJudgement == {[fits |-> FALSE, reputation |-> <<100, 100, 100, 100, 100>>]}
Symmetry == Permutations(Op)

MCDense == {Unavailable, (1 :> 4000) @@ (2 :> 0) @@ (3 :> 10001) @@ (4 :> 10000)}
MCDelta == {(1 :> 20) @@ (2 :> -20) @@ (3 :> 20) @@ (4 :> -20),
            (1 :> -20) @@ (2 :> -5) @@ (3 :> -3) @@ (4 :> 20)}
=============================================================================
