--------------------------- MODULE MCDataProducts ---------------------------
(***************************************************************************)
(* An instance of DataProducts for TLC: two products, one of which takes   *)
(* from the other.                                                         *)
(***************************************************************************)
EXTENDS DataProducts, TLC

M(name, product, facts, materialized, pool, deps) ==
    [name |-> name, product |-> product, facts |-> facts,
     materialized |-> materialized, pool |-> pool, deps |-> deps]

\* c360: src, from a source and a seed, and fct; crm: one model on c360 and on
\* sources.  Pools are pinned or not; the crm model streams or does not.
MCManifests ==
    {[model |-> "m1" :> M("src", "c360", FALSE, "materialized_table", pools[1], {"s1", "seed"})
             @@ "m2" :> M("fct", "c360", TRUE, "view", None, {"m1"})
             @@ "m3" :> M("crm", "crm", FALSE, kind, pools[2], deps),
      source |-> "s1" :> "raw" @@ "s2" :> "src"] :
        pools \in {<<None, "lf2">>, <<"lf2", None>>},
        kind \in TableTypes, deps \in {{"m1", "s2"}, {"m1", "m2", "s1", "s2"}}}

MCTopicId == [n \in Names |-> "topic_" \o n]
MCStatementName == [n \in Names |-> "stmt-" \o n]

\* Statements take four pages, of which the last is never read; tables take two,
\* of which the second leads back to the first.
MCPages == [l \in Lists |-> IF l = "tables" THEN 2 ELSE 4]
MCPageOf == [n \in Listed |-> CASE n = "stmt-crm" -> 2 [] n = "stmt-fct" -> 4 [] OTHER -> 1]
MCCyclic == {"tables"}
E1(phase) == [phase |-> phase, started |-> TRUE]
MCClouds ==
    {[l \in Cloud |-> [n \in Listed |->
        CASE l = "statements" /\ n = "stmt-crm" -> E1(phase)
          [] l = "statements" /\ n = "stmt-fct" -> [E1("FAILED") EXCEPT !.started = FALSE]
          [] l = "tables" /\ n = "src" -> E1("RUNNING")
          [] l = "tables" /\ n = "crm" /\ phase = "FAILED" -> E1(None)
          [] OTHER -> None]] : phase \in {"RUNNING", "FAILED"}}
MCChanges == {<<"statements", "stmt-crm", E1("COMPLETED")>>, <<"statements", "stmt-crm", None>>,
              <<"tables", "src", E1("FAILED")>>, <<"tables", "src", None>>}

I(day, flink, pool, amount) ==
    [day |-> day, flink |-> flink, pool |-> pool, amount |-> amount]
MCBills == << {I(1, TRUE, "lf1", 3), I(1, TRUE, "lf2", 40), I(1, FALSE, "lf1", 90)},
              {I(2, TRUE, "lf1", 1), I(2, TRUE, "lf2", 21), I(2, TRUE, None, 50)} >>
=============================================================================
