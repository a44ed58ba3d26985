----------------------------- MODULE MCServices -----------------------------
(* Small instances of the parts that share no state.                       *)
EXTENDS Services

\* Two filings and a table of coverage c, a filing of coverage d.
MCChunk == [p \in {"f1", "f1a", "f1b", "f2t", "g1"} |->
    CASE p = "f1" -> [coverage |-> "c", type |-> "parent", parent |-> "", doc |-> "f",
                      words |-> <<"sales", "rose", "four", "costs", "fell">>]
      [] p = "f1a" -> [coverage |-> "c", type |-> "child", parent |-> "f1", doc |-> "f",
                       words |-> <<"sales", "rose", "four">>]
      [] p = "f1b" -> [coverage |-> "c", type |-> "child", parent |-> "f1", doc |-> "f",
                       words |-> <<"costs", "fell">>]
      [] p = "f2t" -> [coverage |-> "c", type |-> "table", parent |-> "", doc |-> "h",
                       words |-> <<"sales", "costs">>]
      [] p = "g1" -> [coverage |-> "d", type |-> "child", parent |-> "", doc |-> "g",
                      words |-> <<"sales", "rose", "nine">>]]
MCQueries == {<<"sales", "rose">>, <<"costs">>, <<"the">>}
MCQuotes == {<<"sales", "rose", "four">>, <<"sales", "rose", "nine">>, <<"the">>, <<"tax">>}

\* Two fiscal years, the last quarter of the first, the first of the second.
MCPeriods == {[year |-> 1, quarter |-> 0], [year |-> 2, quarter |-> 0],
              [year |-> 1, quarter |-> 4], [year |-> 2, quarter |-> 1]}
MCRecipients == <<"u", "v">>
MCContents == {<<>>, <<1, 2>>, <<2, 3, 2>>}
=============================================================================
