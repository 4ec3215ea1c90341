----------------------------- MODULE MCGateway -----------------------------
EXTENDS Gateway, TLC

MCErrand == ("c1" :> "cascade") @@ ("n1" :> "narrative") @@ ("a1" :> "assistant")

Clear == [merchant |-> "known", rail |-> "upi", p2m |-> FALSE,
          hostile |-> FALSE, wellFormed |-> TRUE, leaks |-> FALSE]

MCMerchants == {Clear, [Clear EXCEPT !.merchant = "unmatched"],
                [Clear EXCEPT !.hostile = TRUE], [Clear EXCEPT !.leaks = TRUE]}

Good == [form |-> "category", echo |-> FALSE, shape |-> FALSE]

\* A call that fails is counted like one that is answered well, and has no
\* member of its own.
MCResponses == {Good, [Good EXCEPT !.form = "unknown category", !.echo = TRUE],
                [Good EXCEPT !.form = "not a number"],
                [Good EXCEPT !.form = "prose"],
                [Good EXCEPT !.form = "tool calls"],
                [Good EXCEPT !.form = "invented figure"]}
=============================================================================
