--------------------------- MODULE MCTokenDecision ---------------------------
(* Instances of TokenDecision for TLC. *)
EXTENDS TokenDecision, TLC

CONSTANTS c1, t1, t2

OneCreator == {c1}
TwoTokens == {t1, t2}

\* One token with performance whose developer is on the whitelist, one without.
Mixed ==
    t1 :> [creator |-> c1, perf |-> 1, migrated |-> None, whitelisted |-> TRUE] @@
    t2 :> [creator |-> c1, perf |-> None, whitelisted |-> FALSE,
           migrated |-> [count |-> 1, percent |-> 0]]

Low == [start |-> 0, end |-> 2]
MarketCap == <<"AverageDevMarketCap", Low>>
Count == <<"TokenCount", Low>>
FeedEdits == {MarketCap, Count}
PurchaseEdits == {MarketCap}
=============================================================================
