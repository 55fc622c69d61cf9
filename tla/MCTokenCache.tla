----------------------------- MODULE MCTokenCache -----------------------------
(* Instances of TokenCache for TLC. *)
EXTENDS TokenCache

\* Two texts that clean makes equal; the cache tells them apart.
BlankTexts == {"a", "a "}
CleanBlank == [t \in BlankTexts |-> "a"]

\* A create event always has a name, a symbol and a uri; the metadata may lack
\* an image and a description.
Created == {t \in Attributes : t.name # None /\ t.ticker # None /\ t.ipfs # None}
=============================================================================
