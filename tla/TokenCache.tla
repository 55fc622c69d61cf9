------------------------------ MODULE TokenCache ------------------------------
(***************************************************************************)
(* The token cache as an object: insert_token is the only operation that   *)
(* changes it, and nothing is ever evicted.  Texts are compared as they    *)
(* are: clean is for the table alone.                                      *)
(***************************************************************************)
EXTENDS TokenDedup, Naturals, FiniteSets

CONSTANTS
    Tokens,       \* the tokens that are created
    MaxInserted   \* bound: how many different tokens are inserted

ASSUME TokensAssumption == Tokens \subseteq Attributes

VARIABLES
    cache,      \* AppState.token_cache
    inserted    \* history: the arguments of all insertions

vars == <<cache, inserted>>

Init ==
    /\ cache = EmptyCache
    /\ inserted = {}

\* process_fast_create caches a token that it broadcasts, process_slow_create one
\* that it has saved; each holds the lock for this one call.
Insert(t) ==
    /\ cache' = insert_token(cache, t)
    /\ inserted' = inserted \cup {t}

Next ==
    \E t \in Tokens :
        /\ Cardinality(inserted \cup {t}) <= MaxInserted
        /\ Insert(t)

Spec == Init /\ [][Next]_vars

-----------------------------------------------------------------------------
TypeOK ==
    /\ cache \in TokenCache
    /\ inserted \subseteq Attributes

\* The maps of pairs and of single attributes together remember exactly the
\* tokens inserted: check_duplicate finds a copy of each of them, and nothing
\* that mixes the attributes of two tokens.
CacheIsExact ==
    \A q \in Attributes :
        check_duplicate(cache, q) <=> \E t \in inserted : Resembles(t, q)

\* Both of them: the cache is well formed and exact.
CacheInv == TypeOK /\ CacheIsExact
=============================================================================
