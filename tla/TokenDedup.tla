------------------------------ MODULE TokenDedup ------------------------------
(***************************************************************************)
(* The two tests by which the server takes a new token for a copy of an    *)
(* earlier one: TokenCache::check_duplicate on the in-memory cache         *)
(* (tokenir/src/main.rs) and the query token_any_exists on table tokens    *)
(* (tokenir/src/database.rs).  Both compare the same five attributes.      *)
(***************************************************************************)
CONSTANTS
    Text,    \* the strings that occur as attributes
    Clean,   \* clean(): each text without NULs and surrounding blanks
    None

ASSUME CleanAssumption ==
    /\ Clean \in [Text -> Text]
    /\ \A t \in Text : Clean[Clean[t]] = Clean[t]
ASSUME NoneNotText == None \notin Text

Optional == Text \cup {None}

\* The attributes of a token, or the arguments of a test: None is Option::None.
Attributes == [image : Optional, ipfs : Optional, description : Optional,
               name : Optional, ticker : Optional]

\* The values an optional attribute contributes to a set of the cache.
Some(x) == {x} \ {None}

-----------------------------------------------------------------------------
(***************************************************************************)
(* TokenCache.  Two of its maps, descriptions and tickers, are written and *)
(* never read; they are left out.                                          *)
(***************************************************************************)
TokenCache == [images : SUBSET Text, ipfs : SUBSET Text, names : SUBSET Text,
               desc_name_pairs   : SUBSET (Text \X Text),
               desc_ticker_pairs : SUBSET (Text \X Text),
               name_ticker_pairs : SUBSET (Text \X Text)]

EmptyCache == [images |-> {}, ipfs |-> {}, names |-> {},
               desc_name_pairs |-> {}, desc_ticker_pairs |-> {},
               name_ticker_pairs |-> {}]

\* Mutated form of insert_token: the line of the names pasted for the tickers.
InsertNamesTwice(cache, t) ==
    [images            |-> cache.images \cup Some(t.image),
     ipfs              |-> cache.ipfs \cup Some(t.ipfs),
     names             |-> cache.names \cup Some(t.name),
     desc_name_pairs   |-> cache.desc_name_pairs
                              \cup (Some(t.description) \X Some(t.name)),
     desc_ticker_pairs |-> cache.desc_ticker_pairs
                              \cup (Some(t.description) \X Some(t.name)),
     name_ticker_pairs |-> cache.name_ticker_pairs
                              \cup (Some(t.name) \X Some(t.ticker))]

insert_token(cache, t) ==
    [images            |-> cache.images \cup Some(t.image),
     ipfs              |-> cache.ipfs \cup Some(t.ipfs),
     names             |-> cache.names \cup Some(t.name),
     desc_name_pairs   |-> cache.desc_name_pairs
                              \cup (Some(t.description) \X Some(t.name)),
     desc_ticker_pairs |-> cache.desc_ticker_pairs
                              \cup (Some(t.description) \X Some(t.ticker)),
     name_ticker_pairs |-> cache.name_ticker_pairs
                              \cup (Some(t.name) \X Some(t.ticker))]

\* None is a member of no set of the cache, so an absent argument matches
\* nothing.
check_duplicate(cache, q) ==
    \/ q.image \in cache.images
    \/ q.ipfs \in cache.ipfs
    \/ <<q.description, q.name>> \in cache.desc_name_pairs
    \/ <<q.description, q.ticker>> \in cache.desc_ticker_pairs
    \/ <<q.name, q.ticker>> \in cache.name_ticker_pairs
    \/ q.name \in cache.names

-----------------------------------------------------------------------------
(* Table tokens. *)

\* clean and clean_opt, applied by add_token to what it stores.  The arguments
\* of token_any_exists are bound as they are.
CleanOpt(x) == IF x = None THEN None ELSE Clean[x]
Stored(t) == [image |-> CleanOpt(t.image), ipfs |-> CleanOpt(t.ipfs),
              description |-> CleanOpt(t.description),
              name |-> CleanOpt(t.name), ticker |-> CleanOpt(t.ticker)]

\* In SQL a comparison with NULL is not true: Eq is false when x is NULL.
Eq(x, y) == x # None /\ x = y

\* The WHERE clause, for a stored row r and arguments q.
RowMatches(r, q) ==
    \/ Eq(q.image, r.image)
    \/ Eq(q.ipfs, r.ipfs)
    \/ Eq(q.description, r.description) /\ Eq(q.name, r.name)
    \/ Eq(q.description, r.description) /\ Eq(q.ticker, r.ticker)
    \/ Eq(q.name, r.name) /\ Eq(q.ticker, r.ticker)

token_any_exists(rows, q) == \E r \in rows : RowMatches(r, q)

-----------------------------------------------------------------------------
(* What the cache test means, without the cache. *)

\* Token t, inserted earlier, makes check_duplicate answer true for q.
Resembles(t, q) == RowMatches(t, q) \/ Eq(q.name, t.name)
=============================================================================
