--------------------------- MODULE TokenCacheProofs ---------------------------
(***************************************************************************)
(* Theorems about TokenCache, for every set of texts and of tokens and for *)
(* any number of insertions.                                               *)
(***************************************************************************)
EXTENDS TokenCache, TLAPS

\* An absent attribute adds nothing, and is found nowhere.
LEMMA SomeIsOne ==
  ASSUME NEW x \in Optional, NEW y \in Optional
  PROVE  /\ Some(x) \subseteq Text
         /\ y \in Some(x) <=> Eq(y, x)
BY NoneNotText DEF Optional, Some, Eq

LEMMA PairIsOne ==
  ASSUME NEW x \in Optional, NEW y \in Optional, NEW a \in Optional, NEW b \in Optional
  PROVE  <<a, b>> \in Some(x) \X Some(y) <=> Eq(a, x) /\ Eq(b, y)
<1>1. <<a, b>> \in Some(x) \X Some(y) <=> a \in Some(x) /\ b \in Some(y)
  OBVIOUS
<1>2. QED
  BY <1>1, SomeIsOne

LEMMA Parts ==
  ASSUME NEW t \in Attributes
  PROVE  /\ t.image \in Optional /\ t.ipfs \in Optional /\ t.description \in Optional
         /\ t.name \in Optional /\ t.ticker \in Optional
BY DEF Attributes

\* insert_token keeps the maps well formed.
LEMMA InsertType ==
  ASSUME NEW c \in TokenCache, NEW t \in Attributes
  PROVE  insert_token(c, t) \in TokenCache
<1>1. /\ Some(t.image) \subseteq Text /\ Some(t.ipfs) \subseteq Text
      /\ Some(t.description) \subseteq Text /\ Some(t.name) \subseteq Text
      /\ Some(t.ticker) \subseteq Text
  BY Parts, SomeIsOne
<1>2. \A S, T \in SUBSET Text : S \X T \in SUBSET (Text \X Text)
  OBVIOUS
<1>3. QED
  BY <1>1, <1>2 DEF TokenCache, insert_token

\* After an insertion check_duplicate answers true for what it did before and
\* for what resembles the new token: the maps never mix two tokens.
LEMMA InsertAddsOne ==
  ASSUME NEW c \in TokenCache, NEW t \in Attributes, NEW q \in Attributes
  PROVE  check_duplicate(insert_token(c, t), q)
           <=> check_duplicate(c, q) \/ Resembles(t, q)
<1> DEFINE d == insert_token(c, t)
<1>1. /\ q.image \in d.images <=> q.image \in c.images \/ Eq(q.image, t.image)
      /\ q.ipfs \in d.ipfs <=> q.ipfs \in c.ipfs \/ Eq(q.ipfs, t.ipfs)
      /\ q.name \in d.names <=> q.name \in c.names \/ Eq(q.name, t.name)
  BY Parts, SomeIsOne DEF insert_token
<1>2. <<q.description, q.name>> \in d.desc_name_pairs
        <=> \/ <<q.description, q.name>> \in c.desc_name_pairs
            \/ Eq(q.description, t.description) /\ Eq(q.name, t.name)
  BY Parts, PairIsOne DEF insert_token
<1>3. <<q.description, q.ticker>> \in d.desc_ticker_pairs
        <=> \/ <<q.description, q.ticker>> \in c.desc_ticker_pairs
            \/ Eq(q.description, t.description) /\ Eq(q.ticker, t.ticker)
  BY Parts, PairIsOne DEF insert_token
<1>4. <<q.name, q.ticker>> \in d.name_ticker_pairs
        <=> \/ <<q.name, q.ticker>> \in c.name_ticker_pairs
            \/ Eq(q.name, t.name) /\ Eq(q.ticker, t.ticker)
  BY Parts, PairIsOne DEF insert_token
<1>5. QED
  BY <1>1, <1>2, <1>3, <1>4 DEF check_duplicate, Resembles, RowMatches

\* TokenCache: after any insertions the six maps answer exactly like a search
\* through the tokens inserted.
THEOREM CacheAnswersLikeSearch == Spec => []CacheInv
<1>1. Init => CacheInv
  BY DEF Init, CacheInv, TypeOK, CacheIsExact, EmptyCache, TokenCache, check_duplicate
<1>2. CacheInv /\ [Next]_vars => CacheInv'
  <2> SUFFICES ASSUME CacheInv, [Next]_vars PROVE CacheInv'
    OBVIOUS
  <2> USE DEF CacheInv
  <2>1. ASSUME NEW t \in Tokens, Insert(t) PROVE CacheInv'
    <3>1. /\ t \in Attributes
          /\ cache' = insert_token(cache, t) /\ inserted' = inserted \cup {t}
      BY <2>1, TokensAssumption DEF Insert
    <3>2. TypeOK'
      BY <3>1, InsertType DEF TypeOK
    <3>3. ASSUME NEW q \in Attributes
          PROVE  check_duplicate(cache', q) <=> \E u \in inserted' : Resembles(u, q)
      <4>1. check_duplicate(cache', q) <=> check_duplicate(cache, q) \/ Resembles(t, q)
        BY <3>1, InsertAddsOne DEF TypeOK
      <4>2. check_duplicate(cache, q) <=> \E u \in inserted : Resembles(u, q)
        BY DEF CacheIsExact
      <4>3. QED
        BY <3>1, <4>1, <4>2
    <3>4. QED
      BY <3>2, <3>3 DEF CacheIsExact
  <2>2. CASE UNCHANGED vars
    BY <2>2 DEF vars, TypeOK, CacheIsExact
  <2>3. QED
    BY <2>1, <2>2 DEF Next
<1>3. QED
  BY <1>1, <1>2, PTL DEF Spec
=============================================================================
