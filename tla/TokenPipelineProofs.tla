------------------------- MODULE TokenPipelineProofs -------------------------
(***************************************************************************)
(* Theorems about TokenPipeline, for every set of tokens, developers and   *)
(* jobs, every market cap and every choice of what fails.                  *)
(***************************************************************************)
EXTENDS TokenPipeline, FiniteSetTheorems, TLAPS

-----------------------------------------------------------------------------
(* The token cache: insert_token and check_duplicate. *)

LEMMA AttrsType ==
  ASSUME NEW m \in Mints
  PROVE  /\ Attrs[m] \in Attributes
         /\ EventOnly(Attrs[m]) \in Attributes
<1>1. Attrs[m] \in Attributes
  BY PipelineAssumption
<1>2. QED
  BY <1>1 DEF Attributes, Optional, EventOnly

LEMMA InsertType ==
  ASSUME NEW c \in TokenCache, NEW t \in Attributes
  PROVE  insert_token(c, t) \in TokenCache
<1>1. /\ Some(t.image) \subseteq Text /\ Some(t.ipfs) \subseteq Text
      /\ Some(t.description) \subseteq Text /\ Some(t.name) \subseteq Text
      /\ Some(t.ticker) \subseteq Text
  BY DEF Attributes, Optional, Some
<1>2. \A S, T \in SUBSET Text : S \X T \in SUBSET (Text \X Text)
  OBVIOUS
<1>3. QED
  BY <1>1, <1>2 DEF TokenCache, insert_token

\* Nothing is forgotten.
LEMMA InsertKeeps ==
  ASSUME NEW c \in TokenCache, NEW t \in Attributes, NEW q \in Attributes,
         check_duplicate(c, q)
  PROVE  check_duplicate(insert_token(c, t), q)
BY DEF check_duplicate, insert_token

\* What resembles the new token is found.
LEMMA InsertFinds ==
  ASSUME NEW c \in TokenCache, NEW t \in Attributes, NEW q \in Attributes,
         Resembles(t, q)
  PROVE  check_duplicate(insert_token(c, t), q)
<1>1. \A x, y : Eq(x, y) => x \in Some(y)
  BY DEF Eq, Some
<1>2. \A a, b, x, y : Eq(a, x) /\ Eq(b, y) => <<a, b>> \in Some(x) \X Some(y)
  BY <1>1
<1>3. QED
  BY <1>1, <1>2 DEF Resembles, RowMatches, check_duplicate, insert_token

LEMMA ResemblesItself ==
  ASSUME NEW m \in Mints
  PROVE  Resembles(Attrs[m], Attrs[m])
BY PipelineAssumption DEF Resembles, Eq

-----------------------------------------------------------------------------
(* Types, and what the phase of a job says about its token. *)

WithCommunity == {"comm cache", "comm db", "comm found", "comm insert", "saving", "caching"}

Placed ==
    /\ \A f \in FastJobs :
          /\ fpc[f] \in {"community", "median", "last"} => Community[MintOf[f]] # None
          /\ fpc[f] = "last" => perf[f] # None
    /\ \A s \in SlowJobs :
          /\ spc[s] \in WithCommunity => Community[MintOf[s]] # None
          /\ spc[s] \in {"saving", "caching"} => Community[MintOf[s]] \in commCache
    /\ \A m \in saved : Community[m] # None
    /\ IsFiniteSet(saved)

Typed == TypeOK /\ Placed

LEMMA DevType ==
  ASSUME NEW m \in Mints, Community[m] # None
  PROVE  Community[m] \in Communities /\ Dev(m) \in Devs
BY PipelineAssumption DEF Dev

LEMMA OldFinite ==
  ASSUME NEW d \in Devs
  PROVE  /\ IsFiniteSet(OldOf(d)) /\ Cardinality(OldOf(d)) \in Nat
         /\ OldOf(d) \subseteq Mints
BY PipelineAssumption, FS_Subset, FS_CardinalityType DEF OldOf

LEMMA FastTyped ==
  ASSUME Typed, NEW f \in FastJobs, FastStart(f) \/ Fast(f)
  PROVE  Typed'
<1> USE PipelineAssumption DEF Typed, TypeOK, FastTo, FastPhase, memVars, dbVars
<1>1. CASE FastSend(f)
  BY <1>1 DEF FastSend, Placed
<1>2. CASE FastStart(f) \/ FastExists(f)
  <2>1. TypeOK'
    BY <1>2 DEF FastExists, FastStart
  <2>2. Placed'
    BY <1>2 DEF FastExists, FastStart, Placed
  <2>3. QED
    BY <2>1, <2>2
<1>3. ASSUME NEW p \in {"done", "sending", "inserting", "community"}, Decided(f, p),
             p = "community" => Community[MintOf[f]] # None
      PROVE  Typed'
  <2>1. TypeOK'
    BY <1>3 DEF Decided
  <2>2. Placed'
    BY <1>3 DEF Decided, Placed
  <2>3. QED
    BY <2>1, <2>2
<1>4. CASE FastDecideBlind(f) \/ FastDecide(f)
  BY <1>3, <1>4 DEF FastDecideBlind, FastDecide, AfterChecks
<1>5. CASE FastCommunity(f)
  BY <1>5 DEF FastCommunity, Placed
<1>6. ASSUME FastMedian(f) \/ FastLast(f) PROVE Typed'
  <2>1. IsFiniteSet(Others(f)) /\ Others(f) \subseteq Mints /\ Cardinality(Others(f)) \in Nat
    <3>1. Others(f) \subseteq saved
      BY DEF Others, SavedOf
    <3>2. QED
      BY <3>1, FS_Subset, FS_CardinalityType DEF Placed
  <2>2. /\ fpc[f] \in {"median", "last"}
        /\ \E p \in {"inserting", "last"} : fpc' = [fpc EXCEPT ![f] = p]
        /\ UNCHANGED <<boots, memVars, dbVars, fexists, fmeta, spc, savedNow>>
    BY <1>6 DEF FastMedian, FastLast
  <2>3. perf' \in [FastJobs -> Perf \cup {None}]
    <3>1. CASE FastMedian(f)
      BY <2>1, <3>1 DEF FastMedian, Perf
    <3>2. CASE FastLast(f)
      <4>1. perf[f] \in Perf
        BY <3>2 DEF FastLast, Placed
      <4>2. \A last \in SUBSET Others(f) : [perf[f] EXCEPT !.last = last] \in Perf
        BY <2>1, <4>1 DEF Perf
      <4>3. QED
        BY <3>2, <4>2 DEF FastLast
    <3>3. QED
      BY <1>6, <3>1, <3>2
  <2>4. TypeOK'
    BY <2>2, <2>3
  <2>5. fpc'[f] = "last" => perf'[f] # None
    <3>1. CASE FastMedian(f)
      <4>1. [count |-> Cardinality(Others(f)), last |-> {}] \in Perf
        BY <2>1 DEF Perf
      <4>2. QED
        BY <3>1, <4>1 DEF FastMedian
    <3>2. CASE FastLast(f)
      BY <3>2 DEF FastLast
    <3>3. QED
      BY <1>6, <3>1, <3>2
  <2>6. \A g \in FastJobs : g # f => perf'[g] = perf[g] /\ fpc'[g] = fpc[g]
    BY <1>6, <2>2 DEF FastMedian, FastLast
  <2>7. Placed'
    BY <2>2, <2>5, <2>6 DEF Placed
  <2>8. QED
    BY <2>4, <2>7
<1>7. CASE FastInsert(f)
  <2>1. cache' \in TokenCache /\ cachedMints' \subseteq Mints
    BY <1>7, AttrsType, InsertType DEF FastInsert
  <2>2. TypeOK'
    BY <1>7, <2>1 DEF FastInsert
  <2>3. Placed'
    BY <1>7 DEF FastInsert, Placed
  <2>4. QED
    BY <2>2, <2>3
<1>8. QED
  BY <1>1, <1>2, <1>4, <1>5, <1>6, <1>7 DEF Fast

\* The steps of a slow job before its insertion into the community cache.
SlowLook(s) ==
    \/ SlowStart(s) \/ SlowCacheCheck(s) \/ SlowDbCheck(s)
    \/ SlowCommunityCheck(s) \/ SlowCommunityDb(s)

LEMMA SlowLooks ==
  ASSUME NEW s \in SlowJobs, SlowLook(s)
  PROVE  /\ spc[s] \notin {"saving", "caching", "done"}
         /\ \E p \in {"cache", "db", "comm cache", "comm db", "comm found", "comm insert", "done"} :
              /\ spc' = [spc EXCEPT ![s] = p]
              /\ p \in WithCommunity => spc[s] \in WithCommunity \/ Community[MintOf[s]] # None
         /\ UNCHANGED <<boots, memVars, dbVars, fastVars, savedNow>>
BY DEF SlowLook, SlowStart, SlowCacheCheck, SlowDbCheck, SlowCommunityCheck,
       SlowCommunityDb, SlowTo, WithCommunity

LEMMA SlowTyped ==
  ASSUME Typed, NEW s \in SlowJobs, SlowStart(s) \/ Slow(s)
  PROVE  Typed'
<1> USE PipelineAssumption DEF Typed, TypeOK, SlowTo, memVars, dbVars, fastVars
<1>1. CASE SlowLook(s)
  <2>1. PICK p \in {"cache", "db", "comm cache", "comm db", "comm found", "comm insert", "done"} :
              /\ spc' = [spc EXCEPT ![s] = p]
              /\ p \in WithCommunity => spc[s] \in WithCommunity \/ Community[MintOf[s]] # None
    BY <1>1, SlowLooks
  <2>2. UNCHANGED <<boots, memVars, dbVars, fastVars, savedNow>>
    BY <1>1, SlowLooks
  <2>3. spc' \in [SlowJobs -> SlowPhase]
    BY <2>1 DEF SlowPhase
  <2>4. TypeOK'
    BY <2>2, <2>3
  <2>5. Placed'
    BY <2>1, <2>2 DEF Placed
  <2>6. QED
    BY <2>4, <2>5
<1>2. CASE SlowCommunityInsert(s)
  <2>1. Community[MintOf[s]] \in Communities
    BY <1>2, DevType DEF SlowCommunityInsert, Placed, WithCommunity
  <2>2. TypeOK'
    BY <1>2, <2>1 DEF SlowCommunityInsert, SlowPhase
  <2>3. Placed'
    BY <1>2 DEF SlowCommunityInsert, Placed, WithCommunity
  <2>4. QED
    BY <2>2, <2>3
<1>3. CASE SlowSave(s)
  <2>1. /\ spc[s] = "saving" /\ spc' = [spc EXCEPT ![s] = "caching"]
        /\ UNCHANGED <<boots, memVars, fastVars>>
    BY <1>3 DEF SlowSave
  <2>2. CASE add_token(MintOf[s])
    <3>1. Dev(MintOf[s]) \in Devs /\ MintOf[s] \in Mints
      BY <2>1, DevType DEF Placed, WithCommunity
    <3>2. PICK cap \in Nat : ath' = [ath EXCEPT ![MintOf[s]] = cap]
      <4>1. CASE MintOf[s] \in saved
        <5>1. Greatest(ath[MintOf[s]], FreshCap) \in Nat
          BY <3>1 DEF Greatest
        <5>2. QED
          BY <2>2, <4>1, <5>1 DEF add_token
      <4>2. CASE MintOf[s] \notin saved
        BY <2>2, <4>2 DEF add_token
      <4>3. QED
        BY <4>1, <4>2
    <3>3. /\ devCount' \in [Devs -> Nat] /\ ath' \in [Mints -> Nat]
          /\ saved' = saved \cup {MintOf[s]} /\ savedNow' = savedNow \cup {MintOf[s]}
      BY <2>2, <3>1, <3>2 DEF add_token
    <3>4. TypeOK'
      BY <2>1, <3>1, <3>3 DEF SlowPhase
    <3>5. IsFiniteSet(saved')
      BY <3>3, FS_AddElement DEF Placed
    <3>6. Placed'
      BY <2>1, <3>3, <3>5 DEF Placed, WithCommunity
    <3>7. QED
      BY <3>4, <3>6
  <2>3. CASE UNCHANGED <<dbVars, savedNow>>
    <3>1. TypeOK'
      BY <2>1, <2>3 DEF SlowPhase
    <3>2. Placed'
      BY <2>1, <2>3 DEF Placed, WithCommunity
    <3>3. QED
      BY <3>1, <3>2
  <2>4. QED
    BY <1>3, <2>2, <2>3 DEF SlowSave
<1>4. CASE SlowInsert(s)
  <2>1. cache' \in TokenCache /\ cachedMints' \subseteq Mints
    BY <1>4, AttrsType, InsertType DEF SlowInsert
  <2>2. TypeOK'
    BY <1>4, <2>1 DEF SlowInsert, SlowPhase
  <2>3. Placed'
    BY <1>4 DEF SlowInsert, Placed, WithCommunity
  <2>4. QED
    BY <2>2, <2>3
<1>5. QED
  BY <1>1, <1>2, <1>3, <1>4 DEF Slow, SlowLook

\* Every variable has its type; a job looks at a developer or saves a token only
\* when the token's metadata names a community.
LEMMA TypedInvariant == Spec => []Typed
<1> USE PipelineAssumption
<1>1. Init => Typed
  <2> SUFFICES ASSUME Init PROVE Typed
    OBVIOUS
  <2>1. cache \in TokenCache
    BY DEF Init, EmptyCache, TokenCache
  <2>2. devCount \in [Devs -> Nat]
    <3>1. \A d \in Devs : Cardinality(OldOf(d)) \in Nat
      BY OldFinite
    <3>2. QED
      BY <3>1 DEF Init
  <2>3. ath \in [Mints -> Nat]
    BY DEF Init
  <2>4. TypeOK
    BY <2>1, <2>2, <2>3 DEF Init, TypeOK, FastPhase, SlowPhase
  <2>5. Placed
    BY DEF Init, Placed, WithCommunity
  <2>6. QED
    BY <2>4, <2>5 DEF Typed
<1>2. Typed /\ [Next]_vars => Typed'
  <2> SUFFICES ASSUME Typed, [Next]_vars PROVE Typed'
    OBVIOUS
  <2>1. ASSUME NEW f \in FastJobs, FastStart(f) \/ Fast(f) PROVE Typed'
    BY <2>1, FastTyped
  <2>2. ASSUME NEW s \in SlowJobs, SlowStart(s) \/ Slow(s) PROVE Typed'
    BY <2>2, SlowTyped
  <2>3. ASSUME NEW m \in Mints, NEW cap \in Caps[m], Buy(m, cap) PROVE Typed'
    <3>1. Greatest(ath[m], cap) \in Nat
      BY <2>3 DEF Typed, TypeOK, Greatest
    <3>2. ath' \in [Mints -> Nat]
      BY <2>3, <3>1 DEF Buy, Typed, TypeOK
    <3>3. TypeOK'
      BY <2>3, <3>2 DEF Buy, Typed, TypeOK, memVars, fastVars
    <3>4. Placed'
      BY <2>3 DEF Buy, Typed, Placed, memVars, fastVars
    <3>5. QED
      BY <3>3, <3>4 DEF Typed
  <2>4. CASE Restart
    <3>1. EmptyCache \in TokenCache
      BY DEF EmptyCache, TokenCache
    <3>2. TypeOK'
      <4>1. \A f \in FastJobs : fpc'[f] \in FastPhase
        BY <2>4 DEF Restart, FastPhase
      <4>2. \A s \in SlowJobs : spc'[s] \in SlowPhase
        BY <2>4 DEF Restart, SlowPhase
      <4>3. fpc' \in [FastJobs -> FastPhase] /\ spc' \in [SlowJobs -> SlowPhase]
        BY <2>4, <4>1, <4>2 DEF Restart
      <4>4. QED
        BY <2>4, <3>1, <4>3 DEF Restart, Typed, TypeOK, dbVars
    <3>3. Placed'
      BY <2>4 DEF Restart, Typed, Placed, dbVars, WithCommunity
    <3>4. QED
      BY <3>2, <3>3 DEF Typed
  <2>5. CASE UNCHANGED vars
    BY <2>5 DEF Typed, TypeOK, Placed, vars, memVars, dbVars, fastVars
  <2>6. QED
    BY <2>1, <2>2, <2>3, <2>4, <2>5 DEF Next
<1>3. QED
  BY <1>1, <1>2, PTL DEF Spec

\* Caches, tables and jobs keep their types, whatever is reported and traded.
THEOREM TypeCorrect == Spec => []TypeOK
<1>1. Typed => TypeOK
  BY DEF Typed
<1>2. QED
  BY <1>1, TypedInvariant, PTL

-----------------------------------------------------------------------------
(* What the steps of a job leave alone. *)

LEMMA FastFrame ==
  ASSUME NEW f \in FastJobs, FastStart(f) \/ Fast(f)
  PROVE  /\ UNCHANGED <<boots, commCache, dbVars, spc, savedNow>>
         /\ UNCHANGED <<cache, cachedMints>> \/ FastInsert(f)
<1>1. CASE FastStart(f) \/ FastExists(f) \/ FastCommunity(f) \/ FastSend(f)
  BY <1>1 DEF FastStart, FastExists, FastCommunity, FastSend, memVars
<1>2. CASE FastDecideBlind(f) \/ FastDecide(f)
  BY <1>2 DEF FastDecideBlind, FastDecide, Decided, memVars
<1>3. CASE FastMedian(f) \/ FastLast(f)
  BY <1>3 DEF FastMedian, FastLast, memVars
<1>4. CASE FastInsert(f)
  BY <1>4 DEF FastInsert
<1>5. QED
  BY <1>1, <1>2, <1>3, <1>4 DEF Fast

LEMMA SlowFrame ==
  ASSUME NEW s \in SlowJobs, SlowStart(s) \/ Slow(s)
  PROVE  /\ UNCHANGED <<boots, fastVars>>
         /\ UNCHANGED <<cache, cachedMints>> \/ SlowInsert(s)
         /\ UNCHANGED commCache \/ SlowCommunityInsert(s)
         /\ UNCHANGED <<dbVars, savedNow>> \/ SlowSave(s)
<1>1. CASE SlowLook(s)
  BY <1>1, SlowLooks DEF memVars
<1>2. CASE SlowCommunityInsert(s) \/ SlowSave(s) \/ SlowInsert(s)
  BY <1>2 DEF SlowCommunityInsert, SlowSave, SlowInsert, memVars
<1>3. QED
  BY <1>1, <1>2 DEF Slow, SlowLook

\* The only way to the clients leads through the decision or the insertion.
LEMMA SendingComesFrom ==
  ASSUME TypeOK, NEW f \in FastJobs, FastStart(f) \/ Fast(f)
  PROVE  /\ \A g \in FastJobs : g # f => fpc'[g] = fpc[g] /\ fmeta'[g] = fmeta[g]
         /\ fpc'[f] = "sending" =>
               /\ fmeta'[f] = fmeta[f]
               /\ \/ fpc[f] = "sending"
                  \/ fpc[f] = "joining" /\ fmeta[f] = "failed"
                  \/ FastInsert(f)
<1> USE DEF TypeOK, FastTo
<1>1. CASE FastStart(f) \/ FastExists(f) \/ FastCommunity(f) \/ FastSend(f)
  BY <1>1 DEF FastStart, FastExists, FastCommunity, FastSend
<1>2. CASE FastDecideBlind(f) \/ FastDecide(f)
  BY <1>2 DEF FastDecideBlind, FastDecide, Decided, Joined, AfterChecks
<1>3. CASE FastMedian(f) \/ FastLast(f)
  BY <1>3 DEF FastMedian, FastLast
<1>4. CASE FastInsert(f)
  BY <1>4 DEF FastInsert
<1>5. QED
  BY <1>1, <1>2, <1>3, <1>4 DEF Fast

-----------------------------------------------------------------------------
(* The caches. *)

\* process_fast_create: a token that is sent with its metadata is in the token
\* cache before any client can have seen it, whatever fails and however the jobs
\* interleave.
THEOREM SentAreAlwaysCached == Spec => []SentAreCached
<1>1. Init => SentAreCached
  BY DEF Init, SentAreCached
<1>2. Typed /\ SentAreCached /\ [Next]_vars => SentAreCached'
  <2> SUFFICES ASSUME Typed, SentAreCached, [Next]_vars PROVE SentAreCached'
    OBVIOUS
  <2> USE DEF Typed, SentAreCached
  <2>1. ASSUME NEW f \in FastJobs, FastStart(f) \/ Fast(f) PROVE SentAreCached'
    <3>1. cachedMints \subseteq cachedMints'
      BY <2>1, FastFrame DEF FastInsert
    <3>2. FastInsert(f) => MintOf[f] \in cachedMints'
      BY DEF FastInsert
    <3>3. QED
      BY <2>1, <3>1, <3>2, SendingComesFrom
  <2>2. ASSUME NEW s \in SlowJobs, SlowStart(s) \/ Slow(s) PROVE SentAreCached'
    BY <2>2, SlowFrame DEF SlowInsert, fastVars
  <2>3. ASSUME NEW m \in Mints, NEW cap \in Caps[m], Buy(m, cap) PROVE SentAreCached'
    BY <2>3 DEF Buy, memVars, fastVars
  <2>4. CASE Restart
    BY <2>4 DEF Restart
  <2>5. CASE UNCHANGED vars
    BY <2>5 DEF vars, memVars, fastVars
  <2>6. QED
    BY <2>1, <2>2, <2>3, <2>4, <2>5 DEF Next
<1>3. QED
  BY <1>1, <1>2, TypedInvariant, PTL DEF Spec

\* The cache recognises every copy of a token that was inserted.
Remembered ==
    \A m \in cachedMints, q \in Attributes :
        Resembles(Attrs[m], q) => check_duplicate(cache, q)

\* A saved token is cached, or its job is about to cache it.
SavedRemembered ==
    \A m \in savedNow :
        /\ Community[m] \in commCache
        /\ m \in cachedMints \/ \E s \in SlowJobs : MintOf[s] = m /\ spc[s] = "caching"

LEMMA InsertRemembered ==
  ASSUME Typed, Remembered, NEW m \in Mints,
         cache' = insert_token(cache, Attrs[m]), cachedMints' = cachedMints \cup {m}
  PROVE  Remembered'
<1> SUFFICES ASSUME NEW n \in cachedMints', NEW q \in Attributes, Resembles(Attrs[n], q)
             PROVE  check_duplicate(cache', q)
  BY DEF Remembered
<1>1. cache \in TokenCache
  BY DEF Typed, TypeOK
<1>2. CASE n = m
  BY <1>1, <1>2, AttrsType, InsertFinds
<1>3. CASE n \in cachedMints
  BY <1>1, <1>3, AttrsType, InsertKeeps DEF Remembered
<1>4. QED
  BY <1>2, <1>3

LEMMA CachesInvariant == Spec => [](Remembered /\ SavedRemembered)
<1>1. Init => Remembered /\ SavedRemembered
  BY DEF Init, Remembered, SavedRemembered
<1>2. Typed /\ Remembered /\ [Next]_vars => Remembered'
  <2> SUFFICES ASSUME Typed, Remembered, [Next]_vars PROVE Remembered'
    OBVIOUS
  <2>1. ASSUME UNCHANGED <<cache, cachedMints>> PROVE Remembered'
    BY <2>1 DEF Remembered
  <2>2. ASSUME NEW f \in FastJobs, FastStart(f) \/ Fast(f) PROVE Remembered'
    <3>1. MintOf[f] \in Mints
      BY PipelineAssumption
    <3>2. QED
      BY <2>1, <2>2, <3>1, FastFrame, InsertRemembered DEF FastInsert
  <2>3. ASSUME NEW s \in SlowJobs, SlowStart(s) \/ Slow(s) PROVE Remembered'
    <3>1. MintOf[s] \in Mints
      BY PipelineAssumption
    <3>2. QED
      BY <2>1, <2>3, <3>1, SlowFrame, InsertRemembered DEF SlowInsert
  <2>4. ASSUME NEW m \in Mints, NEW cap \in Caps[m], Buy(m, cap) PROVE Remembered'
    BY <2>1, <2>4 DEF Buy, memVars
  <2>5. CASE Restart
    BY <2>5 DEF Restart, Remembered
  <2>6. CASE UNCHANGED vars
    BY <2>1, <2>6 DEF vars, memVars
  <2>7. QED
    BY <2>2, <2>3, <2>4, <2>5, <2>6 DEF Next
<1>3. Typed /\ SavedRemembered /\ [Next]_vars => SavedRemembered'
  <2> SUFFICES ASSUME Typed, SavedRemembered, [Next]_vars PROVE SavedRemembered'
    OBVIOUS
  <2>1. ASSUME UNCHANGED <<commCache, savedNow, spc>>, cachedMints \subseteq cachedMints'
        PROVE  SavedRemembered'
    BY <2>1 DEF SavedRemembered
  <2>2. ASSUME NEW f \in FastJobs, FastStart(f) \/ Fast(f) PROVE SavedRemembered'
    BY <2>1, <2>2, FastFrame DEF FastInsert
  <2>3. ASSUME NEW s \in SlowJobs, SlowLook(s) PROVE SavedRemembered'
    <3>1. \A r \in SlowJobs : spc[r] = "caching" => spc'[r] = "caching"
      BY <2>3, SlowLooks DEF Typed, TypeOK
    <3>2. UNCHANGED <<commCache, savedNow, cachedMints>>
      BY <2>3, SlowLooks DEF memVars
    <3>3. QED
      BY <3>1, <3>2 DEF SavedRemembered
  <2>4. ASSUME NEW s \in SlowJobs, SlowCommunityInsert(s) PROVE SavedRemembered'
    <3>1. \A r \in SlowJobs : spc[r] = "caching" => spc'[r] = "caching"
      BY <2>4 DEF SlowCommunityInsert, SlowTo, Typed, TypeOK
    <3>2. commCache \subseteq commCache' /\ UNCHANGED <<savedNow, cachedMints>>
      BY <2>4 DEF SlowCommunityInsert
    <3>3. QED
      BY <3>1, <3>2 DEF SavedRemembered
  <2>5. ASSUME NEW s \in SlowJobs, SlowSave(s) PROVE SavedRemembered'
    <3>1. /\ \A r \in SlowJobs : spc[r] = "caching" => spc'[r] = "caching"
          /\ spc'[s] = "caching"
      BY <2>5 DEF SlowSave, SlowTo, Typed, TypeOK
    <3>2. /\ savedNow' \subseteq savedNow \cup {MintOf[s]}
          /\ UNCHANGED <<commCache, cachedMints>>
      BY <2>5 DEF SlowSave, add_token, memVars
    <3>3. Community[MintOf[s]] \in commCache
      BY <2>5 DEF SlowSave, Typed, Placed
    <3>4. QED
      BY <3>1, <3>2, <3>3 DEF SavedRemembered
  <2>6. ASSUME NEW s \in SlowJobs, SlowInsert(s) PROVE SavedRemembered'
    <3>1. \A r \in SlowJobs : r # s /\ spc[r] = "caching" => spc'[r] = "caching"
      BY <2>6 DEF SlowInsert, SlowTo, Typed, TypeOK
    <3>2. UNCHANGED <<commCache, savedNow>> /\ cachedMints' = cachedMints \cup {MintOf[s]}
      BY <2>6 DEF SlowInsert, dbVars
    <3>3. QED
      BY <3>1, <3>2 DEF SavedRemembered
  <2>7. ASSUME NEW m \in Mints, NEW cap \in Caps[m], Buy(m, cap) PROVE SavedRemembered'
    BY <2>1, <2>7 DEF Buy, memVars
  <2>8. CASE Restart
    BY <2>8 DEF Restart, SavedRemembered
  <2>9. CASE UNCHANGED vars
    BY <2>1, <2>9 DEF vars, memVars
  <2>10. QED
    BY <2>2, <2>3, <2>4, <2>5, <2>6, <2>7, <2>8, <2>9 DEF Next, Slow, SlowLook
<1>4. QED
  BY <1>1, <1>2, <1>3, TypedInvariant, PTL DEF Spec

\* process_slow_create: whatever fails between the save and the insertion, no
\* later job saves a copy of a saved token or a second token of its community.
THEOREM RowsAreAlwaysCached == Spec => []RowsAreCached
<1>1. Typed /\ Remembered /\ SavedRemembered => RowsAreCached
  <2> SUFFICES ASSUME Typed, Remembered, SavedRemembered, NEW m \in savedNow,
                      m \in cachedMints
               PROVE  check_duplicate(cache, Attrs[m])
    BY DEF RowsAreCached, SavedRemembered
  <2>1. m \in Mints
    BY DEF Typed, TypeOK
  <2>2. QED
    BY <2>1, AttrsType, ResemblesItself DEF Remembered
<1>2. QED
  BY <1>1, TypedInvariant, CachesInvariant, PTL

\* process_fast_create: once a token is in the cache, no token that resembles it
\* is let through to the clients, by whichever of the two paths.
THEOREM CopiesAreDropped == Spec => CopiesDroppedOnceCached
<1> DEFINE A == \A f \in FastJobs :
                   fpc[f] = "joining" /\ fpc'[f] \in {"community", "inserting", "sending"} =>
                      \A m \in cachedMints : ~Resembles(Attrs[m], Known(f))
<1>1. Typed /\ Remembered /\ [Next]_vars => [A]_vars
  <2> SUFFICES ASSUME Typed, Remembered, [Next]_vars, NEW f \in FastJobs, fpc[f] = "joining",
                      fpc'[f] \in {"community", "inserting", "sending"}
               PROVE  \A m \in cachedMints : ~Resembles(Attrs[m], Known(f))
    OBVIOUS
  <2>1. FastDecideBlind(f) \/ FastDecide(f)
    <3>1. ASSUME NEW g \in FastJobs, FastStart(g) \/ Fast(g) PROVE FastStart(f) \/ Fast(f)
      <4>1. g = f
        BY <3>1, SendingComesFrom DEF Typed
      <4>2. QED
        BY <3>1, <4>1
    <3>2. ASSUME NEW s \in SlowJobs, SlowStart(s) \/ Slow(s) PROVE FALSE
      BY <3>2, SlowFrame DEF fastVars
    <3>3. ASSUME NEW m \in Mints, NEW cap \in Caps[m], Buy(m, cap) PROVE FALSE
      BY <3>3 DEF Buy, fastVars
    <3>4. CASE Restart
      BY <3>4 DEF Restart
    <3>5. CASE UNCHANGED vars
      BY <3>5 DEF vars, fastVars
    <3>6. FastStart(f) \/ Fast(f)
      BY <3>1, <3>2, <3>3, <3>4, <3>5 DEF Next, Fast
    <3>7. QED
      BY <3>6 DEF Typed, TypeOK, Fast, FastStart, FastExists, FastCommunity, FastMedian,
                  FastLast, FastInsert, FastSend, FastTo
  <2>2. ~check_duplicate(cache, Known(f))
    BY <2>1 DEF FastDecideBlind, FastDecide, Decided, FastTo, Known, Typed, TypeOK
  <2>3. Known(f) \in Attributes
    <3>1. MintOf[f] \in Mints
      BY PipelineAssumption
    <3>2. QED
      BY <3>1, AttrsType DEF Known
  <2>4. QED
    BY <2>2, <2>3 DEF Remembered
<1>2. QED
  BY <1>1, TypedInvariant, CachesInvariant, PTL DEF Spec, CopiesDroppedOnceCached

-----------------------------------------------------------------------------
(* The rows. *)

\* Rows are never lost.
LEMMA RowsGrow ==
  ASSUME Typed, [Next]_vars
  PROVE  saved \subseteq saved'
<1>1. ASSUME NEW f \in FastJobs, FastStart(f) \/ Fast(f) PROVE saved' = saved
  BY <1>1, FastFrame DEF dbVars
<1>2. ASSUME NEW s \in SlowJobs, SlowStart(s) \/ Slow(s) PROVE saved \subseteq saved'
  BY <1>2, SlowFrame DEF SlowSave, add_token, dbVars
<1>3. ASSUME NEW m \in Mints, NEW cap \in Caps[m], Buy(m, cap) PROVE saved' = saved
  BY <1>3 DEF Buy
<1>4. CASE Restart
  BY <1>4 DEF Restart, dbVars
<1>5. CASE UNCHANGED vars
  BY <1>5 DEF vars, dbVars
<1>6. QED
  BY <1>1, <1>2, <1>3, <1>4, <1>5 DEF Next

LEMMA GreatestIsGreater ==
  ASSUME NEW x \in Nat, NEW y \in Nat
  PROVE  Greatest(x, y) >= x
BY DEF Greatest

\* add_token and update_token_ath: a saved token stays saved, and neither a trade
\* nor a second save lowers its all-time high.
THEOREM AthIsMonotonic == Spec => AthNeverDrops
<1> DEFINE A == \A m \in saved : m \in saved' /\ ath'[m] >= ath[m]
<1>1. Typed /\ [Next]_vars => [A]_vars
  <2> SUFFICES ASSUME Typed, [Next]_vars, NEW m \in saved PROVE ath'[m] >= ath[m]
    BY RowsGrow
  <2> USE PipelineAssumption
  <2>1. m \in Mints /\ ath[m] \in Nat
    BY DEF Typed, TypeOK
  <2>2. ASSUME ath' = ath PROVE ath'[m] >= ath[m]
    BY <2>1, <2>2
  <2>3. ASSUME NEW f \in FastJobs, FastStart(f) \/ Fast(f) PROVE ath' = ath
    BY <2>3, FastFrame DEF dbVars
  <2>4. ASSUME NEW s \in SlowJobs, SlowStart(s) \/ Slow(s) PROVE ath'[m] >= ath[m]
    <3>1. CASE UNCHANGED <<dbVars, savedNow>>
      BY <2>2, <3>1 DEF dbVars
    <3>2. CASE add_token(MintOf[s])
      <4>1. m # MintOf[s] => ath'[m] = ath[m]
        BY <2>1, <3>2 DEF add_token, Typed, TypeOK
      <4>2. m = MintOf[s] => ath'[m] = Greatest(ath[m], FreshCap)
        BY <2>1, <3>2 DEF add_token, Typed, TypeOK
      <4>3. QED
        BY <2>1, <4>1, <4>2, GreatestIsGreater
    <3>3. QED
      BY <2>4, <3>1, <3>2, SlowFrame DEF SlowSave
  <2>5. ASSUME NEW n \in Mints, NEW cap \in Caps[n], Buy(n, cap) PROVE ath'[m] >= ath[m]
    <3>1. ath'[m] \in {ath[m], Greatest(ath[m], cap)}
      BY <2>1, <2>5 DEF Buy, Typed, TypeOK
    <3>2. cap \in Nat
      BY <2>5, PipelineAssumption
    <3>3. QED
      BY <2>1, <3>1, <3>2, GreatestIsGreater
  <2>6. CASE Restart
    BY <2>2, <2>6 DEF Restart, dbVars
  <2>7. CASE UNCHANGED vars
    BY <2>2, <2>7 DEF vars, dbVars
  <2>8. QED
    BY <2>2, <2>3, <2>4, <2>5, <2>6, <2>7 DEF Next
<1>2. QED
  BY <1>1, TypedInvariant, PTL DEF Spec, AthNeverDrops

\* The jobs that may have saved a token of developer d.
Past == {"caching", "done"}
Saves(d) == {s \in SlowJobs : spc[s] \in Past /\ MintOf[s] \in SavedOf(d)}

Counted ==
    \A d \in Devs :
        /\ Cardinality(SavedOf(d)) <= devCount[d]
        /\ devCount[d] <= Cardinality(OldOf(d)) + Cardinality(Saves(d))

LEMMA Finite ==
  ASSUME Typed, NEW d \in Devs
  PROVE  /\ IsFiniteSet(SavedOf(d)) /\ Cardinality(SavedOf(d)) \in Nat
         /\ IsFiniteSet(Saves(d)) /\ Cardinality(Saves(d)) \in Nat
         /\ devCount[d] \in Nat
<1>1. SavedOf(d) \subseteq saved /\ Saves(d) \subseteq SlowJobs
  BY DEF SavedOf, Saves
<1>2. IsFiniteSet(saved) /\ IsFiniteSet(SlowJobs)
  BY PipelineAssumption DEF Typed, Placed
<1>3. QED
  BY <1>1, <1>2, FS_Subset, FS_CardinalityType DEF Typed, TypeOK

\* A step that writes no row and takes no job back keeps the counts.
LEMMA CountKept ==
  ASSUME Typed, Typed', Counted, UNCHANGED <<saved, devCount>>,
         \A s \in SlowJobs : spc[s] \in Past => spc'[s] \in Past
  PROVE  Counted'
<1> SUFFICES ASSUME NEW d \in Devs
             PROVE  /\ Cardinality(SavedOf(d)') <= devCount[d]'
                    /\ devCount[d]' <= Cardinality(OldOf(d)) + Cardinality(Saves(d)')
  BY DEF Counted
<1>1. SavedOf(d)' = SavedOf(d) /\ devCount[d]' = devCount[d]
  BY DEF SavedOf
<1>2. Saves(d) \subseteq Saves(d)'
  BY <1>1 DEF Saves
<1>3. IsFiniteSet(Saves(d)')
  BY PipelineAssumption, FS_Subset DEF Saves
<1>4. Cardinality(Saves(d)) <= Cardinality(Saves(d)') /\ Cardinality(Saves(d)') \in Nat
  BY <1>2, <1>3, FS_Subset, FS_CardinalityType
<1>5. QED
  BY <1>1, <1>4, Finite, OldFinite DEF Counted

\* A save counts the token once more, and its job as one that has saved.
LEMMA SaveCounts ==
  ASSUME Typed, Typed', Counted, NEW s \in SlowJobs,
         spc[s] = "saving", spc' = [spc EXCEPT ![s] = "caching"], add_token(MintOf[s])
  PROVE  Counted'
<1> SUFFICES ASSUME NEW d \in Devs
             PROVE  /\ Cardinality(SavedOf(d)') <= devCount[d]'
                    /\ devCount[d]' <= Cardinality(OldOf(d)) + Cardinality(Saves(d)')
  BY DEF Counted
<1> DEFINE m == MintOf[s]
<1>1. m \in Mints /\ Dev(m) \in Devs
  BY PipelineAssumption, DevType DEF Typed, Placed, WithCommunity
<1>2. saved' = saved \cup {m}
  BY DEF add_token
<1>3. SavedOf(d)' = IF Dev(m) = d THEN SavedOf(d) \cup {m} ELSE SavedOf(d)
  BY <1>2 DEF SavedOf
<1>4. devCount[d]' = IF Dev(m) = d THEN devCount[d] + 1 ELSE devCount[d]
  BY <1>1 DEF add_token, Typed, TypeOK
<1>5. /\ IsFiniteSet(SavedOf(d)) /\ Cardinality(SavedOf(d)) \in Nat
      /\ devCount[d] \in Nat /\ Cardinality(SavedOf(d)) <= devCount[d]
  BY Finite DEF Counted
<1>6. Cardinality(SavedOf(d)') <= devCount[d]'
  <2>1. CASE Dev(m) = d
    <3>1. SavedOf(d)' = SavedOf(d) \cup {m} /\ devCount[d]' = devCount[d] + 1
      BY <1>3, <1>4, <2>1
    <3>2. \/ Cardinality(SavedOf(d) \cup {m}) = Cardinality(SavedOf(d))
          \/ Cardinality(SavedOf(d) \cup {m}) = Cardinality(SavedOf(d)) + 1
      BY <1>5, FS_AddElement
    <3>3. QED
      BY <1>5, <3>1, <3>2
  <2>2. CASE Dev(m) # d
    BY <1>3, <1>4, <1>5, <2>2
  <2>3. QED
    BY <2>1, <2>2
<1>7. /\ s \notin Saves(d)
      /\ Saves(d) \subseteq Saves(d)'
      /\ Dev(m) = d => s \in Saves(d)'
  <2>1. \A r \in SlowJobs : spc[r] \in Past => spc'[r] \in Past
    BY DEF Past, Typed, TypeOK
  <2>2. spc[s] \notin Past /\ spc'[s] \in Past
    BY DEF Past, Typed, TypeOK
  <2>3. SavedOf(d) \subseteq SavedOf(d)' /\ (Dev(m) = d => m \in SavedOf(d)')
    BY <1>3
  <2>4. QED
    BY <2>1, <2>2, <2>3 DEF Saves
<1>8. IsFiniteSet(Saves(d)') /\ Cardinality(Saves(d)') \in Nat
  BY Finite, FS_Subset, FS_CardinalityType, PipelineAssumption DEF Saves
<1>9. devCount[d]' <= Cardinality(OldOf(d)) + Cardinality(Saves(d)')
  <2>1. CASE Dev(m) = d
    <3>1. Saves(d) \cup {s} \subseteq Saves(d)'
      BY <1>7, <2>1
    <3>2. Cardinality(Saves(d) \cup {s}) = Cardinality(Saves(d)) + 1
      BY <1>7, Finite, FS_AddElement
    <3>3. Cardinality(Saves(d) \cup {s}) <= Cardinality(Saves(d)')
      BY <1>8, <3>1, FS_Subset
    <3>4. QED
      BY <1>4, <1>8, <2>1, <3>2, <3>3, Finite, OldFinite DEF Counted
  <2>2. CASE Dev(m) # d
    <3>1. Cardinality(Saves(d)) <= Cardinality(Saves(d)')
      BY <1>7, <1>8, FS_Subset
    <3>2. QED
      BY <1>4, <1>8, <2>2, <3>1, Finite, OldFinite DEF Counted
  <2>3. QED
    BY <2>1, <2>2
<1>10. QED
  BY <1>6, <1>9

\* add_token is one transaction: a developer's counter is never behind the rows,
\* nor ahead of the reports, whatever fails and however often the server stops.
THEOREM CountersFitRows == Spec => []DevCountsRows
<1>1. Init => Counted
  <2> SUFFICES ASSUME Init, NEW d \in Devs
               PROVE  /\ Cardinality(SavedOf(d)) <= devCount[d]
                      /\ devCount[d] <= Cardinality(OldOf(d)) + Cardinality(Saves(d))
    BY DEF Counted
  <2>1. SavedOf(d) = OldOf(d) /\ Saves(d) = {} /\ devCount[d] = Cardinality(OldOf(d))
    BY DEF Init, SavedOf, OldOf, Saves, Past
  <2>2. QED
    BY <2>1, FS_EmptySet, OldFinite
<1>2. Typed /\ Typed' /\ Counted /\ [Next]_vars => Counted'
  <2> SUFFICES ASSUME Typed, Typed', Counted, [Next]_vars PROVE Counted'
    OBVIOUS
  <2>1. ASSUME NEW f \in FastJobs, FastStart(f) \/ Fast(f) PROVE Counted'
    BY <2>1, FastFrame, CountKept DEF dbVars
  <2>2. ASSUME NEW s \in SlowJobs, SlowLook(s) PROVE Counted'
    <3>1. \A r \in SlowJobs : spc[r] \in Past => spc'[r] \in Past
      BY <2>2, SlowLooks DEF Past, Typed, TypeOK
    <3>2. QED
      BY <2>2, <3>1, SlowLooks, CountKept DEF dbVars
  <2>3. ASSUME NEW s \in SlowJobs, SlowCommunityInsert(s) \/ SlowInsert(s) PROVE Counted'
    <3>1. \A r \in SlowJobs : spc[r] \in Past => spc'[r] \in Past
      BY <2>3 DEF SlowCommunityInsert, SlowInsert, SlowTo, Past, Typed, TypeOK
    <3>2. QED
      BY <2>3, <3>1, CountKept DEF SlowCommunityInsert, SlowInsert, dbVars
  <2>4. ASSUME NEW s \in SlowJobs, SlowSave(s) PROVE Counted'
    <3>1. spc[s] = "saving" /\ spc' = [spc EXCEPT ![s] = "caching"]
      BY <2>4 DEF SlowSave, SlowTo
    <3>2. CASE add_token(MintOf[s])
      BY <3>1, <3>2, SaveCounts
    <3>3. CASE UNCHANGED <<dbVars, savedNow>>
      <4>1. \A r \in SlowJobs : spc[r] \in Past => spc'[r] \in Past
        BY <3>1 DEF Past, Typed, TypeOK
      <4>2. QED
        BY <3>3, <4>1, CountKept DEF dbVars
    <3>4. QED
      BY <2>4, <3>2, <3>3 DEF SlowSave
  <2>5. ASSUME NEW m \in Mints, NEW cap \in Caps[m], Buy(m, cap) PROVE Counted'
    BY <2>5, CountKept DEF Buy
  <2>6. CASE Restart
    <3>1. \A r \in SlowJobs : spc[r] \in Past => spc'[r] \in Past
      BY <2>6 DEF Restart, Past
    <3>2. QED
      BY <2>6, <3>1, CountKept DEF Restart, dbVars
  <2>7. CASE UNCHANGED vars
    BY <2>7, CountKept DEF vars, dbVars
  <2>8. QED
    BY <2>1, <2>2, <2>3, <2>4, <2>5, <2>6, <2>7 DEF Next, Slow, SlowLook
<1>3. Typed /\ Counted => DevCountsRows
  <2> SUFFICES ASSUME Typed, Counted, NEW d \in Devs
               PROVE  devCount[d] <= Cardinality(OldOf(d))
                        + Cardinality({s \in SlowJobs : MintOf[s] \in SavedOf(d)})
    BY DEF Counted, DevCountsRows
  <2> DEFINE All == {s \in SlowJobs : MintOf[s] \in SavedOf(d)}
  <2>1. IsFiniteSet(All) /\ Cardinality(All) \in Nat
    BY PipelineAssumption, FS_Subset, FS_CardinalityType
  <2>2. Cardinality(Saves(d)) <= Cardinality(All)
    BY <2>1, FS_Subset DEF Saves
  <2>3. QED
    BY <2>1, <2>2, Finite, OldFinite DEF Counted
<1>4. QED
  BY <1>1, <1>2, <1>3, TypedInvariant, PTL DEF Spec

\* A job that is past its checks has a token that no old row matches.
LEMMA PastKept ==
  ASSUME Typed, OldRowsAreFound, NEW s \in SlowJobs,
         spc'[s] \in PastChecks => spc[s] \in PastChecks,
         saved' \ savedNow' \subseteq saved \ savedNow, NEW m \in saved' \ savedNow'
  PROVE  spc'[s] \in PastChecks => ~RowMatches(Stored(Attrs[m]), Attrs[MintOf[s]])
BY DEF OldRowsAreFound

\* process_slow_create: the caches are lost when the process stops, and still no
\* job gets past its checks with a token that is a copy of what was saved before.
THEOREM OldRowsAreAlwaysFound == Spec => []OldRowsAreFound
<1>1. Init => OldRowsAreFound
  BY DEF Init, OldRowsAreFound, PastChecks
<1>2. Typed /\ OldRowsAreFound /\ [Next]_vars => OldRowsAreFound'
  <2> SUFFICES ASSUME Typed, OldRowsAreFound, [Next]_vars,
                      NEW s \in SlowJobs, NEW m \in saved' \ savedNow', spc'[s] \in PastChecks
               PROVE  ~RowMatches(Stored(Attrs[m]), Attrs[MintOf[s]])
    BY DEF OldRowsAreFound
  <2> DEFINE Found == ~RowMatches(Stored(Attrs[m]), Attrs[MintOf[s]])
  <2>1. ASSUME UNCHANGED <<saved, savedNow, spc>> PROVE Found
    BY <2>1, PastKept
  <2>2. ASSUME NEW f \in FastJobs, FastStart(f) \/ Fast(f) PROVE Found
    BY <2>1, <2>2, FastFrame DEF dbVars
  <2>3. ASSUME NEW r \in SlowJobs, SlowStart(r) \/ Slow(r) PROVE Found
    <3>1. saved' \ savedNow' \subseteq saved \ savedNow
      BY <2>3, SlowFrame DEF SlowSave, add_token, dbVars
    <3>2. CASE SlowDbCheck(r) /\ r = s
      <4>1. ~token_any_exists(Rows, Attrs[MintOf[s]])
        BY <3>2 DEF SlowDbCheck, SlowTo, PastChecks, Typed, TypeOK
      <4>2. Stored(Attrs[m]) \in Rows
        BY <3>1 DEF Rows
      <4>3. QED
        BY <4>1, <4>2 DEF token_any_exists
    <3>3. CASE ~(SlowDbCheck(r) /\ r = s)
      <4>1. spc[s] \in PastChecks
        BY <2>3, <3>3 DEF Slow, SlowStart, SlowCacheCheck, SlowDbCheck, SlowCommunityCheck,
             SlowCommunityDb, SlowCommunityInsert, SlowSave, SlowInsert, SlowTo, PastChecks,
             Typed, TypeOK
      <4>2. QED
        BY <3>1, <4>1, PastKept
    <3>4. QED
      BY <3>2, <3>3
  <2>4. ASSUME NEW n \in Mints, NEW cap \in Caps[n], Buy(n, cap) PROVE Found
    BY <2>1, <2>4 DEF Buy
  <2>5. CASE Restart
    BY <2>5 DEF Restart, PastChecks
  <2>6. CASE UNCHANGED vars
    BY <2>1, <2>6 DEF vars, dbVars
  <2>7. QED
    BY <2>2, <2>3, <2>4, <2>5, <2>6 DEF Next
<1>3. QED
  BY <1>1, <1>2, TypedInvariant, PTL DEF Spec

-----------------------------------------------------------------------------
(* dev_performance. *)

Fits(f) ==
    /\ perf[f].last \subseteq Others(f)
    /\ perf[f].count >= 1
    /\ Cardinality(perf[f].last) >= IF perf[f].count < Limit THEN perf[f].count ELSE Limit

\* Between the two queries the count is of rows that are still there.
Counting(f) ==
    /\ perf[f].count >= 1
    /\ perf[f].count <= Cardinality(Others(f))

PerfSound ==
    \A f \in FastJobs :
        perf[f] # None => IF fpc[f] = "last" THEN Counting(f) ELSE Fits(f)

LEMMA OthersFinite ==
  ASSUME Typed, NEW f \in FastJobs
  PROVE  /\ IsFiniteSet(Others(f)) /\ Cardinality(Others(f)) \in Nat
         /\ Others(f) \subseteq Mints
         /\ perf[f] # None => perf[f] \in Perf
<1>1. Others(f) \subseteq saved
  BY DEF Others, SavedOf
<1>2. QED
  BY <1>1, FS_Subset, FS_CardinalityType DEF Typed, TypeOK, Placed

\* New rows only add to the others.
LEMMA SoundKept ==
  ASSUME Typed, Typed', PerfSound, saved \subseteq saved', NEW f \in FastJobs,
         perf'[f] = perf[f], fpc'[f] = "last" <=> fpc[f] = "last", perf[f] # None
  PROVE  IF fpc'[f] = "last" THEN Counting(f)' ELSE Fits(f)'
<1>1. Others(f) \subseteq Others(f)'
  BY DEF Others, SavedOf
<1>2. /\ IsFiniteSet(Others(f)') /\ Cardinality(Others(f)') \in Nat
      /\ Cardinality(Others(f)) \in Nat /\ perf[f].count \in Nat
  <2>1. Others(f)' \subseteq saved' /\ IsFiniteSet(saved')
    BY DEF Others, SavedOf, Typed, Placed
  <2>2. IsFiniteSet(Others(f)') /\ Cardinality(Others(f)') \in Nat
    BY <2>1, FS_Subset, FS_CardinalityType
  <2>3. QED
    BY <2>2, OthersFinite DEF Perf
<1>3. Cardinality(Others(f)) <= Cardinality(Others(f)')
  BY <1>1, <1>2, FS_Subset
<1>4. CASE fpc[f] = "last"
  BY <1>2, <1>3, <1>4 DEF PerfSound, Counting
<1>5. CASE fpc[f] # "last"
  BY <1>1, <1>5 DEF PerfSound, Fits
<1>6. QED
  BY <1>4, <1>5

LEMMA MedianSound ==
  ASSUME Typed, Typed', PerfSound, saved \subseteq saved', NEW f \in FastJobs, FastMedian(f),
         perf'[f] # None
  PROVE  IF fpc'[f] = "last" THEN Counting(f)' ELSE Fits(f)'
<1>1. fpc[f] = "median" /\ fpc'[f] \in {"last", "inserting"} /\ saved' = saved
  BY DEF FastMedian, FastTo, Typed, TypeOK, dbVars
<1>2. CASE fpc'[f] = "inserting"
  <2>1. perf'[f] = perf[f]
    BY <1>2 DEF FastMedian, FastTo, Typed, TypeOK
  <2>2. QED
    BY <1>1, <1>2, <2>1, SoundKept
<1>3. CASE fpc'[f] = "last"
  <2>1. perf'[f].count = Cardinality(Others(f)) /\ Others(f) # {}
    BY <1>3 DEF FastMedian, FastTo, Typed, TypeOK
  <2>2. Cardinality(Others(f)) >= 1
    BY <2>1, OthersFinite, FS_EmptySet
  <2>3. Others(f)' = Others(f)
    BY <1>1 DEF Others, SavedOf
  <2>4. QED
    BY <1>3, <2>1, <2>2, <2>3, OthersFinite DEF Counting
<1>4. QED
  BY <1>1, <1>2, <1>3

LEMMA LastSound ==
  ASSUME Typed, PerfSound, NEW f \in FastJobs, FastLast(f), perf'[f] # None
  PROVE  fpc'[f] # "last" /\ Fits(f)'
<1>1. fpc[f] = "last" /\ fpc'[f] = "inserting" /\ saved' = saved
  BY DEF FastLast, FastTo, Typed, TypeOK, dbVars
<1>2. Others(f)' = Others(f)
  BY <1>1 DEF Others, SavedOf
<1>3. PICK last \in SUBSET Others(f) :
          /\ \/ Cardinality(last) = Limit
             \/ last = Others(f) /\ Cardinality(last) < Limit
          /\ perf' = [perf EXCEPT ![f].last = last]
  BY DEF FastLast, Typed, TypeOK
<1>4. perf[f] \in Perf
  BY <1>1 DEF Typed, TypeOK, Placed
<1>5. perf'[f].last = last /\ perf'[f].count = perf[f].count /\ perf[f].count \in Nat
  BY <1>3, <1>4 DEF Perf, Typed, TypeOK
<1>6. perf[f].count >= 1 /\ perf[f].count <= Cardinality(Others(f))
  BY <1>1, <1>4, PipelineAssumption DEF PerfSound, Counting
<1>7. Limit \in Nat /\ Cardinality(Others(f)) \in Nat
  BY PipelineAssumption, OthersFinite
<1>8. Cardinality(last) >= IF perf[f].count < Limit THEN perf[f].count ELSE Limit
  BY <1>3, <1>5, <1>6, <1>7
<1>9. QED
  BY <1>1, <1>2, <1>3, <1>5, <1>6, <1>8 DEF Fits

\* The other steps of a fast job leave its dev_performance alone.
LEMMA PerfFrame ==
  ASSUME Typed, NEW f \in FastJobs, FastStart(f) \/ Fast(f)
  PROVE  /\ \A g \in FastJobs : g # f => perf'[g] = perf[g] /\ fpc'[g] = fpc[g]
         /\ \/ FastMedian(f) \/ FastLast(f)
            \/ perf'[f] \in {perf[f], None} /\ fpc'[f] # "last" /\ fpc[f] # "last"
<1> USE DEF Typed, TypeOK, FastTo
<1>1. CASE FastStart(f) \/ FastExists(f) \/ FastCommunity(f) \/ FastInsert(f)
  BY <1>1 DEF FastStart, FastExists, FastCommunity, FastInsert
<1>2. CASE FastDecideBlind(f) \/ FastDecide(f)
  BY <1>2 DEF FastDecideBlind, FastDecide, Decided, Joined, AfterChecks
<1>3. CASE FastMedian(f)
  BY <1>3 DEF FastMedian
<1>4. CASE FastLast(f)
  BY <1>4 DEF FastLast
<1>5. CASE FastSend(f)
  BY <1>5 DEF FastSend
<1>6. QED
  BY <1>1, <1>2, <1>3, <1>4, <1>5 DEF Fast

\* get_dev_median_ath_excluding and get_last_tokens_by_dev_excluding are two
\* queries with saves in between; the count of the first is nevertheless borne
\* out by the list of the second, and neither contains the token itself.
THEOREM PerfAlwaysFits == Spec => []PerfFits
<1>1. Init => PerfSound
  BY DEF Init, PerfSound
<1>2. Typed /\ Typed' /\ PerfSound /\ [Next]_vars => PerfSound'
  <2> SUFFICES ASSUME Typed, Typed', PerfSound, [Next]_vars, NEW f \in FastJobs,
                      perf'[f] # None
               PROVE  IF fpc'[f] = "last" THEN Counting(f)' ELSE Fits(f)'
    BY DEF PerfSound
  <2>0. saved \subseteq saved'
    BY RowsGrow
  <2>1. ASSUME UNCHANGED fastVars PROVE IF fpc'[f] = "last" THEN Counting(f)' ELSE Fits(f)'
    BY <2>0, <2>1, SoundKept DEF fastVars
  <2>2. ASSUME NEW g \in FastJobs, FastStart(g) \/ Fast(g)
        PROVE  IF fpc'[f] = "last" THEN Counting(f)' ELSE Fits(f)'
    <3>1. CASE perf'[f] = perf[f] /\ (fpc'[f] = "last" <=> fpc[f] = "last")
      BY <2>0, <3>1, SoundKept
    <3>2. CASE g = f /\ FastMedian(f)
      BY <2>0, <3>2, MedianSound
    <3>3. CASE g = f /\ FastLast(f)
      BY <3>3, LastSound
    <3>4. QED
      BY <2>2, <3>1, <3>2, <3>3, PerfFrame
  <2>3. ASSUME NEW s \in SlowJobs, SlowStart(s) \/ Slow(s)
        PROVE  IF fpc'[f] = "last" THEN Counting(f)' ELSE Fits(f)'
    BY <2>1, <2>3, SlowFrame
  <2>4. ASSUME NEW m \in Mints, NEW cap \in Caps[m], Buy(m, cap)
        PROVE  IF fpc'[f] = "last" THEN Counting(f)' ELSE Fits(f)'
    BY <2>1, <2>4 DEF Buy
  <2>5. CASE Restart
    BY <2>5 DEF Restart
  <2>6. CASE UNCHANGED vars
    BY <2>1, <2>6 DEF vars
  <2>7. QED
    BY <2>2, <2>3, <2>4, <2>5, <2>6 DEF Next
<1>3. PerfSound => PerfFits
  BY DEF PerfSound, PerfFits, Fits
<1>4. QED
  BY <1>1, <1>2, <1>3, TypedInvariant, PTL DEF Spec
=============================================================================
