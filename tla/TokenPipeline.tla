---------------------------- MODULE TokenPipeline ----------------------------
(***************************************************************************)
(* What the server does with a created token (tokenir/src/main.rs).  Two   *)
(* feeds report the creation independently:                                *)
(*   - the serving feed spawns process_fast_create, which decides whether  *)
(*     to broadcast the token to the connected clients;                    *)
(*   - the analysis feed spawns process_slow_create, which decides whether *)
(*     to save it in table tokens.                                         *)
(* The jobs of both kinds share the token cache, the community cache and   *)
(* the database.  They hold a lock only for one look or one insertion, so  *)
(* each segment between two awaits or locks is one action.  A request that *)
(* looks at nothing the jobs share (the metadata file, the community of a  *)
(* token that is to be saved) is one action with the segment before it:    *)
(* when its answer comes makes no difference to the other jobs.  The       *)
(* analysis feed also reports trades, which raise the all-time high of     *)
(* saved tokens.                                                           *)
(***************************************************************************)
EXTENDS TokenDedup, Naturals, FiniteSets

CONSTANTS
    Mints,        \* the tokens that are created
    Attrs,        \* Mints -> Attributes: event and metadata file of a token
    Communities,
    Community,    \* Mints -> the community its metadata names, or None
    Devs,
    Creator,      \* Communities -> the creator's id
    FastJobs,     \* executions of process_fast_create
    SlowJobs,     \* executions of process_slow_create
    MintOf,       \* FastJobs \cup SlowJobs -> the token of the event
    OldAth,       \* table tokens at the first start: mints -> their ath
    FreshCap,     \* FRESH_MARKET_CAP, the first all-time high
    Limit,        \* how many of a developer's last tokens are asked for
    Caps,         \* Mints -> market caps that their trades reach
    Faults,       \* what fails, see FaultKinds
    MaxBoots      \* bound: restarts of the process

(***************************************************************************)
(* "metadata": the metadata file cannot be fetched; "query": a SELECT      *)
(* fails; "community": twitterapi.io does not answer; "save": add_token    *)
(* fails; "late": a job starts more than five seconds after its event.     *)
(***************************************************************************)
FaultKinds == {"metadata", "query", "community", "save", "late"}

\* DevPerformance: how many other tokens the developer has, and the last ones.
Perf == [count : Nat, last : SUBSET Mints]

ASSUME PipelineAssumption ==
    /\ Attrs \in [Mints -> Attributes]
    /\ \A m \in Mints : Attrs[m].name # None  \* a create event has a name
    /\ None \notin Perf
    /\ Community \in [Mints -> Communities \cup {None}]
    /\ None \notin Communities
    /\ None \notin Devs
    /\ Creator \in [Communities -> Devs]
    /\ IsFiniteSet(SlowJobs)
    /\ MintOf \in [FastJobs \cup SlowJobs -> Mints]
    /\ DOMAIN OldAth \subseteq Mints /\ IsFiniteSet(DOMAIN OldAth)
    \* a row was saved, and only a token with a community is
    /\ \A m \in DOMAIN OldAth : OldAth[m] \in Nat /\ Community[m] # None
    /\ FreshCap \in Nat /\ Limit \in Nat /\ Caps \in [Mints -> SUBSET Nat] /\ MaxBoots \in Nat
    /\ Faults \subseteq FaultKinds

VARIABLES
    boots,
    cache,      \* token_cache
    commCache,  \* community_cache
    saved,      \* table tokens: the mints that have a row
    ath,        \* column ath of the rows
    devCount,   \* table devs: total_token_count
    fpc,        \* per fast job: where it is
    fexists,    \* per fast job: token_exists, "unknown" until the query answers
    fmeta,      \* per fast job: metadata_res, "unknown" unless the job needs it
    perf,       \* per fast job: dev_performance, None when absent
    spc,        \* per slow job: where it is
    cachedMints,\* history: mints inserted into token_cache since the start
    savedNow    \* history: mints saved since the start

memVars  == <<cache, commCache, cachedMints>>
dbVars   == <<saved, ath, devCount>>
fastVars == <<fpc, fexists, fmeta, perf>>
vars == <<boots, memVars, dbVars, fastVars, spc, savedNow>>

\* "done": the token was sent or dropped, saved or not, or the process stopped.
FastPhase == {"waiting", "joining", "community", "median", "last", "inserting",
              "sending", "done"}
SlowPhase == {"waiting", "cache", "db", "comm cache", "comm db", "comm found",
              "comm insert", "saving", "caching", "done"}

\* The creator of a token's community: what dev_address is compared with.
Dev(m) == Creator[Community[m]]
SavedOf(d) == {m \in saved : Dev(m) = d}
OldOf(d) == {m \in DOMAIN OldAth : Dev(m) = d}
Rows == {Stored(Attrs[m]) : m \in saved}

\* process_fast_create asks the database before it has the metadata.
EventOnly(t) == [t EXCEPT !.image = None, !.description = None]

-----------------------------------------------------------------------------
(* process_fast_create. *)

FastTo(f, p) == fpc' = [fpc EXCEPT ![f] = p]

\* The serving feed reports the creation and spawns the job.  Of the two halves
\* of its join!, the fetch (get_metadata) ends in one way or the other; the query
\* is FastExists.
FastStart(f) ==
    /\ fpc[f] = "waiting"
    /\ FastTo(f, "joining")
    /\ \E answer \in {"ok", "failed"} :
          /\ answer = "failed" => "metadata" \in Faults
          /\ fmeta' = [fmeta EXCEPT ![f] = answer]
    /\ UNCHANGED <<boots, memVars, dbVars, fexists, perf, spc, savedNow>>

\* join!, the query: token_any_exists(name, symbol, uri, None, None); an error
\* counts as "does not exist".
FastExists(f) ==
    /\ fpc[f] = "joining" /\ fexists[f] = "unknown"
    /\ \E answer \in {"yes", "no"} :
          /\ answer = "yes" => token_any_exists(Rows, EventOnly(Attrs[MintOf[f]]))
          /\ answer = "no" => \/ "query" \in Faults
                              \/ ~token_any_exists(Rows, EventOnly(Attrs[MintOf[f]]))
          /\ fexists' = [fexists EXCEPT ![f] = answer]
    /\ UNCHANGED <<boots, memVars, dbVars, fpc, fmeta, perf, spc, savedNow>>

\* Both halves of the join have ended.
Joined(f) == fpc[f] = "joining" /\ fexists[f] # "unknown"

\* The job goes on at p.  What it does not look at again is forgotten: the
\* database's answer, and everything when the token is dropped.
Decided(f, p) ==
    /\ FastTo(f, p)
    /\ fexists' = [fexists EXCEPT ![f] = "unknown"]
    /\ fmeta' = [fmeta EXCEPT ![f] = IF p = "done" THEN "unknown" ELSE @]
    /\ UNCHANGED <<boots, memVars, dbVars, perf, spc, savedNow>>

\* Without metadata only the cache decides, and a token that passes is sent at
\* once: it is not put into the cache, and the database's answer is not used.
FastDecideBlind(f) ==
    /\ Joined(f) /\ fmeta[f] = "failed"
    /\ IF check_duplicate(cache, EventOnly(Attrs[MintOf[f]]))
       THEN Decided(f, "done")
       ELSE Decided(f, "sending")

AfterChecks(f) == IF Community[MintOf[f]] = None THEN "inserting" ELSE "community"

\* Mutated form of FastDecide: only the database decides.
FastDecideUncached(f) ==
    /\ Joined(f) /\ fmeta[f] = "ok"
    /\ Decided(f, IF fexists[f] = "yes" THEN "done" ELSE AfterChecks(f))

\* With metadata: the cache, then the database's answer, then the five seconds.
\* The clock was read when the job started, so being late is known from then on.
FastDecide(f) ==
    /\ Joined(f) /\ fmeta[f] = "ok"
    /\ \/ /\ \/ check_duplicate(cache, Attrs[MintOf[f]])
             \/ fexists[f] = "yes"
             \/ "late" \in Faults
          /\ Decided(f, "done")
       \/ /\ ~check_duplicate(cache, Attrs[MintOf[f]])
          /\ fexists[f] = "no"
          /\ Decided(f, AfterChecks(f))

\* Mutated form of FastCommunity: an early return on an error.
FastCommunityReturnsEarly(f) ==
    /\ fpc[f] = "community"
    /\ \/ FastTo(f, "median")
       \/ "community" \in Faults /\ FastTo(f, "sending")
    /\ UNCHANGED <<boots, memVars, dbVars, fexists, fmeta, perf, spc, savedNow>>

\* get_community_by_id: without an answer there is no developer to look up.
FastCommunity(f) ==
    /\ fpc[f] = "community"
    /\ \/ FastTo(f, "median")
       \/ "community" \in Faults /\ FastTo(f, "inserting")
    /\ UNCHANGED <<boots, memVars, dbVars, fexists, fmeta, perf, spc, savedNow>>

\* The other tokens of the developer of job f's token.
Others(f) == SavedOf(Dev(MintOf[f])) \ {MintOf[f]}

\* Mutated form of FastMedian: it does not exclude the token itself.
FastMedianOfAll(f) ==
    /\ fpc[f] = "median"
    /\ \/ /\ SavedOf(Dev(MintOf[f])) # {}
          /\ FastTo(f, "last")
          /\ perf' = [perf EXCEPT ![f] = [count |-> Cardinality(SavedOf(Dev(MintOf[f]))), last |-> {}]]
       \/ /\ SavedOf(Dev(MintOf[f])) = {} \/ "query" \in Faults
          /\ FastTo(f, "inserting")
          /\ perf' = perf
    /\ UNCHANGED <<boots, memVars, dbVars, fexists, fmeta, spc, savedNow>>

\* get_dev_median_ath_excluding: the median is NULL when there is no row.  The
\* value of the median is left out.
FastMedian(f) ==
    /\ fpc[f] = "median"
    /\ \/ /\ Others(f) # {}
          /\ FastTo(f, "last")
          /\ perf' = [perf EXCEPT ![f] = [count |-> Cardinality(Others(f)), last |-> {}]]
       \/ /\ Others(f) = {} \/ "query" \in Faults
          /\ FastTo(f, "inserting")
          /\ perf' = perf
    /\ UNCHANGED <<boots, memVars, dbVars, fexists, fmeta, spc, savedNow>>

\* get_last_tokens_by_dev_excluding; created_at is left out, so any Limit of
\* them may be the last.
FastLast(f) ==
    /\ fpc[f] = "last"
    /\ FastTo(f, "inserting")
    /\ \/ \E last \in SUBSET Others(f) :
             /\ \/ Cardinality(last) = Limit
                \/ last = Others(f) /\ Cardinality(last) < Limit
             /\ perf' = [perf EXCEPT ![f].last = last]
       \/ /\ "query" \in Faults
          /\ perf' = [perf EXCEPT ![f] = None]
    /\ UNCHANGED <<boots, memVars, dbVars, fexists, fmeta, spc, savedNow>>

\* "Add to cache after successful creation".
FastInsert(f) ==
    /\ fpc[f] = "inserting"
    /\ FastTo(f, "sending")
    /\ cache' = insert_token(cache, Attrs[MintOf[f]])
    /\ cachedMints' = cachedMints \cup {MintOf[f]}
    /\ UNCHANGED <<boots, commCache, dbVars, fexists, fmeta, perf, spc, savedNow>>

\* b_tx.send, whose failure is ignored; the job ends.
FastSend(f) ==
    /\ fpc[f] = "sending"
    /\ FastTo(f, "done")
    /\ fmeta' = [fmeta EXCEPT ![f] = "unknown"]
    /\ perf' = [perf EXCEPT ![f] = None]
    /\ UNCHANGED <<boots, memVars, dbVars, fexists, spc, savedNow>>

-----------------------------------------------------------------------------
(* process_slow_create. *)

SlowTo(s, p) == spc' = [spc EXCEPT ![s] = p]

\* The analysis feed spawns the job; get_metadata.
SlowStart(s) ==
    /\ spc[s] = "waiting"
    /\ \/ SlowTo(s, "cache")
       \/ "metadata" \in Faults /\ SlowTo(s, "done")
    /\ UNCHANGED <<boots, memVars, dbVars, fastVars, savedNow>>

\* "Check cache first before DB".
SlowCacheCheck(s) ==
    /\ spc[s] = "cache"
    /\ IF check_duplicate(cache, Attrs[MintOf[s]])
       THEN SlowTo(s, "done")
       ELSE SlowTo(s, "db")
    /\ UNCHANGED <<boots, memVars, dbVars, fastVars, savedNow>>

\* Mutated form of SlowDbCheck: an error counts as "does not exist".
SlowDbCheckForgives(s) ==
    /\ spc[s] = "db"
    /\ \/ /\ \/ token_any_exists(Rows, Attrs[MintOf[s]])
             \/ Community[MintOf[s]] = None
          /\ SlowTo(s, "done")
       \/ /\ ~token_any_exists(Rows, Attrs[MintOf[s]]) \/ "query" \in Faults
          /\ Community[MintOf[s]] # None
          /\ SlowTo(s, "comm cache")
    /\ UNCHANGED <<boots, memVars, dbVars, fastVars, savedNow>>

\* token_any_exists(..).await.unwrap(): an error panics, which ends the job
\* alone.  A token without a community ends here as well.
SlowDbCheck(s) ==
    /\ spc[s] = "db"
    /\ \/ /\ \/ "query" \in Faults
             \/ token_any_exists(Rows, Attrs[MintOf[s]])
             \/ Community[MintOf[s]] = None
          /\ SlowTo(s, "done")
       \/ /\ ~token_any_exists(Rows, Attrs[MintOf[s]])
          /\ Community[MintOf[s]] # None
          /\ SlowTo(s, "comm cache")
    /\ UNCHANGED <<boots, memVars, dbVars, fastVars, savedNow>>

SlowCommunityCheck(s) ==
    /\ spc[s] = "comm cache"
    /\ IF Community[MintOf[s]] \in commCache
       THEN SlowTo(s, "done")
       ELSE SlowTo(s, "comm db")
    /\ UNCHANGED <<boots, memVars, dbVars, fastVars, savedNow>>

token_community_exists(k) == \E m \in saved : Community[m] = k

\* An error of the query counts as "does not exist"; for a new community follows
\* get_community_by_id.
SlowCommunityDb(s) ==
    /\ spc[s] = "comm db"
    /\ \/ token_community_exists(Community[MintOf[s]]) /\ SlowTo(s, "comm found")
       \/ /\ ~token_community_exists(Community[MintOf[s]]) \/ "query" \in Faults
          /\ \/ SlowTo(s, "comm insert")
             \/ "community" \in Faults /\ SlowTo(s, "done")
    /\ UNCHANGED <<boots, memVars, dbVars, fastVars, savedNow>>

\* Mutated form of SlowCommunityInsert: only the database's answer is cached.
SlowCommunityUncached(s) ==
    /\ \/ /\ spc[s] = "comm found" /\ SlowTo(s, "done")
          /\ commCache' = commCache \cup {Community[MintOf[s]]}
       \/ /\ spc[s] = "comm insert" /\ SlowTo(s, "saving")
          /\ commCache' = commCache
    /\ UNCHANGED <<boots, cache, cachedMints, dbVars, fastVars, savedNow>>

\* Both insertions into the community cache: before the job ends because the
\* community is in the table, and before it saves the token.
SlowCommunityInsert(s) ==
    /\ \/ spc[s] = "comm found" /\ SlowTo(s, "done")
       \/ spc[s] = "comm insert" /\ SlowTo(s, "saving")
    /\ commCache' = commCache \cup {Community[MintOf[s]]}
    /\ UNCHANGED <<boots, cache, cachedMints, dbVars, fastVars, savedNow>>

Greatest(x, y) == IF x >= y THEN x ELSE y

\* Mutated forms of add_token: ath = EXCLUDED.ath; the row is not written.
add_token_overwriting(m) ==
    /\ devCount' = [devCount EXCEPT ![Dev(m)] = @ + 1]
    /\ saved' = saved \cup {m}
    /\ ath' = [ath EXCEPT ![m] = FreshCap]
    /\ savedNow' = savedNow \cup {m}
add_token_without_row(m) ==
    /\ devCount' = [devCount EXCEPT ![Dev(m)] = @ + 1]
    /\ savedNow' = savedNow \cup {m}
    /\ UNCHANGED <<saved, ath>>

\* add_token in one transaction: the developer's counter goes up even when the
\* row exists (ON CONFLICT (mint) DO UPDATE; its texts are the same ones).
add_token(m) ==
    /\ devCount' = [devCount EXCEPT ![Dev(m)] = @ + 1]
    /\ saved' = saved \cup {m}
    /\ ath' = [ath EXCEPT ![m] = IF m \in saved THEN Greatest(@, FreshCap) ELSE FreshCap]
    /\ savedNow' = savedNow \cup {m}

\* Mutated form of SlowSave: the row is written first, and outside of the
\* transaction that counts it.
SlowSaveTorn(s) ==
    /\ spc[s] = "saving"
    /\ SlowTo(s, "caching")
    /\ \/ add_token(MintOf[s])
       \/ /\ "save" \in Faults
          /\ saved' = saved \cup {MintOf[s]}
          /\ UNCHANGED <<ath, devCount, savedNow>>
    /\ UNCHANGED <<boots, memVars, fastVars>>

\* let _ = add_token(..).await: the job goes on whatever the answer.
SlowSave(s) ==
    /\ spc[s] = "saving"
    /\ SlowTo(s, "caching")
    /\ \/ add_token(MintOf[s])
       \/ "save" \in Faults /\ UNCHANGED <<dbVars, savedNow>>
    /\ UNCHANGED <<boots, memVars, fastVars>>

\* "Add to token cache after successful DB insert".
SlowInsert(s) ==
    /\ spc[s] = "caching"
    /\ SlowTo(s, "done")
    /\ cache' = insert_token(cache, Attrs[MintOf[s]])
    /\ cachedMints' = cachedMints \cup {MintOf[s]}
    /\ UNCHANGED <<boots, commCache, dbVars, fastVars, savedNow>>

-----------------------------------------------------------------------------
(* Trades and restarts. *)

\* Event::Buy: update_token_ath on the row of the traded token.  A trade that
\* is reported before the row exists updates nothing.
Buy(m, cap) ==
    /\ ath' = IF m \in saved THEN [ath EXCEPT ![m] = Greatest(@, cap)] ELSE ath
    /\ UNCHANGED <<boots, memVars, saved, devCount, fastVars, spc, savedNow>>

\* The process stops and starts again: the caches are empty, the jobs are gone.
Restart ==
    /\ boots < MaxBoots
    /\ boots' = boots + 1
    /\ cache' = EmptyCache
    /\ commCache' = {}
    /\ fpc' = [f \in FastJobs |-> IF fpc[f] = "waiting" THEN "waiting" ELSE "done"]
    /\ spc' = [s \in SlowJobs |-> IF spc[s] = "waiting" THEN "waiting" ELSE "done"]
    /\ fexists' = [f \in FastJobs |-> "unknown"]
    /\ fmeta' = [f \in FastJobs |-> "unknown"]
    /\ perf' = [f \in FastJobs |-> None]
    /\ cachedMints' = {}
    /\ savedNow' = {}
    /\ UNCHANGED dbVars

-----------------------------------------------------------------------------
Init ==
    /\ boots = 0
    /\ cache = EmptyCache
    /\ commCache = {}
    /\ saved = DOMAIN OldAth
    /\ ath = [m \in Mints |-> IF m \in DOMAIN OldAth THEN OldAth[m] ELSE 0]
    /\ devCount = [d \in Devs |-> Cardinality(OldOf(d))]
    /\ fpc = [f \in FastJobs |-> "waiting"]
    /\ fexists = [f \in FastJobs |-> "unknown"]
    /\ fmeta = [f \in FastJobs |-> "unknown"]
    /\ perf = [f \in FastJobs |-> None]
    /\ spc = [s \in SlowJobs |-> "waiting"]
    /\ cachedMints = {}
    /\ savedNow = {}

Fast(f) ==
    \/ FastExists(f) \/ FastDecideBlind(f) \/ FastDecide(f)
    \/ FastCommunity(f) \/ FastMedian(f) \/ FastLast(f) \/ FastInsert(f) \/ FastSend(f)

Slow(s) ==
    \/ SlowCacheCheck(s) \/ SlowDbCheck(s) \/ SlowCommunityCheck(s)
    \/ SlowCommunityDb(s) \/ SlowCommunityInsert(s) \/ SlowSave(s) \/ SlowInsert(s)

Next ==
    \/ \E f \in FastJobs : FastStart(f) \/ Fast(f)
    \/ \E s \in SlowJobs : SlowStart(s) \/ Slow(s)
    \/ \E m \in Mints : \E cap \in Caps[m] : Buy(m, cap)
    \/ Restart

Spec == Init /\ [][Next]_vars

\* tokio runs every spawned job; its requests and queries end (get_metadata has
\* a timeout, the other calls end with their TCP connection).
Fairness ==
    /\ \A f \in FastJobs : WF_vars(Fast(f))
    /\ \A s \in SlowJobs : WF_vars(Slow(s))

FairSpec == Spec /\ Fairness

-----------------------------------------------------------------------------
(* Properties. *)

TypeOK ==
    /\ boots \in Nat
    /\ cache \in TokenCache
    /\ commCache \subseteq Communities
    /\ saved \subseteq Mints
    /\ ath \in [Mints -> Nat]
    /\ devCount \in [Devs -> Nat]
    /\ fpc \in [FastJobs -> FastPhase]
    /\ fexists \in [FastJobs -> {"unknown", "yes", "no"}]
    /\ fmeta \in [FastJobs -> {"unknown", "ok", "failed"}]
    /\ perf \in [FastJobs -> Perf \cup {None}]
    /\ spc \in [SlowJobs -> SlowPhase]
    /\ cachedMints \subseteq Mints
    /\ savedNow \subseteq saved

\* What job f knows of its token when it decides.
Known(f) == IF fmeta[f] = "ok" THEN Attrs[MintOf[f]] ELSE EventOnly(Attrs[MintOf[f]])

\* No token is let through to the clients that resembles a token cached since
\* the start, by whichever of the two paths (process_fast_create): copies get
\* out only while the first one is still between its check and its insertion.
CopiesDroppedOnceCached ==
    [][\A f \in FastJobs :
          fpc[f] = "joining" /\ fpc'[f] \in {"community", "inserting", "sending"} =>
             \A m \in cachedMints : ~Resembles(Attrs[m], Known(f))]_vars

\* A token that is about to be sent with its metadata is in the cache, so that
\* window ends before a client can have seen the token.
SentAreCached ==
    \A f \in FastJobs :
        fpc[f] = "sending" /\ fmeta[f] = "ok" => MintOf[f] \in cachedMints

\* A token saved since the start is found by check_duplicate, unless the job
\* that saved it is about to cache it, and its community is in the community
\* cache: no later job saves a copy or a second token of the community.
RowsAreCached ==
    \A m \in savedNow :
        /\ Community[m] \in commCache
        /\ \/ check_duplicate(cache, Attrs[m])
           \/ \E s \in SlowJobs : MintOf[s] = m /\ spc[s] = "caching"

\* What was saved before a restart is found although the caches are lost: no job
\* gets past its checks with a token that a row of an earlier run of the process
\* matches, be it a copy or the same token reported again.  An error of the query
\* must not pass for an answer (process_slow_create, token_any_exists).
PastChecks == {"comm cache", "comm db", "comm found", "comm insert", "saving", "caching"}
OldRowsAreFound ==
    \A s \in SlowJobs, m \in saved \ savedNow :
        spc[s] \in PastChecks => ~RowMatches(Stored(Attrs[m]), Attrs[MintOf[s]])

\* devs.total_token_count is at least the number of rows of the developer and
\* at most what it was plus the reports of these tokens since, whatever fails in
\* between (add_token is one transaction): exact when every creation is
\* reported once.
DevCountsRows ==
    \A d \in Devs :
        /\ Cardinality(SavedOf(d)) <= devCount[d]
        /\ devCount[d] <= Cardinality(OldOf(d))
                            + Cardinality({s \in SlowJobs : MintOf[s] \in SavedOf(d)})

\* A saved token stays saved and its all-time high never goes down, whether
\* the next write is a trade's or a second save of the same token.
AthNeverDrops ==
    [][\A m \in saved : m \in saved' /\ ath'[m] >= ath[m]]_vars

\* The two queries behind dev_performance are not one snapshot, but they fit:
\* the tokens listed are other tokens of that developer, and there are as many
\* as the count promises, up to the limit.
PerfFits ==
    \A f \in FastJobs :
        perf[f] # None /\ fpc[f] # "last" =>
            /\ perf[f].last \subseteq Others(f)
            /\ perf[f].count >= 1
            /\ Cardinality(perf[f].last) >= IF perf[f].count < Limit THEN perf[f].count ELSE Limit

-----------------------------------------------------------------------------
(* What the code's comments say, which the code does not do. *)

\* "CONNECTION 2: SAVING & ANALYZING" (main), with a cache that is only a faster
\* answer than the table's ("Check cache first before DB"): when nothing fails,
\* nothing is a copy and the process keeps running, a token with a community
\* gets its row.
TokenIsSaved ==
    \A s \in SlowJobs : spc[s] = "cache" ~> MintOf[s] \in saved
=============================================================================
