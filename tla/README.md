# Verification of the token radar

The repository holds three Rust programs: a server (`src/tokenir`) that watches the creation of pump.fun tokens, a
desktop client (`src/tokenir_ui`) that shows, filters and buys them, and an administrator's panel
(`src/tokenir_admin`).  This directory holds TLA+ models of them, TLC configurations that model-check the models on
small instances, and proofs checked by TLAPS.  The code is the reference: it has no tests, and its only documents are a
set-up guide and its comments.

To repeat a run: `tlc -config SessionRegistry_safety.cfg MCSessionRegistry`; to repeat the proofs: `tlapm` on each
`...Proofs.tla`.  `PROJECT.json` lists the runs with their properties, the theorems, the lines of code behind every definition, and for each property a mutant of the code that breaks it.

## Inventory

| Part | State | Operations | What is hard | What makes it correct |
|---|---|---|---|---|
| Session registry (`tokenir/src/main.rs`, `ws_handler`, `handle_socket`, `add_user_handler`, `remove_user_handler`, `restart_handler`; `database.rs`, table users) | `active_connections`, `next_session_id`, table `users`, two tasks per session | upgrade requests, session start and end, add and remove a user, restart | requests, removals, late cleanups and crashes interleave; half-finished upgrades; which of two tasks notices a dead link | one session per key; an entry always has its session; a session removes only its own entry; gone clients release their key; a shutdown ends |
| Token pipeline (`process_fast_create`, `process_slow_create`, `database.rs`, tables tokens and devs) | token cache, community cache, the tables | decide, broadcast, save, raise the all-time high | two feeds work on the same token at once; check and insertion are apart; every await can fail; restarts lose the caches only | copies are dropped once the original is known, also from before a restart; rows, counters, caches and performance fit together |
| Duplicate detection (`TokenCache`, `token_any_exists`) | six maps | `check_duplicate`, `insert_token` | tests on pairs of attributes spread over several maps, absent attributes, blanks | the maps answer like a search through the tokens |
| Broadcast and delivery (`broadcast::channel`, `send_task`, `tokenir_ui/src/fetcher.rs`) | ring buffer, a cursor per session, the client's `autobuy` | send, lag, reconnect | a slow client is overtaken; status and tokens of two links | no silent gap; a token is handled with its own link's status; tokens arrive |
| Padre client (`tokenir_ui/src/migration.rs`) | bounded queue, `pending_requests`, a sequence counter | `get_dev_history`, the connection task | time-outs against late answers, reconnects, keep-alives through the same queue | an answer reaches the call that asked; a call ends |
| Login and subscriptions (`tokenir_ui/src/main.rs`, `ui.rs` Launcher) | `key.json`, watch channel, `is_logged_in`, one task per login | log in, log out, start a subscription, abort one | `abort()` acts at the next await only; keys are skipped; the server counts the old link, or a dial that was given up, for a while or for good | no token is decided about twice; the last login is linked |
| Decision and settings (`run_subscription`, `handle_perf`, `ui.rs` MyApp, `filter.rs`, `blacklist.rs`, `autobuy.rs`) | filters on the screen, in the pool, in the automata and in four files; bans; switches; pool | decide about a token, edit, ban, switch, clear, exit | GUI edits under `try_lock`; files saved at different moments; kills | what is shown decides; bans and switches hold |
| Automatic purchase and bonding curve (`autobuy.rs`, `pump_interaction`) | amount, slippage, fee and tip; the switches | `BuyAutomata::buy`: quote, sign, send | the parameters are read before and after a request; an aborted subscription may still be buying; integer widths and rounding; a curve that is complete | a purchase is of one configuration, alone, and affordable |
| Server feeds (`tokenir/src/fetcher.rs`, callbacks in `main`) | two log subscriptions and a shred stream, a heartbeat task per link | connect, subscribe, read, reconnect | half-open links; heartbeats of dead links; a read loop that waits for a query; a callback that panics | no event is reported twice or out of order; lost links are replaced |
| Admin panel (`tokenir_admin/src/main.rs`) | list of users, spinner, a channel of events | list, add, remove, restart | a stale list, two requests at once, answers in any order, failures | nobody but a clicked user is deleted; the spinner stops |
| SOL price poller, external lookups, event decoding, unused server modules (`pool.rs`, `filters.rs`, `bundler.rs`, `access.rs`), instruction layouts, GUI layout | | | no control | not modelled |

How they interact: the feeds spawn `process_fast_create` and `process_slow_create`, which share caches and tables; the
first one's result is put on the broadcast channel; each session of the registry has a receiver of that channel and
writes to its client; the client's subscription hands each token to its handler, which asks Padre for the developer's
history, decides with filters, bans and switches that the GUI thread edits, and may buy.

## Modules

Each `await`, and each lock taken and released, is a point where other tasks run, so the code between two of them is one
action.  An action carries the name of the function it belongs to, or of what that segment does.  A local variable of a task is kept only while the task
still reads it.  A `MC...` module gives small sets to the constants; the `.cfg` files choose among them.  Variables marked
"history" in a module do not exist in the code: they record what a property needs to remember.

**SessionRegistry** — `pc[c]` is how far the handler of upgrade request `c` is: `requested`, `validated`, `numbered`
(it has its session id), then `upgrading` (entered in the map, 101 on its way), `opening`, `live`, `cleaning`, `ended`.
`tasks[c]` are its sending and receiving tasks, `peer[c]` the client's end.  `rpc[a]` walks through
`remove_user_handler`: key lookup, checks, DELETE, removal from the map.  `Crash`, `Exit` and `Boot` lose what is in memory.
Faults: failing queries, protocol errors, clients that vanish without closing, administrators that hang up.

**SessionLease** — the abstract specification of the registry: a key is leased to at most one session, a session gets a
lease once.  `LeaseSpec` says that SessionRegistry implements it with `Holder` as refinement mapping.

**TokenDedup** and **TokenCache** — the pure part (`insert_token`, `check_duplicate`, `token_any_exists`) and a machine
that inserts arbitrary tokens.  **TokenPipeline** extends TokenDedup: `fpc[f]` and `spc[s]` are the program counters of
executions of `process_fast_create` and `process_slow_create`.  A request that looks at nothing the jobs share (the metadata,
the community of a token to be saved) is joined to the segment before it: the other jobs cannot tell when it is answered.
The tables start with the rows of earlier runs of the server (`OldAth`).  Time is reduced to one question, whether a job is late;
medians and creation times of a developer's tokens are left out, counts and sets are not.

**Padre** — calls with their sequence numbers, the queue (capacity 100 in the code, a constant here), the connection task and
the link.  **Delivery** — one client behind the ring buffer (capacity 10000 in the code) on successive links.

**DesktopClient** — GUI thread, supervisor, subscriptions (an aborted one may finish its poll), the server's sessions
and restarts of the program.  A dial is a request (`dialing`), its registration (`Register`, then `admitted`) and the answer
(`Upgrade`).  It may fail after the registration (`Abandon`), and a task that is dropped meanwhile leaves its request behind
(`orphaned`, `LateRequest`).  An entry that is left without a session is `stuck` until the server is restarted or the user
removed (`Clear`): the finding of `registry_conflict`, seen from the client.  What the lists and filters say is arbitrary here.  A purchase is three actions, `Quote`, `Sign`
and `Send`, one per request; its amounts are computed by **BondingCurve**, on `u64` and `u128` words of any width.
`AutomataHeld` is the lock on the automata, which a purchase keeps and the GUI's edits need.  **TokenFilters** is
`FilterSet::matches`; **TokenDecision** is the handler of a token, one lock at a time, against the edits of the GUI and the
starts, logouts, exits and kills that decide which file is read and written when.

**Feeds** — `phase[f]` is where the loop of feed `f` is, `tcp[f]` its link, `wire[f]` what the node has sent, `beats[f]` the
links whose heartbeat task still runs.  A link ends, or falls silent without anybody saying so.  **EventFeed** is what
TokenPipeline takes for granted of reports: some of the chain's events, in order, none twice.

**AdminPanel** extends SessionRegistry: `request[s]` is a request of the panel on its way, from the button to the event;
`remove_user_begins`, `remove_user_goes_on` and `remove_user_ends` are the registry's steps of `remove_user_handler` tied to the
request that asked for them.  The panel starts with a list that another administrator has made stale.

Theorems are in a module of their own for each component: **SessionRegistryProofs** (with the panel), **TokenCacheProofs**,
**TokenPipelineProofs**, **DeliveryProofs**, **PadreProofs**, **DesktopClientProofs** (with BondingCurve), **TokenDecisionProofs** and
**FeedsProofs**.

## Runs

| Run | Shows |
|---|---|
| `registry_safety` | `RegistryInv`: ids are unique, the map has exactly the entries of the registered sessions.  `OneHolderPerKey`, `OnlyOwnCleanup`: no interleaving of requests, removals, re-added keys and late cleanups gives a key to two sessions or removes a foreign entry.  `OneServedUnlessRevoked`: two clients of one key are served only after an administrator's removal, or beside a sending task that its session has left behind.  `LeaseSpec`: the refinement. |
| `panel_live` | `OnlyClickedRemoved`: however stale the list and whatever the order of requests, nobody but a clicked user is deleted.  `PanelSettles`: the spinner stops, whatever fails.  `GoneClientReleases`: either task ending is enough for a session to give its key back.  `RestartCompletes`: open websockets do not hold a shutdown back. |
| `feeds_links` | `FeedSpec`: Feeds implements EventFeed.  `FeedsInv`: however often a subscription reconnects, it has the heartbeat of its current link and no other.  `LostLinksReplaced`: ended and silent links are replaced. |
| `cache_exact` | `CacheInv`: six maps answer like a search.  Every pair of tokens, every query. |
| `pipeline_copies` | `CopiesDroppedOnceCached`, `SentAreCached`: copies get through only while the original is between its check and its insertion.  `OldRowsAreFound`: with the caches lost, the table still stops copies of what was saved before a restart.  `RowsAreCached`, `DevCountsRows`, `PerfFits`, `AthNeverDrops`: caches, rows, counters and performance fit together under every fault, a double report, trades and a restart. |
| `padre_calls` | `AnswersMatch`: a late answer never reaches a later call.  `CallsEnd`: every call ends, unless the connection task has blocked itself. |
| `delivery_client` | `NothingLostSilently`, `StatusOfThisLink`, `TokensArrive`. |
| `client_logins` | `DecidedOnce`: no token is decided about by two subscriptions.  `OrderOfOneConfig`: a purchase is made of one configuration.  `QuoteAffordable`: what is ordered is on sale and costs no more than the amount.  `OneBuyer`: purchases never overlap.  `LoginInv`: a restart logs in the same key.  `BuysWereEnabled`.  `LastLoginIsLinked`: the last login gets its link back whatever happens to dials, unless the subscription has panicked or the server holds an entry of the key that no session owns. |
| `decision_edits` | `ShownFiltersApply`, `ShownBuyFiltersApply` with their inductive invariant, `BansHold`, `BoughtWhileOn`. |

Three runs show a comment or message that the code does not live up to; TLC finds the counterexample.

| Run | What the code says | What it does |
|---|---|---|
| `registry_conflict` | "Another session is already active for this key. Please close the existing connection first." | A client that is gone before its 101 arrives leaves an entry nobody removes, and is refused for as long as the process runs. |
| `pipeline_neversaved` | "CONNECTION 2: SAVING & ANALYZING", "Check cache first before DB" | The serving path caches the token first, and the analysis path takes it for a copy of itself and does not save it. |
| `padre_full` | "This will buffer messages even if the connection is currently down" | A keep-alive that arrives while the queue is full makes the connection task wait for room in the queue only it empties. |

### Bounds and why they are enough

- `SessionRegistry_safety`: two requests, one remover, two keys, two rows ever inserted besides the administrator's, one
  restart.  A violation of any of the properties needs two sessions of one key, a removal between them and a re-added row; all
  fit.  Clients of this run close their links and do not vanish: the session of a vanished client is cleaned up later, and a
  closed link's session may be cleaned up at any time, so vanishing adds no order of steps; `AdminPanel_live` has it.
- `AdminPanel_live`: two clicks, two requests at once, one session, one restart.  A deletion of the wrong row needs a stale
  row and a row added since; a spinner that stays needs one request.  One session is enough since a session's end
  depends on no other session; its client has the key of a user who may be removed meanwhile.
- `Feeds_links`: one log subscription and one shred stream with two events and three links each: a lost link, a link during
  which an event is handled, and one more.  The second log subscription runs the same loop and shares nothing but the
  caller that it may end.
- `TokenPipeline_copies`: two look-alike tokens that differ in a blank, each served and analysed, one reported twice and
  traded; a third token of the same developer has a row from the start, so a row can be added between the two queries of a
  performance that already counts one.  Two of a developer's last tokens are asked for instead of three, so the limit is
  reached.  One restart, after which a job can meet rows of both look-alikes.  The two analysis jobs of the first token are
  interchangeable (`SYMMETRY`); the run has no liveness property.
- `TokenCache_exact`: two tokens over two texts, which differ in the blank that `clean` removes and the cache does not; a wrong
  mix of maps needs two tokens at most.
- `Padre_calls`: four calls and a queue of two, so that a call meets the late answer of an earlier one and a full queue.
- `Delivery_client`: a ring of two messages and more messages than that, two links, so a lag, a reconnection and both orders of
  status and token happen.
- `DesktopClient_logins`: two logins with the same or different keys, two tokens: an old and a new subscription overlap,
  and so do the dials of both.  `Word` is 256 there, three configurations (one buys nothing, one all that is on sale) and two
  curves, one of them complete; the proofs hold for any word.
- `TokenDecision_edits`: two tokens of one creator, with and without performance; two filters of the feed so that one edit can
  be dropped and the other applied; starts, logouts, exits and kills without bound.

`CHECK_DEADLOCK FALSE` is used where the environment of an instance has nothing left to do: bounded requests, jobs, calls or logins
are used up.

### Fairness

- Tasks that can step do (weak fairness per handler, job, call or subscription): tokio polls every woken task.  Requests and
  queries end, by a time-out or with their connection.
- A closed link ends the receiving task; a vanished client is noticed by the sending task alone, because the chain never stops
  producing tokens and TCP gives up retransmitting.  A protocol error is a fault and not fair.
- `Exit` is weakly fair: axum's graceful shutdown returns when it can.
- In DesktopClient, a dial is repeated every five seconds, so a key that stays free is registered (weak fairness of `Register`).
  Not every answer to a dial gets lost although any may: `Upgrade` is strongly fair.  The server ends sessions whose link is
  gone (`Release`), which is what `GoneClientReleases` shows.  Nobody owes it to remove a stuck entry: `Clear` is not fair,
  and `LastLoginIsLinked` says what that costs.
- Feeds: loops run, the heartbeat's timer fires every fifteen seconds, and TCP gives up a silent link on which something was
  written.  Nothing else notices a silent link.
- AdminPanel: a request is answered or fails.  Frames are drawn while the spinner turns, which asks for them; without it nobody
  promises a frame, so an event that arrives later may wait.
- Clients, users, administrators, crashes and systemd owe nothing.

## Proofs

Every invariant and action property of the passing runs is also a theorem, for all values of the constants: any number of
keys, sessions, tokens, jobs, calls, links, logins, faults and restarts, any capacity and any word width.

**From what.**  Assumptions are the named `ASSUME`s of the modelled components, which TLC evaluates in the runs: sets of the right
kind, `None` outside of them, a word of at least two values, and these that say something of the code:

- TokenPipeline: a token's event carries a name (the event's `name` is a `String`, not an `Option`); the rows of the first
  start are of tokens with a community, since no others are saved; those rows and the jobs of the analysis path are finitely
  many, which counting rows needs.
- Padre: there is a developer to ask about, and none is confused with the markers of an empty or dropped reply slot.
- TokenCache: `trim` of a trimmed text changes nothing.
- `OrdersAreAffordable` has a hypothesis of its own: a curve that is on sale has virtual tokens.  Pump.fun's curves start with
  them, and a purchase leaves at least one (`NothingWraps`).  On a curve without any, the subtraction in `BondingCurve::buy` would wrap.

**SessionRegistryProofs.**  `TypeCorrect`: the type invariant.  `RegistryInvariant`: `OneHolderPerKey` alone is not
inductive — after an administrator's removal and a re-added key two handlers do hold the key, and only their ids and the
history of evictions tell them apart.  The inductive invariant adds that ids stem from the counter and are unique, that a handler beyond
`fetch_add` has one, that only handlers that held a registration were evicted, and that the map has exactly the entries of the
holders that were not.  Most actions move one handler without touching the map, which `MovePreserves` deals with; registration,
cleanup, revocation and stop have a lemma each.  `OneHolder` follows: two holders of a key both have the id in the key's entry.
Four actions write the map (`MapSteps`), from which `NoTakeoverHolds` and `OnlyOwnCleanupHolds` follow; `OneServed` adds to
`OneHolder` that only a session that was opened has tasks.

`RegistryImplementsLease` is the refinement.  `Holder` is a CHOOSE; by `RegistryInv` there is exactly one handler to choose
(`NamesHolder`), and as long as a key's entry stays, it stays the same one (`HolderStays`).  So a step acquires the lease
(`Register`), releases it (`Cleanup`, `Revoke`), resets all (`Stop`) or stutters.

`OnlyClickedAreRemoved` is about the panel and the server together.  Its invariant, `PanelInv`, speaks of all rows that anybody knows — in
the table, on the screen, in answers on their way, behind clicked buttons: no two of them have the same id, every id is below the SERIAL,
and each id under way to the DELETE is that of a clicked row.  `PanelAsksRegistry` shows that whatever the panel makes the server
do is a step of SessionRegistry; hence `PanelKeepsRegistry`, the registry's invariant in the composition.

**TokenCacheProofs.**  `CacheAnswersLikeSearch`: `CacheInv`, that the six maps answer like a search, is inductive by itself.  An insertion adds to the answers exactly the queries that the new token matches, one lemma per
pair of attributes (`Parts`, `PairIsOne`).

**TokenPipelineProofs.**  `Typed` adds to the types what a job's program counter says about its token (it has a
community, which is already cached).  `Remembered` — the cache recognises every copy of a token inserted in it — gives
`CopiesAreDropped` and `SentAreAlwaysCached`; for `RowsAreAlwaysCached` a saved token is cached, or its job is about to (`SavedRemembered`).
`OldRowsAreAlwaysFound` needs no more than the types: a job gets past its checks only when no row matches, and what is saved later counts as
saved in this run until the process stops, which ends the job.
`CountersFitRows` is not inductive because a counter may exceed the rows: `Counted` bounds it by the jobs that are past their save, which
are finitely many.  `PerfAlwaysFits` needs what holds between the two queries (`Counting`): the count is of rows that are still there.
`AthIsMonotonic` rests on `add_token`'s GREATEST.

**PadreProofs.**  `TypeCorrect` includes that the queue never holds more than its capacity.  `AnswersAlwaysMatch` from `PadreInv`: every number in the queue or on the link is below the counter, and the one
that bears the number of the current call is that call's own request.  `CallsReturnOwn` follows: a call returns the history of
its developer or nothing.

**DeliveryProofs.**  `LossIsReported` is about a stream in three places: handled by the client, on the wire, in the sending
task's hand.  `LinkInv` says for each link that the stream is increasing, disjoint from what was reported as lagged, and that both
together are all tokens from the subscription to the cursor; and (`Front`) that the status comes first, which gives `StatusIsOfThisLink`.
The stream of a link is cut in different ways by each action; the lemmas about sequences say that its tokens stay the same.

**DesktopClientProofs.**  `NothingWraps`, `WithinReserves` and `AmountSuffices` are about `BondingCurve::buy`, for every word width, curve and
amount: the modular operations are exact, the product of the virtual reserves grows, no more is asked for than is on sale, and it costs
no more than the amount, whatever the rounding.  They rest on the quotient's two inequalities (`Division`) and on products
of two words fitting a double word (`Products`).  Of the client, each action of a subscription is first reduced to a move of its local state
(`Move`), so that the invariants need to look at moves only.  `ClientInv`: every subscription answers a login that was published
(`Versions`), only the last one is not aborted (`Slots`), a token in hand is one that the link does not yield again (`InHand`), and purchases are
possible after the server enabled them only (`Permitted`); `LoginIsSaved` and `BuyingNeedsPermission` are parts of it.  `OneBuyerAtATime`: the lock on the automata
is held from the decision to the end of the purchase.  `OneConfigPerOrder` and `OrdersAreAffordable`: `OrdersInv` says of what a
purchase consists after each request.  `TokensAreDecidedOnce`: `DecidedOnce` alone is not inductive, because an aborted subscription may
finish its poll.  `OnceInv` adds, for each subscription, the tokens it may still decide about (`Coming`): all that its link has not yielded,
or the one in hand once it is aborted.  These sets are disjoint, from each other and from what has been decided.

**TokenDecisionProofs.**  `FilesAgree` proves `FilesInvariant`: that the screen agrees with pool and automata while the program
runs is preserved over a logout or a restart only because the files agree with them while it does not, which is what the
invariant adds for each screen.  `ShownFilters` and `ShownBuyFilters` are its consequences.  `BansLast` needs that list, file and
history of bans are equal whenever the program is up, and `SwitchHolds` that a handler on its way to a whitelist purchase is marked as
such; both follow from `HandlerFacts`.

**FeedsProofs.**  `FeedsInvariant`: `OneHeartbeat` is inductive once it is known that a loop that is not connecting has a link, that
the counter has counted it, and that no heartbeat runs before the subscription (`Linked`).  `FeedsImplementsEventFeed`: every step is one of
EventFeed or leaves chain and reports alone, because what is on the wire is in order and later than the last report
(`Ordered`): a link is only sent what happens after it has subscribed, and the old one was read to its end.

**Only model-checked** is what must eventually happen, because it rests on fairness and on ENABLED, which TLAPS does not reason about:
`CallsEnd`, `TokensArrive`, `LastLoginIsLinked`, `LostLinksReplaced`, `PanelSettles`, `GoneClientReleases` and `RestartCompletes`.

## Known deviations without a run

What the models show or the reading brought up beyond the three runs:

- The comment that the websocket of a removed user "will die naturally" (`tokenir/src/main.rs`, `remove_user_handler`) is not
  true: an open session goes on until its client leaves.  "Check if key already has an active connection" (`ws_handler`) looks at
  the map only, so when the key is added again a second client is served beside the first (TLC reaches it; `OneServedUnlessRevoked`
  says when).
- Keys are taken to have 32 characters, like the generated ones.  The column is `CHAR(32)`: a shorter key comes back from
  `get_key_by_id` padded with blanks, and its entry is not removed with the user.
- A key validated before its row is deleted can be registered after the removal: no row, but a session.
- A failed write of `key.json` leaves it empty: the old key is lost, and nobody is logged in (`LoginInv` allows it).
- "Add to token cache after successful DB insert" also caches after a failed one: the result of `add_token` is discarded.
- The age of a token is computed from a clock reading made before the metadata are fetched, so "took more than 5 seconds to load" never
  counts the load.
- The sixth test of `check_duplicate` (name and description) has no counterpart in the query of `token_any_exists`.
- `initialize_tables` creates tables without the columns `autobuy` and `pool_address` that queries use.
- An empty key in `key.json` shows the main screen without a subscription.  A logout neither ends the subscription nor deletes `key.json`.
- "Autobuy is disabled for your account" does not reset the switches: a purchase that they ask for still happens.  The switch
  "enabled migrated" is read nowhere.
- A wallet ban is stored and never asked for; tokens without performance (`handle_migrated`) skip bans and filters.
- `FilterSet::matches` is only ever called for tokens with performance, for which the ranges of token count and migration have no
  effect.
- A logout followed by a kill leaves purchase filters in `buy_view_filters.json` that `config.json` does not have: the next run shows
  the one and buys with the other (`torn` in TokenDecision).
- A shred stream on a link that has fallen silent waits for ever: it has no heartbeat and no keep-alive.  Events between two
  links of a feed are never fetched.  A subscription to the shred stream
  that fails is retried without a pause, one to the logs after a second.
- `usd_mcap` divides by the reserves of a trade: a zero panics in the callback and ends that log subscription for good, silently,
  while the other one goes on.
- A purchase for amount 0 sends an empty order with a tip.  The slippage field is labelled 0-100 % and takes more; it also has to
  cover the fee that the program on the chain adds.  Slippage is multiplied in f32, which BondingCurve does in integers.
- In the panel, two list requests answered out of order leave the older list; `UserAdded` clears a key typed since the click; a list that
  breaks off after its header sends no event, and the spinner stays; `&key[..4]` panics on a key whose fourth byte is inside a
  character; the API address may be changed between the list and a deletion by id.
- Every login leaves behind a Padre connection task, which holds a sender of its own queue and never ends.

## Not modelled

The SOL price poller overwrites an atomic every ten seconds and any value is legal.  Metadata, community and price requests are
nondeterministic outcomes where they are used.  Event decoding, account lists and byte layouts are data without control.
`pool.rs`, `filters.rs`, `bundler.rs` and `access.rs` of the server are not reachable from `main`.  Writes of the client's files are taken to
succeed in one step, except that of `key.json` in DesktopClient: a blacklist that a kill leaves half written is not examined.  Two clients of one key share nothing in DesktopClient but the server's session.

## Plan

Order: what the server promises to its clients came first (SessionRegistry and its proofs), then what it sends (TokenDedup,
TokenPipeline), how that travels (Delivery), and what the client does with it (Padre, DesktopClient, TokenDecision); then where
the events come from (Feeds), purchases (BondingCurve) and the administrator (AdminPanel).  Left, most important first:

1. A composition of TokenPipeline, Delivery and TokenDecision from report to purchase, for which abstract specifications
   should replace the details first: the product of the detailed ones is beyond TLC.
2. Safety lemmas behind the liveness properties: which step is enabled while a call, a link or a shutdown has not ended.
3. Abstract specifications of Padre (a call returns its own history or nothing) and of Delivery (a lossy, ordered stream) with
   the refinement proved from `PadreInv` and `DeliveryInv`.
