---------------------------- MODULE DesktopClient ----------------------------
(***************************************************************************)
(* The desktop client from the login to a purchase (tokenir_ui/src).  Three *)
(* actors share state:                                                     *)
(*   - the GUI thread (ui.rs, Launcher and MyApp): login, logout, the      *)
(*     switches and parameters of the automatic purchases;                 *)
(*   - the supervisor (main.rs, main): a task that waits on a watch        *)
(*     channel for access keys, aborts the current subscription and spawns *)
(*     a new one;                                                          *)
(*   - the subscriptions (main.rs, run_subscription; fetcher.rs), of which *)
(*     an aborted one may still be in the middle of a poll.                *)
(* The server admits one link per key (SessionRegistry) and notices late   *)
(* that a link is gone.  How a link delivers is the subject of Delivery,   *)
(* how the history of a developer is fetched that of Padre.                *)
(***************************************************************************)
EXTENDS BondingCurve, FiniteSets

CONSTANTS
    Keys,        \* access keys
    MaxLogins,   \* bound: keys sent on the watch channel
    MaxSent,     \* bound: tokens broadcast by the server
    ParamSet,    \* parameters of the purchases that the user may enter
    Curves,      \* bonding curves that a purchase may find
    None

\* autobuy.rs, Params, without the filters; slippage in per cent.
Params == [lamport_amount : U64, priority_fee : U64, slippage : U64, bribe : U64]

ASSUME ClientAssumption ==
    /\ None \notin Keys
    /\ MaxLogins \in Nat \ {0}
    /\ MaxSent \in Nat
    /\ ParamSet \subseteq Params /\ ParamSet # {}
    /\ Curves \subseteq Curve

VARIABLES
    file,       \* key.json: a key, or None when missing or unreadable
    loggedIn,   \* is_logged_in; the screen is Running when it is TRUE
    logins,     \* keys sent on the channel, over all runs of the program
    chan,       \* the watch channel: its value and its version
    sup,        \* the supervisor: [pc, seen], the version it has seen
    started,    \* subscriptions spawned so far; the last one is `current'
    sub,        \* per subscription: its locals, see Local
    session,    \* the server: per key, the subscription whose session holds it, or 0
    stuck,      \* the server: keys whose entry belongs to no session
    sent,       \* tokens broadcast so far: 1 .. sent
    enabled,    \* automata.enabled
    active,     \* automata.active_whitelist or active_twitter
    params,     \* automata.config.params
    onceEnabled,\* history: enabled was TRUE in this run of the program
    decided,    \* history: pairs <<subscription, token>> decided about
    bought      \* history: something was bought in this run of the program

guiVars == <<file, loggedIn, logins, chan>>
supVars == <<sup, started>>
serverVars == <<session, stuck, sent>>
automataVars == <<enabled, active, params, onceEnabled>>
historyVars == <<decided, bought>>
vars == <<guiVars, supVars, sub, serverVars, automataVars, historyVars>>

Subs == 1 .. MaxLogins

\* In use: the server's link to the subscription.
Buying == {"quoting", "signing", "sending"}
Connected == {"linked", "gate", "history", "deciding"} \cup Buying
SubPhase == {"dialing", "admitted", "panicked", "orphaned", "gone"} \cup Connected

(***************************************************************************)
(* A subscription: where it is; whether its JoinHandle was aborted; the    *)
(* key in its url; autobuy as the server told it on this link; the first   *)
(* token its link has not yielded; the token it handles; its purchase.     *)
(* While it dials, its request is first on its way to the server           *)
(* ("dialing"), then in the server's map with the answer on its way back   *)
(* ("admitted").  "orphaned": the task is gone, the request is not.        *)
(***************************************************************************)
Order == [unit_price : U64, token_amount : U64, max_cost : U64, tip : U64]
NoOrder == [unit_price |-> 0, token_amount |-> 0, max_cost |-> 0, tip |-> 0]
Local == [phase : SubPhase, aborted : BOOLEAN, key : Keys \cup {None},
          autobuy : BOOLEAN, next : Nat, token : Nat, order : Order]
Gone == [phase |-> "gone", aborted |-> FALSE, key |-> None,
         autobuy |-> FALSE, next |-> 0, token |-> 0, order |-> NoOrder]
Dialing(k) == [Gone EXCEPT !.phase = "dialing", !.key = k]
Panicked(k) == [Gone EXCEPT !.phase = "panicked", !.key = k]
Orphaned(k) == [Gone EXCEPT !.phase = "orphaned", !.key = k]

\* Where a task stops at an await that is pending when first polled.
Suspended == {"dialing", "admitted", "history"} \cup Buying

\* Subscription i when its task is dropped.
After(i) ==
    IF sub[i].phase \in {"dialing", "orphaned"} THEN Orphaned(sub[i].key) ELSE Gone

\* The key of subscription i while the server's answer is on its way.
Unanswered(i) == {k \in Keys : session[k] = i /\ sub[i].phase = "admitted" /\ sub[i].key = k}

\* Some answers of those to S do not arrive.  Either the upgrade has succeeded for
\* the server, whose session finds out that nobody is there; or it fails, and the
\* entry has no session that would remove it.
LeaveEntries(S) ==
    \E failed \in SUBSET UNION {Unanswered(i) : i \in S} :
        /\ session' = [k \in Keys |-> IF k \in failed THEN 0 ELSE session[k]]
        /\ stuck' = stuck \cup failed

\* Mutated form of AutomataHeld: a purchase works on a copy of the automata.
AutomataCopied == FALSE

\* The automata's lock is kept while buying.
AutomataHeld == \E i \in Subs : sub[i].phase \in Buying

\* Subscription i goes on as r.  An aborted one is dropped where its poll ends.
GoesOn(i, r) ==
    sub' = [sub EXCEPT ![i] = IF r.aborted /\ r.phase \in Suspended THEN Gone ELSE r]

\* It has done with its token and reads on.
ReadsOn(i) == GoesOn(i, [sub[i] EXCEPT !.phase = "linked", !.token = 0, !.order = NoOrder])

-----------------------------------------------------------------------------
(* The GUI thread. *)

\* startup_tx.send.
Publish(k) ==
    /\ logins < MaxLogins
    /\ logins' = logins + 1
    /\ chan' = [key |-> k, ver |-> chan.ver + 1]

\* Mutated form of Login: the key is published whether it was written or not.
LoginUnsaved(k) ==
    /\ ~loggedIn
    /\ file' \in {k, None}
    /\ Publish(k)
    /\ loggedIn' = TRUE
    /\ UNCHANGED <<supVars, sub, serverVars, automataVars, historyVars>>

\* "Save & Enter": key.json is truncated, written, and only then published.
Login(k) ==
    /\ ~loggedIn
    /\ \/ /\ file' = k
          /\ Publish(k)
          /\ loggedIn' = TRUE
       \/ /\ file' = None
          /\ UNCHANGED <<loggedIn, logins, chan>>
    /\ UNCHANGED <<supVars, sub, serverVars, automataVars, historyVars>>

\* The subscription is not told.
Logout ==
    /\ loggedIn
    /\ loggedIn' = FALSE
    /\ UNCHANGED <<file, logins, chan, supVars, sub, serverVars, automataVars,
                   historyVars>>

\* A checkbox in the section that is shown while the automata's lock is free
\* and automata.enabled.
Toggle ==
    /\ loggedIn /\ enabled
    /\ ~AutomataHeld
    /\ active' = ~active
    /\ UNCHANGED <<guiVars, supVars, sub, serverVars, enabled, params, onceEnabled,
                   historyVars>>

\* Mutated form of EditParams: they have a lock of their own.
EditParamsUnlocked(p) ==
    /\ loggedIn /\ enabled
    /\ params' = p
    /\ UNCHANGED <<guiVars, supVars, sub, serverVars, enabled, active, onceEnabled,
                   historyVars>>

\* The input fields of the same section.
EditParams(p) ==
    /\ loggedIn /\ enabled
    /\ ~AutomataHeld
    /\ params' = p
    /\ UNCHANGED <<guiVars, supVars, sub, serverVars, enabled, active, onceEnabled,
                   historyVars>>

-----------------------------------------------------------------------------
(* The supervisor. *)

\* rx.changed() returns and marks the version as seen.
Changed ==
    /\ sup.pc = "waiting"
    /\ sup.seen # chan.ver
    /\ sup' = [pc |-> "reading", seen |-> chan.ver]
    /\ UNCHANGED <<guiVars, started, sub, serverVars, automataVars, historyVars>>

\* Mutated forms of Spawn: the old task is not aborted; the version is
\* marked as seen after the value was read.
SpawnBeside ==
    /\ sup.pc = "reading"
    /\ sup' = [sup EXCEPT !.pc = "waiting"]
    /\ started' = started + 1
    /\ sub' = [sub EXCEPT ![started + 1] = Dialing(chan.key)]
    /\ UNCHANGED <<guiVars, serverVars, automataVars, historyVars>>
SpawnSeenLater ==
    /\ sup.pc = "reading"
    /\ sup' = [pc |-> "waiting", seen |-> chan.ver]
    /\ started' = started + 1
    /\ \E k \in Keys :
          /\ sup.seen = chan.ver => k = chan.key
          /\ sub' = [i \in Subs |->
                       IF i = started + 1 THEN Dialing(k)
                       ELSE IF i = started /\ sub[i].phase \notin {"orphaned", "gone"}
                       THEN [sub[i] EXCEPT !.aborted = TRUE]
                       ELSE sub[i]]
    /\ UNCHANGED <<guiVars, serverVars, automataVars, historyVars>>

\* rx.borrow(), which may be newer than what changed() saw; then abort and
\* spawn.  The first await of a subscription is the one of connect_async.
Spawn ==
    /\ sup.pc = "reading"
    /\ sup' = [sup EXCEPT !.pc = "waiting"]
    /\ started' = started + 1
    /\ sub' = [i \in Subs |->
                 IF i = started + 1 THEN Dialing(chan.key)
                 ELSE IF i = started /\ sub[i].phase \notin {"orphaned", "gone"}
                 THEN [sub[i] EXCEPT !.aborted = TRUE]
                 ELSE sub[i]]
    /\ UNCHANGED <<guiVars, serverVars, automataVars, historyVars>>

-----------------------------------------------------------------------------
(* A subscription. *)

\* The request of connect_async is handled: the key has no entry and gets one.
\* Otherwise the task is told, sleeps and tries again.
Register(i) ==
    /\ sub[i].phase = "dialing"
    /\ session[sub[i].key] = 0 /\ sub[i].key \notin stuck
    /\ session' = [session EXCEPT ![sub[i].key] = i]
    /\ sub' = [sub EXCEPT ![i].phase = "admitted", ![i].next = sent + 1]
    /\ UNCHANGED <<guiVars, supVars, stuck, sent, automataVars, historyVars>>

\* The answer arrives, and then the status of the account.
Upgrade(i) ==
    /\ sub[i].phase = "admitted" /\ ~sub[i].aborted
    /\ \E b \in BOOLEAN : GoesOn(i, [sub[i] EXCEPT !.phase = "linked", !.autobuy = b])
    /\ UNCHANGED <<guiVars, supVars, serverVars, automataVars, historyVars>>

\* connect_async fails although the request was handled.
Abandon(i) ==
    /\ sub[i].phase = "admitted" /\ ~sub[i].aborted
    /\ GoesOn(i, Dialing(sub[i].key))
    /\ LeaveEntries({i})
    /\ UNCHANGED <<guiVars, supVars, sent, automataVars, historyVars>>

\* The read loop yields a token; those before it were lost to a lag, or sent
\* between Register and the server's subscribe.
Read(i) ==
    /\ sub[i].phase = "linked"
    /\ \E n \in sub[i].next .. sent :
          GoesOn(i, [sub[i] EXCEPT !.phase = "gate", !.token = n, !.next = n + 1])
    /\ UNCHANGED <<guiVars, supVars, serverVars, automataVars, historyVars>>

\* The read loop ends: the link is gone.
LinkEnds(i) ==
    /\ sub[i].phase = "linked"
    /\ GoesOn(i, [Dialing(sub[i].key) EXCEPT !.aborted = sub[i].aborted])
    /\ UNCHANGED <<guiVars, supVars, serverVars, automataVars, historyVars>>

\* automata.enabled = autobuy; then nothing more unless somebody is logged in.
Gate(i) ==
    /\ sub[i].phase = "gate" /\ ~AutomataHeld
    /\ enabled' = sub[i].autobuy
    /\ onceEnabled' = (onceEnabled \/ sub[i].autobuy)
    /\ IF loggedIn THEN GoesOn(i, [sub[i] EXCEPT !.phase = "history"]) ELSE ReadsOn(i)
    /\ UNCHANGED <<guiVars, supVars, serverVars, active, params, historyVars>>

\* get_dev_history returns, with an answer or without.
History(i) ==
    /\ sub[i].phase = "history" /\ ~sub[i].aborted
    /\ GoesOn(i, [sub[i] EXCEPT !.phase = "deciding"])
    /\ UNCHANGED <<guiVars, supVars, serverVars, automataVars, historyVars>>

\* The whitelist, then handle_perf or handle_migrated: the token goes to the
\* pool, or fails the filters, or is to be bought as well if the switch is on.
\* Lists and filters are arbitrary.  BuyAutomata::buy prepares its instructions
\* and asks for the bonding curve.
Decide(i) ==
    /\ sub[i].phase = "deciding" /\ ~AutomataHeld
    /\ decided' = decided \cup {<<i, sub[i].token>>}
    /\ \/ ReadsOn(i)
       \/ active /\ GoesOn(i, [sub[i] EXCEPT !.phase = "quoting",
                        !.order.unit_price = micro_price(params.priority_fee)])
    /\ UNCHANGED <<guiVars, supVars, serverVars, automataVars, bought>>

\* The curve is not found; it is complete, and unwrap() ends the task; or it
\* says how many tokens the amount is worth, and the blockhash is asked for.
Quote(i) ==
    /\ sub[i].phase = "quoting" /\ ~sub[i].aborted
    /\ \/ ReadsOn(i)
       \/ \E c \in Curves :
             \/ c.complete /\ GoesOn(i, Panicked(sub[i].key))
             \/ /\ ~c.complete
                /\ GoesOn(i, [sub[i] EXCEPT !.phase = "signing",
                     !.order.token_amount = buy(c, params.lamport_amount),
                     !.order.max_cost = max_sol_cost(params.lamport_amount, params.slippage),
                     !.order.tip = params.bribe])
    /\ UNCHANGED <<guiVars, supVars, serverVars, automataVars, historyVars>>

\* Without a blockhash there is no transaction; with one it is signed and, from
\* now on, may be on its way.
Sign(i) ==
    /\ sub[i].phase = "signing" /\ ~sub[i].aborted
    /\ \/ ReadsOn(i) /\ bought' = bought
       \/ GoesOn(i, [sub[i] EXCEPT !.phase = "sending"]) /\ bought' = TRUE
    /\ UNCHANGED <<guiVars, supVars, serverVars, automataVars, decided>>

\* The sender answers, or the request fails: all the same.
Send(i) ==
    /\ sub[i].phase = "sending" /\ ~sub[i].aborted
    /\ ReadsOn(i)
    /\ UNCHANGED <<guiVars, supVars, serverVars, automataVars, historyVars>>

\* The runtime drops an aborted task, at the latest when its poll ends.
Drop(i) ==
    /\ sub[i].aborted
    /\ sub' = [sub EXCEPT ![i] = After(i)]
    /\ LeaveEntries({i})
    /\ UNCHANGED <<guiVars, supVars, sent, automataVars, historyVars>>

\* The request of a task that is gone is lost or refused, or registers its key.
LateRequest(i) ==
    /\ sub[i].phase = "orphaned"
    /\ sub' = [sub EXCEPT ![i] = Gone]
    /\ \/ UNCHANGED <<session, stuck>>
       \/ \E k \in Keys \ stuck :
             /\ k = sub[i].key /\ session[k] = 0
             /\ \/ session' = [session EXCEPT ![k] = i] /\ stuck' = stuck
                \/ session' = session /\ stuck' = stuck \cup {k}
    /\ UNCHANGED <<guiVars, supVars, sent, automataVars, historyVars>>

-----------------------------------------------------------------------------
(* The server, and the program as a whole. *)

Broadcast ==
    /\ sent < MaxSent
    /\ sent' = sent + 1
    /\ UNCHANGED <<guiVars, supVars, sub, session, stuck, automataVars, historyVars>>

\* A session whose link is gone gives its key back.
Release(k) ==
    /\ session[k] # 0
    /\ LET i == session[k] IN
          sub[i].phase \notin Connected \cup {"admitted"} \/ sub[i].key # k
    /\ session' = [session EXCEPT ![k] = 0]
    /\ UNCHANGED <<guiVars, supVars, sub, stuck, sent, automataVars, historyVars>>

\* The server is restarted, or an administrator removes the user.
Clear(k) ==
    /\ k \in stuck
    /\ stuck' = stuck \ {k}
    /\ UNCHANGED <<guiVars, supVars, sub, session, sent, automataVars, historyVars>>

\* Launcher::new reads key.json, and logs in if it names a key.
Launch(f) ==
    /\ loggedIn' = (f # None)
    /\ chan' = [key |-> f, ver |-> IF f = None THEN 0 ELSE 1]
    /\ logins' = logins + IF f = None THEN 0 ELSE 1

\* Mutated form of Relaunch: the switch is kept.
RelaunchActive ==
    /\ logins < MaxLogins
    /\ Launch(file)
    /\ sup' = [pc |-> "waiting", seen |-> 0]
    /\ sub' = [i \in Subs |-> After(i)]
    /\ LeaveEntries(Subs)
    /\ enabled' = FALSE
    /\ params' \in ParamSet
    /\ onceEnabled' = FALSE
    /\ bought' = FALSE
    /\ UNCHANGED <<file, started, sent, active, decided>>

\* The program ends and is started again; config.json has the parameters of its
\* last regular end, or was edited since.
Relaunch ==
    /\ logins < MaxLogins
    /\ Launch(file)
    /\ sup' = [pc |-> "waiting", seen |-> 0]
    /\ sub' = [i \in Subs |-> After(i)]
    /\ LeaveEntries(Subs)
    /\ enabled' = FALSE
    /\ params' \in ParamSet
    /\ active' = FALSE
    /\ onceEnabled' = FALSE
    /\ bought' = FALSE
    /\ UNCHANGED <<file, started, sent, decided>>

-----------------------------------------------------------------------------
Init ==
    /\ file \in Keys \cup {None}
    /\ loggedIn = (file # None)
    /\ logins = IF file = None THEN 0 ELSE 1
    /\ chan = [key |-> file, ver |-> IF file = None THEN 0 ELSE 1]
    /\ sup = [pc |-> "waiting", seen |-> 0]
    /\ started = 0
    /\ sub = [i \in Subs |-> Gone]
    /\ session = [k \in Keys |-> 0]
    /\ stuck = {}
    /\ sent = 0
    /\ enabled = FALSE
    /\ active = FALSE
    /\ params \in ParamSet
    /\ onceEnabled = FALSE
    /\ decided = {}
    /\ bought = FALSE

Gui ==
    \/ (\E k \in Keys : Login(k)) \/ Logout \/ Toggle
    \/ \E p \in ParamSet : EditParams(p)

Supervisor == Changed \/ Spawn

Handle(i) == Gate(i) \/ History(i) \/ Decide(i) \/ Quote(i) \/ Sign(i) \/ Send(i)

Subscription(i) ==
    \/ Register(i) \/ Upgrade(i) \/ Abandon(i) \/ Read(i) \/ LinkEnds(i)
    \/ Handle(i) \/ Drop(i) \/ LateRequest(i)

Next ==
    \/ Gui \/ Supervisor
    \/ \E i \in Subs : Subscription(i)
    \/ Broadcast \/ \E k \in Keys : Release(k) \/ Clear(k)
    \/ Relaunch

Spec == Init /\ [][Next]_vars

(***************************************************************************)
(* Fairness.  tokio runs the supervisor and the tasks, and drops aborted   *)
(* ones.  The server handles requests, and notices links that are gone     *)
(* (GoneClientReleases in SessionRegistry); nobody owes it to remove an    *)
(* entry that is stuck.  Not every answer to a dial gets lost, although    *)
(* any may, and links may end again and again.  Users owe nothing.         *)
(***************************************************************************)
Fairness ==
    /\ WF_vars(Supervisor)
    /\ \A k \in Keys : WF_vars(Release(k))
    /\ \A i \in Subs :
          WF_vars(Register(i)) /\ SF_vars(Upgrade(i)) /\ WF_vars(Drop(i))

FairSpec == Spec /\ Fairness

-----------------------------------------------------------------------------
(* Properties. *)

TypeOK ==
    /\ file \in Keys \cup {None}
    /\ loggedIn \in BOOLEAN
    /\ logins \in 0 .. MaxLogins
    /\ chan \in [key : Keys \cup {None}, ver : 0 .. MaxLogins]
    /\ sup \in [pc : {"waiting", "reading"}, seen : 0 .. MaxLogins]
    /\ started \in 0 .. MaxLogins
    /\ sub \in [Subs -> Local]
    /\ session \in [Keys -> 0 .. MaxLogins] /\ stuck \subseteq Keys
    /\ sent \in 0 .. MaxSent
    /\ enabled \in BOOLEAN /\ active \in BOOLEAN /\ onceEnabled \in BOOLEAN
    /\ params \in ParamSet
    /\ decided \subseteq Subs \X (1 .. MaxSent)
    /\ bought \in BOOLEAN

\* A token is decided about, hence shown or bought, by one subscription at most,
\* however the user logs out and in again: the old one is aborted before the
\* new one connects, so what the old one may still finish is older than the new
\* link (main's supervisor, run_subscription).
DecidedOnce ==
    \A p, q \in decided : p[2] = q[2] => p = q

\* While somebody is logged in, a restart would log in the same key: the key was
\* written before it was published (Launcher).
LoggedInKeyIsSaved == loggedIn => file = chan.key

\* The client is well formed, and its key is on disk.
LoginInv == TypeOK /\ LoggedInKeyIsSaved

\* Nothing is bought in a run of the program before the server has enabled
\* automatic purchases for the account: until then the switches, which are off
\* at the start, cannot be reached (MyApp::update, BuyAutomata::with_config).
BuysWereEnabled == bought => onceEnabled

\* All parts of a purchase come from the configuration on the screen when it is
\* sent, although they are read before and after the request for the curve: the
\* user cannot change the amount or the fee in between (the lock that
\* handle_perf and the whitelist keep, MyApp::update's try_lock).
OrderOfOneConfig ==
    \A i \in Subs :
      /\ sub[i].phase \in Buying =>
            sub[i].order.unit_price = micro_price(params.priority_fee)
      /\ sub[i].phase \in {"signing", "sending"} =>
            /\ sub[i].order.max_cost =
                 max_sol_cost(params.lamport_amount, params.slippage)
            /\ sub[i].order.tip = params.bribe

\* What is ordered is on sale, and on a curve that has not moved since it was
\* read it costs no more than the amount entered: rounding never makes a
\* purchase fail by itself (BondingCurve::buy).  DesktopClientProofs has this for
\* every curve and amount.
QuoteAffordable ==
    \A i \in Subs :
      sub[i].phase \in {"signing", "sending"} /\ sub[i].order.token_amount > 0 =>
        \E c \in Curves :
           /\ sub[i].order.token_amount <= c.real_token
           /\ Cost(c, sub[i].order.token_amount) <= params.lamport_amount

\* Two purchases never run beside each other, even when an aborted subscription
\* is still in the middle of one while the next subscription decides.
OneBuyer ==
    \A i, j \in Subs :
        sub[i].phase \in Buying /\ sub[j].phase \in Buying => i = j

\* The key logged in last gets its link, and gets it again whenever it is lost,
\* although keys published in quick succession are skipped, a dial fails after the
\* server has admitted it, the request of an aborted one is admitted late, and the
\* old subscription may keep the server's session of the same key for a while:
\* unless the subscription has panicked (BuyAutomata::buy), or the server holds an
\* entry of the key that no session owns and answers 409 to every dial for as long
\* as it runs (ws_handler; ConflictNamesAConnection in SessionRegistry).
LastLoginIsLinked ==
    \A k \in Keys :
        <>[](chan.key = k) =>
            []<>(\/ k \in stuck
                 \/ /\ started > 0
                    /\ sub[started].key = k /\ ~sub[started].aborted
                    /\ sub[started].phase \in Connected \cup {"panicked"})
=============================================================================
