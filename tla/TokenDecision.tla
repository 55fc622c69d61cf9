---------------------------- MODULE TokenDecision ----------------------------
(***************************************************************************)
(* What the desktop client does with a token that a subscription hands it, *)
(* and how the user steers that (tokenir_ui/src/main.rs, ui.rs, pool.rs,   *)
(* blacklist.rs, whitelist.rs, autobuy.rs).  The handler of a token walks  *)
(* through whitelist, filters, blacklist and switches, taking one lock     *)
(* after another.  The GUI thread edits the same state meanwhile: it keeps *)
(* a copy of both filter sets for its input fields, takes locks by         *)
(* try_lock, and drops what it cannot apply.  Filters, bans and the        *)
(* configuration of the purchases live in four files, each with its own    *)
(* time of being saved.                                                    *)
(* Logins, subscriptions and the account's permission are the subject of   *)
(* DesktopClient.                                                          *)
(***************************************************************************)
EXTENDS TokenFilters

CONSTANTS
    Creators,   \* creators of communities
    Tokens,
    Attr,       \* Tokens -> what the decision depends on
    ViewEdits,  \* pairs <<tag, range>> that the user enters for the feed
    BuyEdits    \* ... and for the automatic purchases

ASSUME DecisionAssumption ==
    /\ None \notin Creators /\ None \notin Nat
    /\ None \notin Range /\ None \notin History
    /\ Attr \in [Tokens -> Token(Creators)]
    /\ ViewEdits \subseteq Tag \X Range
    /\ BuyEdits \subseteq Tag \X Range

VARIABLES
    screen,      \* "off", "login", "running" or "closing"
    shown,       \* MyApp.filters
    shownBuy,    \* MyApp.filters_buy
    viewFile,    \* view_filters.json
    buyFile,     \* buy_view_filters.json
    configFile,  \* config.json, its filters
    poolFilters, \* pool.filters
    feed,        \* pool.feed
    config,      \* automata.config.params.filters
    enabled,     \* automata.enabled
    activeTwitter,
    activeWhitelist,
    banned,      \* blacklist.list, the creators in it
    banFile,     \* blacklist.json
    handler,     \* the handler of a token, see Handler
    adds,        \* tokens that spawned tasks are about to put into the pool
    handled,     \* history: tokens handed to the handler
    bought,      \* history: tokens bought
    bans,        \* history: creators banned so far, in every run of the program
    dropped,     \* history: the last edit for the feed was not applied
    torn         \* history: killed since the last edit for the purchases

screenVars == <<screen, shown, shownBuy>>
fileVars == <<viewFile, buyFile, configFile>>
poolVars == <<poolFilters, feed>>
automataVars == <<config, enabled, activeTwitter, activeWhitelist>>
handlerVars == <<handler, adds, handled, bought>>
flags == <<dropped, torn>>
banVars == <<banned, banFile, bans>>
vars == <<screenVars, fileVars, poolVars, automataVars, banVars, handlerVars, flags>>

HandlerPhase == {"idle", "whitelist", "whitelisted", "migrated", "filters",
                 "blacklist", "purchase", "switch", "buying"}

\* The handler: where it is; its token; whether the whitelist brought it here;
\* history: who had been banned when the token came.
Handler == [pc : HandlerPhase, token : Tokens \cup {None}, white : BOOLEAN,
            bans : SUBSET Creators]
Idle == [pc |-> "idle", token |-> None, white |-> FALSE, bans |-> {}]

LoggedIn == screen \in {"running", "closing"}

\* Somebody may be holding the lock when the GUI calls try_lock.
PoolBusy == handler.pc \in {"filters", "migrated"} \/ adds # {}
AutomataHeld == handler.pc = "buying"

-----------------------------------------------------------------------------
(* The program starts and ends. *)

\* MyApp::new: the input fields show what the files say.
Show ==
    /\ screen' = "running"
    /\ shown' = viewFile
    /\ shownBuy' = buyFile

\* MyApp is dropped, which saves what the input fields show.
Hide ==
    /\ shown' = NoFilters
    /\ shownBuy' = NoFilters
    /\ IF screen = "running"
       THEN viewFile' = shown /\ buyFile' = shownBuy
       ELSE UNCHANGED <<viewFile, buyFile>>

\* The tasks are gone with the process.
Stop ==
    /\ screen' = "off"
    /\ handler' = Idle
    /\ adds' = {}
    /\ feed' = {}
    /\ poolFilters' = NoFilters
    /\ config' = NoFilters
    /\ enabled' = FALSE
    /\ activeTwitter' = FALSE
    /\ activeWhitelist' = FALSE
    /\ banned' = {}

\* main loads every file; Launcher::new may find a key and show MyApp at once.
Start ==
    /\ screen = "off"
    /\ \/ Show
       \/ screen' = "login" /\ UNCHANGED <<shown, shownBuy>>
    /\ poolFilters' = viewFile
    /\ config' = configFile
    /\ banned' = banFile
    /\ dropped' = FALSE
    /\ UNCHANGED <<fileVars, feed, enabled, activeTwitter, activeWhitelist,
                   banFile, bans, handlerVars, torn>>

Login ==
    /\ screen = "login"
    /\ Show
    /\ UNCHANGED <<fileVars, poolVars, automataVars, banVars, handlerVars, flags>>

\* Mutated form of Logout: MyApp has no Drop.
LogoutUnsaved ==
    /\ screen = "running"
    /\ screen' = "login"
    /\ shown' = NoFilters
    /\ shownBuy' = NoFilters
    /\ UNCHANGED <<fileVars, poolVars, automataVars, banVars, handlerVars, flags>>

Logout ==
    /\ screen = "running"
    /\ screen' = "login"
    /\ Hide
    /\ UNCHANGED <<configFile, poolVars, automataVars, banVars, handlerVars, flags>>

\* The window is closed: run_native returns.
Close ==
    /\ screen \in {"login", "running"}
    /\ screen' = "closing"
    /\ Hide
    /\ UNCHANGED <<configFile, poolVars, automataVars, banVars, handlerVars, flags>>

\* automata.lock().await.config.to_file(), and main returns.
Exit ==
    /\ screen = "closing" /\ ~AutomataHeld
    /\ configFile' = config
    /\ Stop
    /\ UNCHANGED <<shown, shownBuy, viewFile, buyFile, banFile, bans, handled,
                   bought, flags>>

Kill ==
    /\ screen # "off"
    /\ Stop
    /\ shown' = NoFilters
    /\ shownBuy' = NoFilters
    /\ torn' = TRUE
    /\ UNCHANGED <<fileVars, banFile, bans, handled, bought, dropped>>

-----------------------------------------------------------------------------
(* The GUI thread, while MyApp is on the screen. *)

\* Mutated form of EditView: the pool is given the edited filter alone.
EditViewAlone(tag, range) ==
    /\ screen = "running"
    /\ shown' = add_filter(shown, tag, range)
    /\ \/ poolFilters' = add_filter(poolFilters, tag, range) /\ dropped' = FALSE
       \/ PoolBusy /\ dropped' = TRUE /\ UNCHANGED poolFilters
    /\ UNCHANGED <<screen, shownBuy, fileVars, feed, automataVars, banVars,
                   handlerVars, torn>>

\* An input field of the feed's filters: the whole set is copied to the pool,
\* unless its lock is taken.
EditView(tag, range) ==
    /\ screen = "running"
    /\ shown' = add_filter(shown, tag, range)
    /\ \/ poolFilters' = shown' /\ dropped' = FALSE
       \/ PoolBusy /\ dropped' = TRUE /\ UNCHANGED poolFilters
    /\ UNCHANGED <<screen, shownBuy, fileVars, feed, automataVars, banVars,
                   handlerVars, torn>>

\* The section of the purchases, shown while its lock is free and held by the
\* GUI as long as it is drawn.
BuySection == screen = "running" /\ enabled /\ ~AutomataHeld

EditBuy(tag, range) ==
    /\ BuySection
    /\ shownBuy' = add_filter(shownBuy, tag, range)
    /\ config' = shownBuy'
    /\ torn' = FALSE
    /\ UNCHANGED <<screen, shown, fileVars, poolVars, enabled, activeTwitter,
                   activeWhitelist, banVars, handlerVars, dropped>>

\* A checkbox.  The third one, active_migrate, is read nowhere.
Toggle ==
    /\ BuySection
    /\ \/ activeTwitter' = ~activeTwitter /\ UNCHANGED activeWhitelist
       \/ activeWhitelist' = ~activeWhitelist /\ UNCHANGED activeTwitter
    /\ UNCHANGED <<screenVars, fileVars, poolVars, config, enabled, banVars,
                   handlerVars, flags>>

\* Mutated form of Ban: the list is not written.
BanUnsaved(t) ==
    /\ screen = "running"
    /\ t \in feed /\ Attr[t].creator # None
    /\ banned' = banned \cup {Attr[t].creator}
    /\ bans' = bans \cup {Attr[t].creator}
    /\ UNCHANGED <<screenVars, fileVars, poolVars, automataVars, banFile,
                   handlerVars, flags>>

\* "Ban developer" on a token of the feed; Blacklist::add writes the file.  The
\* wallet is banned as well, but no code asks for it.
Ban(t) ==
    /\ screen = "running"
    /\ t \in feed /\ Attr[t].creator # None
    /\ banned' = banned \cup {Attr[t].creator}
    /\ banFile' = banned'
    /\ bans' = bans \cup {Attr[t].creator}
    /\ UNCHANGED <<screenVars, fileVars, poolVars, automataVars, handlerVars, flags>>

\* "Clear".
Clear ==
    /\ screen = "running"
    /\ feed' = {}
    /\ UNCHANGED <<screenVars, fileVars, poolFilters, automataVars, banVars,
                   handlerVars, flags>>

-----------------------------------------------------------------------------
(* The handler of a token. *)

HandlerStep == UNCHANGED <<screenVars, fileVars, banVars, handled, flags>>
GoTo(p) == handler' = [handler EXCEPT !.pc = p]
Finish == handler' = Idle

\* The subscription yields a token, and with it autobuy; nothing more is done
\* while nobody is logged in.
Receive(t) ==
    /\ screen # "off"
    /\ handler = Idle /\ t \notin handled
    /\ enabled' \in BOOLEAN
    /\ handled' = handled \cup {t}
    /\ handler' = IF LoggedIn
                  THEN [pc |-> "whitelist", token |-> t, white |-> FALSE, bans |-> bans]
                  ELSE Idle
    /\ UNCHANGED <<screenVars, fileVars, poolVars, config, activeTwitter,
                   activeWhitelist, banVars, adds, bought, flags>>

\* The whitelist decides first, if it is switched on; it puts the token into
\* the feed and buys without looking at filters and bans.
Whitelist ==
    /\ handler.pc = "whitelist"
    /\ LET a == Attr[handler.token] IN
       \/ /\ activeWhitelist /\ a.whitelisted
          /\ adds' = adds \cup {handler.token}
          /\ handler' = [handler EXCEPT !.pc = "whitelisted", !.white = TRUE]
       \/ /\ ~(activeWhitelist /\ a.whitelisted)
          /\ GoTo(IF a.perf = None THEN "migrated" ELSE "filters")
          /\ UNCHANGED adds
    /\ UNCHANGED <<poolVars, automataVars, bought>> /\ HandlerStep

\* The lock is taken again to buy, whatever the switch says by now.
WhiteLock ==
    /\ handler.pc = "whitelisted"
    /\ GoTo("buying")
    /\ UNCHANGED <<poolVars, automataVars, adds, bought>> /\ HandlerStep

\* handle_migrated: a token without performance goes to the feed unfiltered.
Migrated ==
    /\ handler.pc = "migrated"
    /\ feed' = feed \cup {handler.token}
    /\ Finish
    /\ UNCHANGED <<poolFilters, automataVars, adds, bought>> /\ HandlerStep

\* handle_perf: the filters of the feed ...
ViewFilter ==
    /\ handler.pc = "filters"
    /\ LET a == Attr[handler.token] IN
       IF matches(poolFilters, a, a.perf) THEN GoTo("blacklist") ELSE Finish
    /\ UNCHANGED <<poolVars, automataVars, adds, bought>> /\ HandlerStep

\* ... the blacklist, and a task that will put the token into the feed ...
CheckBan ==
    /\ handler.pc = "blacklist"
    /\ IF Attr[handler.token].creator \in banned
       THEN Finish /\ UNCHANGED adds
       ELSE GoTo("purchase") /\ adds' = adds \cup {handler.token}
    /\ UNCHANGED <<poolVars, automataVars, bought>> /\ HandlerStep

\* ... the filters of the purchases ...
BuyFilter ==
    /\ handler.pc = "purchase"
    /\ LET a == Attr[handler.token] IN
       IF matches(config, a, a.perf) THEN GoTo("switch") ELSE Finish
    /\ UNCHANGED <<poolVars, automataVars, adds, bought>> /\ HandlerStep

\* Mutated form of Switch: the lock is let go before the purchase.
SwitchUnlocked ==
    /\ handler.pc = "switch"
    /\ IF activeTwitter THEN GoTo("whitelisted") ELSE Finish
    /\ UNCHANGED <<poolVars, automataVars, adds, bought>> /\ HandlerStep

\* ... and the switch, under the lock that is then kept while buying.
Switch ==
    /\ handler.pc = "switch"
    /\ IF activeTwitter THEN GoTo("buying") ELSE Finish
    /\ UNCHANGED <<poolVars, automataVars, adds, bought>> /\ HandlerStep

\* BuyAutomata::buy, with the automata locked; it may fail.
Buy ==
    /\ handler.pc = "buying"
    /\ bought' \in {bought, bought \cup {handler.token}}
    /\ Finish
    /\ UNCHANGED <<poolVars, automataVars, adds>> /\ HandlerStep

\* The task is aborted at one of its awaits after a new login, or panics.
Abort ==
    /\ handler # Idle
    /\ Finish
    /\ UNCHANGED <<poolVars, automataVars, adds, bought>> /\ HandlerStep

\* A spawned task puts its token into the pool.
Add(t) ==
    /\ t \in adds
    /\ adds' = adds \ {t}
    /\ feed' = feed \cup {t}
    /\ UNCHANGED <<poolFilters, automataVars, handler, bought>> /\ HandlerStep

-----------------------------------------------------------------------------
Init ==
    /\ screen = "off"
    /\ shown = NoFilters /\ shownBuy = NoFilters
    /\ viewFile = NoFilters /\ buyFile = NoFilters /\ configFile = NoFilters
    /\ poolFilters = NoFilters /\ feed = {}
    /\ config = NoFilters /\ enabled = FALSE
    /\ activeTwitter = FALSE /\ activeWhitelist = FALSE
    /\ banned = {} /\ banFile = {} /\ bans = {}
    /\ handler = Idle /\ adds = {} /\ handled = {} /\ bought = {}
    /\ dropped = FALSE /\ torn = FALSE

Program == Start \/ Login \/ Logout \/ Close \/ Exit \/ Kill

Gui ==
    \/ \E e \in ViewEdits : EditView(e[1], e[2])
    \/ \E e \in BuyEdits : EditBuy(e[1], e[2])
    \/ Toggle \/ (\E t \in Tokens : Ban(t)) \/ Clear

Handle ==
    \/ \E t \in Tokens : Receive(t)
    \/ Whitelist \/ WhiteLock \/ Migrated \/ ViewFilter \/ CheckBan \/ BuyFilter
    \/ Switch \/ Buy \/ Abort
    \/ \E t \in Tokens : Add(t)

Next == Program \/ Gui \/ Handle

Spec == Init /\ [][Next]_vars

-----------------------------------------------------------------------------
(* Properties. *)

TypeOK ==
    /\ screen \in {"off", "login", "running", "closing"}
    /\ shown \in FilterSet /\ shownBuy \in FilterSet
    /\ viewFile \in FilterSet /\ buyFile \in FilterSet /\ configFile \in FilterSet
    /\ poolFilters \in FilterSet /\ feed \subseteq Tokens
    /\ config \in FilterSet
    /\ enabled \in BOOLEAN /\ activeTwitter \in BOOLEAN /\ activeWhitelist \in BOOLEAN
    /\ banned \subseteq Creators /\ banFile \subseteq Creators /\ bans \subseteq Creators
    /\ handler \in Handler /\ (handler = Idle \/ handler.token \in Tokens)
    /\ adds \subseteq Tokens /\ handled \subseteq Tokens /\ bought \subseteq Tokens
    /\ dropped \in BOOLEAN /\ torn \in BOOLEAN

\* The filters on the screen are the ones the feed is filtered with, over
\* logouts, restarts and kills, unless the last edit found the pool locked; the
\* next edit that does not makes up for all that were dropped (MyApp::update).
ShownFiltersApply ==
    screen = "running" /\ ~dropped => poolFilters = shown

\* The purchase filters on the screen are the ones purchases are decided with,
\* although the screen loads them from one file and the automata from another,
\* saved at another time: unless the program was killed since the last edit.
ShownBuyFiltersApply ==
    screen = "running" /\ ~torn => config = shownBuy

\* The inductive invariant behind both: what a file will make of the next
\* screen, or of the next run of the program.
FilesInvariant ==
    /\ TypeOK
    /\ screen \in {"login", "closing"} /\ ~dropped => viewFile = poolFilters
    /\ ShownFiltersApply
    /\ screen = "off" /\ ~torn => buyFile = configFile
    /\ screen \in {"login", "closing"} /\ ~torn => buyFile = config
    /\ ShownBuyFiltersApply

\* A token whose creator was banned before it came, in this run of the program
\* or in an earlier one, is neither put into the feed nor bought by handle_perf.
BansHold ==
    handler.pc \in {"purchase", "switch", "buying"} /\ ~handler.white =>
        Attr[handler.token].creator \notin handler.bans

\* A purchase that the filters asked for starts and ends with its switch on: the
\* user cannot have switched it off before the purchase (handle_perf keeps the
\* lock, unlike the whitelist's purchase).
BoughtWhileOn ==
    handler.pc = "buying" /\ ~handler.white => activeTwitter
=============================================================================
