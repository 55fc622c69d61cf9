----------------------------- MODULE AdminPanel -----------------------------
(***************************************************************************)
(* The administrator's panel (tokenir_admin/src/main.rs) at work on the    *)
(* server of SessionRegistry.  Each button spawns a task that sends one    *)
(* HTTP request and puts what comes of it into an mpsc channel; update     *)
(* empties the channel at the beginning of each frame.  Requests are not   *)
(* numbered and nothing disables a button meanwhile: their answers are     *)
(* applied in the order they happen to arrive.                             *)
(***************************************************************************)
EXTENDS SessionRegistry

CONSTANTS
    UserKey,    \* the access key of a user
    GoneKey,    \* the access key of a user another administrator has deleted
    TypedKeys,  \* the keys typed into the form
    Slots,      \* bound: requests under way at once, numbered
    MaxClicks   \* bound: buttons clicked

ASSUME PanelAssumption ==
    /\ {UserKey, GoneKey} \subseteq Keys \ {RootKey}
    /\ UserKey # GoneKey
    /\ TypedKeys \subseteq Keys
    /\ Slots \subseteq Nat
    /\ MaxClicks \in Nat

VARIABLES
    shown,      \* app.users
    is_loading,
    clicks,     \* buttons clicked so far
    request,    \* per slot: a request, see Request
    doomed      \* history: rows whose button "Delete User" was clicked

panelVars == <<shown, is_loading, clicks, request, doomed>>
allVars == <<vars, panelVars>>

(***************************************************************************)
(* A request: what it asks for; the row to delete or the key to add; how   *)
(* far it is; the rows in its answer.  "handling": remove_user_handler has *)
(* begun.  "cut": the answer broke off in the middle of the list, and the  *)
(* task ended without an event.                                            *)
(***************************************************************************)
Kind == {"list", "add", "remove", "restart"}
Stage == {"none", "sent", "handling", "answered", "failed", "cut"}
Request == [kind : Kind, id : Nat, key : Keys \cup {None}, stage : Stage,
            rows : SUBSET Row]
NoRequest == [kind |-> "list", id |-> 0, key |-> None, stage |-> "none", rows |-> {}]
Sent(kind) == [NoRequest EXCEPT !.kind = kind, !.stage = "sent"]

At(r, kind, stage) == request[r].kind = kind /\ request[r].stage = stage
GoesTo(r, stage) == request' = [request EXCEPT ![r].stage = stage]

PanelRests == UNCHANGED <<shown, is_loading, clicks, doomed>>

-----------------------------------------------------------------------------
(* The buttons. *)

Free(r) == request[r].stage \in {"none", "cut"}

Click(r, q) ==
    /\ clicks < MaxClicks
    /\ clicks' = clicks + 1
    /\ Free(r) /\ \A s \in Slots : s < r => ~Free(s)
    /\ request' = [request EXCEPT ![r] = q]
    /\ is_loading' = TRUE
    /\ UNCHANGED <<vars, shown>>

fetch_users(r) == Click(r, Sent("list")) /\ UNCHANGED doomed

restart_server(r) == Click(r, Sent("restart")) /\ UNCHANGED doomed

add_user(r, k) == Click(r, [Sent("add") EXCEPT !.key = k]) /\ UNCHANGED doomed

\* Rows of administrators have no such button.
remove_user(r, u) ==
    /\ u \in shown /\ ~u.admin
    /\ Click(r, [Sent("remove") EXCEPT !.id = u.id])
    /\ doomed' = doomed \cup {u}

-----------------------------------------------------------------------------
(* The server. *)

get_users_handler(r) ==
    /\ At(r, "list", "sent") /\ Running
    /\ request' = [request EXCEPT ![r].stage = "answered", ![r].rows = users]
    /\ UNCHANGED vars /\ PanelRests

add_user_handler(r) ==
    /\ At(r, "add", "sent")
    /\ AddUser(request[r].key)
    /\ GoesTo(r, "answered")
    /\ PanelRests

remove_user_begins(r, a) ==
    /\ At(r, "remove", "sent")
    /\ LookUp(a, request[r].id)
    /\ GoesTo(r, "handling")
    /\ PanelRests

remove_user_goes_on(a) ==
    /\ CheckTarget(a) \/ DeleteRow(a)
    /\ UNCHANGED panelVars

remove_user_ends(r, a) ==
    /\ At(r, "remove", "handling") /\ request[r].id = target[a]
    /\ \/ Revoke(a) /\ GoesTo(r, "answered")
       \/ StopRemoving(a) /\ GoesTo(r, "failed")
    /\ PanelRests

\* A second signal is not read any more.
restart_handler(r) ==
    /\ At(r, "restart", "sent")
    /\ RequestRestart \/ (server = "draining" /\ UNCHANGED vars)
    /\ GoesTo(r, "answered")
    /\ PanelRests

\* Nobody is listening, the server refuses, or its answer does not arrive.
Fails(r) ==
    /\ request[r].stage \in {"sent", "answered"}
    /\ request' = [request EXCEPT ![r].stage = "failed", ![r].rows = {}]
    /\ UNCHANGED vars /\ PanelRests

\* An answer with status 200 ends before its body does.
BreaksOff(r) ==
    /\ At(r, "list", "answered")
    /\ request' = [request EXCEPT ![r].stage = "cut", ![r].rows = {}]
    /\ UNCHANGED vars /\ PanelRests

-----------------------------------------------------------------------------
(* update, its loop over the events. *)

\* Mutated form of Update: an error sends no event.
UpdateOnSuccess(r) ==
    /\ request[r].stage \in {"answered", "failed"}
    /\ IF request[r].stage = "answered" /\ request[r].kind \in {"add", "remove"}
       THEN request' = [request EXCEPT ![r] = Sent("list")] /\ is_loading' = TRUE
       ELSE /\ request' = [request EXCEPT ![r] = NoRequest]
            /\ is_loading' = (is_loading /\ request[r].stage = "failed")
    /\ shown' = IF At(r, "list", "answered") THEN request[r].rows ELSE shown
    /\ UNCHANGED <<vars, clicks, doomed>>

\* An event: the list is replaced; a change of the table leads to another
\* request for the list.
Update(r) ==
    /\ request[r].stage \in {"answered", "failed"}
    /\ IF request[r].stage = "answered" /\ request[r].kind \in {"add", "remove"}
       THEN request' = [request EXCEPT ![r] = Sent("list")] /\ is_loading' = TRUE
       ELSE request' = [request EXCEPT ![r] = NoRequest] /\ is_loading' = FALSE
    /\ shown' = IF At(r, "list", "answered") THEN request[r].rows ELSE shown
    /\ UNCHANGED <<vars, clicks, doomed>>

-----------------------------------------------------------------------------
User(i, k) == [id |-> i, key |-> k, admin |-> FALSE]

\* The first list has been fetched; since then another administrator has
\* deleted a user that the panel still shows.
PanelInit ==
    /\ Fresh
    /\ users = {Root, User(1, UserKey)}
    /\ nextUser = 3
    /\ shown = users \cup {User(2, GoneKey)}
    /\ is_loading = FALSE
    /\ clicks = 0
    /\ request = [r \in Slots |-> NoRequest]
    /\ doomed = {}

Buttons(r) ==
    \/ fetch_users(r) \/ restart_server(r)
    \/ \E k \in TypedKeys : add_user(r, k)
    \/ \E u \in shown : remove_user(r, u)

Serve(r) ==
    \/ get_users_handler(r) \/ add_user_handler(r) \/ restart_handler(r)
    \/ \E a \in Removers : remove_user_begins(r, a) \/ remove_user_ends(r, a)

\* The registry's own steps; every client has UserKey.
Sessions ==
    /\ \/ \E c \in Conns : \/ Connect(c, UserKey) \/ HangUp(c)
                            \/ Handler(c) \/ RecvEnds(c) \/ SendFails(c)
       \/ Exit \/ Boot
    /\ UNCHANGED panelVars

\* A crash cuts the requests being handled.
ServerCrashes ==
    /\ Crash
    /\ request' = [r \in Slots |->
          IF request[r].stage = "handling"
          THEN [request[r] EXCEPT !.stage = "failed"] ELSE request[r]]
    /\ PanelRests

PanelNext ==
    \/ \E r \in Slots : Buttons(r) \/ Serve(r) \/ Fails(r) \/ BreaksOff(r) \/ Update(r)
    \/ \E a \in Removers : remove_user_goes_on(a)
    \/ Sessions \/ ServerCrashes

(***************************************************************************)
(* Fairness, beside that of the registry.  A request is answered or fails. *)
(* Frames are drawn as long as the spinner turns: only its animation asks  *)
(* for them while nobody touches the panel, so that an event which arrives *)
(* after the spinner has gone may wait in the channel.                     *)
(***************************************************************************)
PanelFairness ==
    /\ \A r \in Slots :
          /\ WF_allVars(Serve(r) \/ Fails(r))
          /\ WF_allVars(is_loading /\ Update(r))
    /\ \A a \in Removers : WF_allVars(remove_user_goes_on(a))
    /\ \A c \in Conns :
          /\ WF_allVars(Handler(c) /\ UNCHANGED panelVars)
          /\ WF_allVars(peer[c] = "closed" /\ RecvEnds(c) /\ UNCHANGED panelVars)
          /\ WF_allVars(SendFails(c) /\ UNCHANGED panelVars)
    /\ WF_allVars(Exit /\ UNCHANGED panelVars)

PanelSpec == PanelInit /\ [][PanelNext]_allVars /\ PanelFairness

-----------------------------------------------------------------------------
(* Properties. *)

\* Only users whose own button was clicked are ever deleted: however old the
\* list on the screen is, and in whatever order requests arrive, the id sent by
\* remove_user does not come to name another user (ids are never given again).
\* No administrator is among them.
OnlyClickedRemoved ==
    [][users \ users' \subseteq {u \in doomed : ~u.admin}]_allVars

\* The spinner stops: every request, its failure included, ends with an event,
\* except one whose list broke off.
PanelSettles ==
    is_loading ~> \/ ~is_loading
                  \/ \E r \in Slots : request[r].stage = "cut"
=============================================================================
