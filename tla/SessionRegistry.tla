--------------------------- MODULE SessionRegistry ---------------------------
(***************************************************************************)
(* The session registry of the server (tokenir/src/main.rs): which access  *)
(* key has a websocket session.  AppState keeps active_connections, a map  *)
(* from access key to session id, and next_session_id, a counter.  Four    *)
(* kinds of tasks race on them:                                            *)
(*   - ws_handler, one per HTTP upgrade request: validates the key in the  *)
(*     database, takes a session id, registers the key, answers 101;       *)
(*   - handle_socket, run once the upgrade has completed: spawns a sending *)
(*     and a receiving task, waits for either, then cleans up;             *)
(*   - remove_user_handler, one per admin request: a sequence of awaits    *)
(*     on the database followed by a removal from the map;                 *)
(*   - the process itself, which may be restarted or crash.                *)
(* Every await is a point where other tasks run, so each code segment      *)
(* between two awaits is one action here.                                  *)
(***************************************************************************)
EXTENDS Naturals, FiniteSets

CONSTANTS
    Keys,       \* access keys, of 32 characters like the generated ones
    RootKey,    \* the access key of the administrator's row
    Conns,      \* connection attempts: each is one HTTP upgrade request
    Removers,   \* concurrent executions of remove_user_handler
    Faults,     \* which faults of the environment happen, see FaultKinds
    MaxUsers,   \* bound: rows ever inserted in table users
    MaxBoots,   \* bound: restarts of the process
    None

(***************************************************************************)
(* "query": a database query fails; "protocol": the receiving half of an   *)
(* open websocket yields an error; "vanish": a client goes without closing *)
(* its link; "abandon": the administrator's client hangs up in the middle  *)
(* of its request.                                                         *)
(***************************************************************************)
FaultKinds == {"query", "protocol", "vanish", "abandon"}

ASSUME FaultsAssumption == Faults \subseteq FaultKinds
ASSUME RootAssumption == RootKey \in Keys
ASSUME BoundsAssumption == MaxUsers \in Nat /\ MaxBoots \in Nat
ASSUME NoneAssumption ==
    /\ None \notin Nat
    /\ None \notin Keys
    /\ None \notin Conns

VARIABLES
    server,       \* "up", "draining" (graceful shutdown) or "down"
    boots,        \* restarts so far
    users,        \* table users: a set of rows
    nextUser,     \* the SERIAL of users.id
    active,       \* active_connections: key -> session id, or None
    nextSession,  \* next_session_id
    pc,           \* per connection attempt: where its handler is
    key,          \* per connection attempt: auth.key
    sid,          \* per connection attempt: its session_id, or None
    tasks,        \* per connection attempt: its running send and recv tasks
    peer,         \* per connection attempt: the client's end of the TCP link
    rpc,          \* per remover: where the handler is
    target,       \* per remover: req.user_id
    targetKey,    \* per remover: target_key, None when the lookup failed
    evicted       \* history: sessions whose map entry an admin removed

serverVars  == <<server, boots>>
dbVars      == <<users, nextUser>>
mapVars     == <<active, nextSession>>
connVars    == <<pc, key, sid, tasks, peer>>
removerVars == <<rpc, target, targetKey>>
vars == <<serverVars, dbVars, mapVars, connVars, removerVars, evicted>>

Row == [id : Nat, key : Keys, admin : BOOLEAN]

\* ws_handler still owes the client an HTTP answer.
Pending == {"requested", "validated", "numbered"}
\* handle_socket has the socket; its client receives what the tasks send.
Open == {"opening", "live"}
\* The handler has put its key into the map and has not cleaned up.
Holding == {"upgrading", "failed", "cleaning"} \cup Open
\* Nothing of the handler runs any more.
Over == {"forbidden", "rejected", "cancelled", "ended", "gone"}
Phase == {"idle"} \cup Pending \cup Holding \cup Over

RemoverPhase == {"idle", "looked", "checked", "deleted"}

Holds(c) == pc[c] \in Holding
Running == server \in {"up", "draining"}

-----------------------------------------------------------------------------
(* The users table. *)

KnownKeys == {u.key : u \in users}

\* Mutated form of AddUser: the number of rows instead of a SERIAL.
AddUserReuse(k) ==
    /\ Running
    /\ nextUser < MaxUsers
    /\ k \notin KnownKeys
    /\ users' = users \cup {[id |-> Cardinality(users), key |-> k, admin |-> FALSE]}
    /\ nextUser' = nextUser + 1
    /\ UNCHANGED <<serverVars, mapVars, connVars, removerVars, evicted>>

(***************************************************************************)
(* add_user: INSERT with UNIQUE access_key.  The admin check before it is  *)
(* an await of its own; rows of administrators are never removed (see      *)
(* CheckTarget) and admin is never updated, so its answer cannot change    *)
(* before the INSERT, and a refused caller changes nothing.                *)
(***************************************************************************)
AddUser(k) ==
    /\ Running
    /\ nextUser < MaxUsers
    /\ k \notin KnownKeys
    /\ users' = users \cup {[id |-> nextUser, key |-> k, admin |-> FALSE]}
    /\ nextUser' = nextUser + 1
    /\ UNCHANGED <<serverVars, mapVars, connVars, removerVars, evicted>>

-----------------------------------------------------------------------------
(* ws_handler: from the request to the answer. *)

Connect(c, k) ==
    /\ server = "up"
    /\ pc[c] = "idle"
    /\ pc' = [pc EXCEPT ![c] = "requested"]
    /\ key' = [key EXCEPT ![c] = k]
    /\ peer' = [peer EXCEPT ![c] = "open"]
    /\ UNCHANGED <<serverVars, dbVars, mapVars, sid, tasks, removerVars, evicted>>

\* validate_user_key; a database error answers like a missing row.
Validate(c) ==
    /\ Running
    /\ pc[c] = "requested"
    /\ \/ /\ key[c] \in KnownKeys
          /\ pc' = [pc EXCEPT ![c] = "validated"]
       \/ /\ key[c] \notin KnownKeys \/ "query" \in Faults
          /\ pc' = [pc EXCEPT ![c] = "forbidden"]
    /\ UNCHANGED <<serverVars, dbVars, mapVars, key, sid, tasks, peer,
                   removerVars, evicted>>

\* Mutated form of TakeId: a load instead of the fetch_add.
TakeIdByLoad(c) ==
    /\ Running
    /\ pc[c] = "validated"
    /\ pc' = [pc EXCEPT ![c] = "numbered"]
    /\ sid' = [sid EXCEPT ![c] = nextSession]
    /\ UNCHANGED <<serverVars, dbVars, mapVars, key, tasks, peer,
                   removerVars, evicted>>

\* next_session_id.fetch_add(1): the id is consumed even if the request is
\* rejected later.
TakeId(c) ==
    /\ Running
    /\ pc[c] = "validated"
    /\ pc' = [pc EXCEPT ![c] = "numbered"]
    /\ sid' = [sid EXCEPT ![c] = nextSession]
    /\ nextSession' = nextSession + 1
    /\ UNCHANGED <<serverVars, dbVars, active, key, tasks, peer,
                   removerVars, evicted>>

\* Mutated form of Register: the key is not looked up under the same lock.
RegisterUnchecked(c) ==
    /\ Running
    /\ pc[c] = "numbered"
    /\ active' = [active EXCEPT ![key[c]] = sid[c]]
    /\ pc' = [pc EXCEPT ![c] = "upgrading"]
    /\ UNCHANGED <<serverVars, dbVars, nextSession, key, sid, tasks, peer,
                   removerVars, evicted>>

\* With active_connections locked: the key is free, insert before the upgrade.
Register(c) ==
    /\ Running
    /\ pc[c] = "numbered"
    /\ active[key[c]] = None
    /\ active' = [active EXCEPT ![key[c]] = sid[c]]
    /\ pc' = [pc EXCEPT ![c] = "upgrading"]
    /\ UNCHANGED <<serverVars, dbVars, nextSession, key, sid, tasks, peer,
                   removerVars, evicted>>

\* With active_connections locked: the key is taken, answer 409 CONFLICT.
Reject(c) ==
    /\ Running
    /\ pc[c] = "numbered"
    /\ active[key[c]] # None
    /\ pc' = [pc EXCEPT ![c] = "rejected"]
    /\ UNCHANGED <<serverVars, dbVars, mapVars, key, sid, tasks, peer,
                   removerVars, evicted>>

\* The client hangs up before the answer: the handler's future is dropped at
\* the await it has reached.  None of them follows the insertion.
Cancel(c) ==
    /\ Running
    /\ pc[c] \in Pending
    /\ peer[c] # "open"
    /\ pc' = [pc EXCEPT ![c] = "cancelled"]
    /\ UNCHANGED <<serverVars, dbVars, mapVars, key, sid, tasks, peer,
                   removerVars, evicted>>

-----------------------------------------------------------------------------
(* on_upgrade and handle_socket. *)

\* The callback given to on_upgrade runs: subscribe, split the socket.
Upgrade(c) ==
    /\ Running
    /\ pc[c] = "upgrading"
    /\ pc' = [pc EXCEPT ![c] = "opening"]
    /\ UNCHANGED <<serverVars, dbVars, mapVars, key, sid, tasks, peer,
                   removerVars, evicted>>

\* The client was gone before the 101 reached it: the callback never runs, and
\* no other code of the program knows of this session.
UpgradeFails(c) ==
    /\ Running
    /\ pc[c] = "upgrading"
    /\ peer[c] # "open"
    /\ pc' = [pc EXCEPT ![c] = "failed"]
    /\ UNCHANGED <<serverVars, dbVars, mapVars, key, sid, tasks, peer,
                   removerVars, evicted>>

\* After the autobuy query and the connection_info message, whose failure is
\* ignored: spawn both tasks and wait for either.
StartTasks(c) ==
    /\ Running
    /\ pc[c] = "opening"
    /\ pc' = [pc EXCEPT ![c] = "live"]
    /\ tasks' = [tasks EXCEPT ![c] = {"send", "recv"}]
    /\ UNCHANGED <<serverVars, dbVars, mapVars, key, sid, peer,
                   removerVars, evicted>>

\* recv_task ends: the stream has ended, or it yielded an error (of the link,
\* or of the protocol while the link is still open).
RecvEnds(c) ==
    /\ Running
    /\ "recv" \in tasks[c]
    /\ peer[c] = "closed" \/ (peer[c] = "open" /\ "protocol" \in Faults)
    /\ tasks' = [tasks EXCEPT ![c] = @ \ {"recv"}]
    /\ UNCHANGED <<serverVars, dbVars, mapVars, pc, key, sid, peer,
                   removerVars, evicted>>

\* send_task ends: a broadcast message cannot be written any more.
SendFails(c) ==
    /\ Running
    /\ "send" \in tasks[c]
    /\ peer[c] # "open"
    /\ tasks' = [tasks EXCEPT ![c] = @ \ {"send"}]
    /\ UNCHANGED <<serverVars, dbVars, mapVars, pc, key, sid, peer,
                   removerVars, evicted>>

\* Mutated form of SelectReturns: join! instead of select!.
JoinReturns(c) ==
    /\ Running
    /\ pc[c] = "live"
    /\ tasks[c] = {}
    /\ pc' = [pc EXCEPT ![c] = "cleaning"]
    /\ UNCHANGED <<serverVars, dbVars, mapVars, key, sid, tasks, peer,
                   removerVars, evicted>>

\* select! returns; the JoinHandle of the other task is dropped, which detaches
\* the task and does not stop it.
SelectReturns(c) ==
    /\ Running
    /\ pc[c] = "live"
    /\ tasks[c] # {"send", "recv"}
    /\ pc' = [pc EXCEPT ![c] = "cleaning"]
    /\ UNCHANGED <<serverVars, dbVars, mapVars, key, sid, tasks, peer,
                   removerVars, evicted>>

\* Mutated form of Cleanup: whatever session the entry names.
CleanupAnySession(c) ==
    /\ Running
    /\ pc[c] = "cleaning"
    /\ pc' = [pc EXCEPT ![c] = "ended"]
    /\ active' = [active EXCEPT ![key[c]] = None]
    /\ UNCHANGED <<serverVars, dbVars, nextSession, key, sid, tasks, peer,
                   removerVars, evicted>>

\* With active_connections locked: remove the entry if it is still this
\* session's.
Cleanup(c) ==
    /\ Running
    /\ pc[c] = "cleaning"
    /\ pc' = [pc EXCEPT ![c] = "ended"]
    /\ active' = IF active[key[c]] = sid[c]
                 THEN [active EXCEPT ![key[c]] = None]
                 ELSE active
    /\ UNCHANGED <<serverVars, dbVars, nextSession, key, sid, tasks, peer,
                   removerVars, evicted>>

-----------------------------------------------------------------------------
(* remove_user_handler. *)

\* get_key_by_id(..).await.ok(): None when the row is missing or the query
\* fails; the handler goes on in both cases.
LookUp(a, i) ==
    /\ server = "up"
    /\ rpc[a] = "idle"
    /\ rpc' = [rpc EXCEPT ![a] = "looked"]
    /\ target' = [target EXCEPT ![a] = i]
    /\ \/ \E u \in users : /\ u.id = i
                           /\ targetKey' = [targetKey EXCEPT ![a] = u.key]
       \/ /\ "query" \in Faults \/ \A u \in users : u.id # i
          /\ targetKey' = [targetKey EXCEPT ![a] = None]
    /\ UNCHANGED <<serverVars, dbVars, mapVars, connVars, evicted>>

\* The target exists and is not an administrator.
Removable(i) == \E u \in users : u.id = i /\ ~u.admin

CheckTarget(a) ==
    /\ Running
    /\ rpc[a] = "looked"
    /\ Removable(target[a])
    /\ rpc' = [rpc EXCEPT ![a] = "checked"]
    /\ UNCHANGED <<serverVars, dbVars, mapVars, connVars, target, targetKey, evicted>>

\* DELETE FROM users WHERE id = $1: succeeds with zero rows as well.
DeleteRow(a) ==
    /\ Running
    /\ rpc[a] = "checked"
    /\ rpc' = [rpc EXCEPT ![a] = "deleted"]
    /\ users' = {u \in users : u.id # target[a]}
    /\ UNCHANGED <<serverVars, nextUser, mapVars, connVars, target, targetKey, evicted>>

\* The handler answers: its locals are dropped.
Return(a) ==
    /\ rpc' = [rpc EXCEPT ![a] = "idle"]
    /\ target' = [target EXCEPT ![a] = 0]
    /\ targetKey' = [targetKey EXCEPT ![a] = None]

\* With active_connections locked: connections.remove(&key), whichever session
\* the entry names by now.
Revoke(a) ==
    /\ Running
    /\ rpc[a] = "deleted"
    /\ Return(a)
    /\ active' = [k \in Keys |-> IF k = targetKey[a] THEN None ELSE active[k]]
    /\ evicted' = evicted \cup {c \in Conns : /\ Holds(c)
                                              /\ key[c] = targetKey[a]
                                              /\ active[key[c]] = sid[c]}
    /\ UNCHANGED <<serverVars, dbVars, nextSession, connVars>>

\* The target is not removable, a query fails, or the administrator's client
\* hangs up and the handler's future is dropped at its current await.
StopRemoving(a) ==
    /\ Running
    /\ \/ rpc[a] = "looked" /\ ~Removable(target[a])
       \/ rpc[a] \in {"looked", "checked"} /\ "query" \in Faults
       \/ rpc[a] # "idle" /\ "abandon" \in Faults
    /\ Return(a)
    /\ UNCHANGED <<serverVars, dbVars, mapVars, connVars, evicted>>

-----------------------------------------------------------------------------
(* The client's end of the link. *)

\* The client closes the link, or vanishes without a FIN.  A detached task may
\* still be using the link of a session that has ended.
HangUp(c) ==
    /\ peer[c] = "open"
    /\ pc[c] \in Pending \cup Holding \cup {"ended"}
    /\ \/ peer' = [peer EXCEPT ![c] = "closed"]
       \/ "vanish" \in Faults /\ peer' = [peer EXCEPT ![c] = "lost"]
    /\ UNCHANGED <<serverVars, dbVars, mapVars, pc, key, sid, tasks,
                   removerVars, evicted>>

-----------------------------------------------------------------------------
(* restart_handler, the graceful shutdown and crashes. *)

\* restart_handler sends on shutdown_tx: the server accepts nothing new.
RequestRestart ==
    /\ server = "up"
    /\ server' = "draining"
    /\ UNCHANGED <<boots, dbVars, mapVars, connVars, removerVars, evicted>>

\* Everything the process kept in memory is lost, every link is cut.
Stop ==
    /\ server' = "down"
    /\ active' = [k \in Keys |-> None]
    /\ nextSession' = 0
    /\ pc' = [c \in Conns |-> IF pc[c] = "idle" THEN "idle" ELSE "gone"]
    /\ sid' = [c \in Conns |-> None]
    /\ tasks' = [c \in Conns |-> {}]
    /\ peer' = [c \in Conns |-> "closed"]
    /\ rpc' = [a \in Removers |-> "idle"]
    /\ target' = [a \in Removers |-> 0]
    /\ targetKey' = [a \in Removers |-> None]
    /\ evicted' = {}
    /\ UNCHANGED <<boots, dbVars, key>>

\* Mutated form of Exit: open websockets hold the exit back.
ExitAfterSockets ==
    /\ server = "draining"
    /\ \A c \in Conns : pc[c] \notin Pending \cup Holding
    /\ \A a \in Removers : rpc[a] = "idle"
    /\ Stop

\* axum::serve has returned: every request was answered.  Upgraded sockets do
\* not hold it back.
Exit ==
    /\ server = "draining"
    /\ \A c \in Conns : pc[c] \notin Pending
    /\ \A a \in Removers : rpc[a] = "idle"
    /\ Stop

Crash ==
    /\ Running
    /\ boots < MaxBoots
    /\ Stop

\* systemd starts the process again.
Boot ==
    /\ server = "down"
    /\ boots < MaxBoots
    /\ server' = "up"
    /\ boots' = boots + 1
    /\ UNCHANGED <<dbVars, mapVars, connVars, removerVars, evicted>>

-----------------------------------------------------------------------------
\* The process has started and knows of nobody.
Fresh ==
    /\ server = "up"
    /\ boots = 0
    /\ active = [k \in Keys |-> None]
    /\ nextSession = 0
    /\ pc = [c \in Conns |-> "idle"]
    /\ key = [c \in Conns |-> None]
    /\ sid = [c \in Conns |-> None]
    /\ tasks = [c \in Conns |-> {}]
    /\ peer = [c \in Conns |-> "closed"]
    /\ rpc = [a \in Removers |-> "idle"]
    /\ target = [a \in Removers |-> 0]
    /\ targetKey = [a \in Removers |-> None]
    /\ evicted = {}

Root == [id |-> 0, key |-> RootKey, admin |-> TRUE]

Init ==
    /\ Fresh
    /\ users = {Root}
    /\ nextUser = 1

\* One step of the handler of connection attempt c.
Handler(c) ==
    \/ Validate(c) \/ TakeId(c) \/ Register(c) \/ Reject(c) \/ Cancel(c)
    \/ Upgrade(c) \/ UpgradeFails(c) \/ StartTasks(c)
    \/ SelectReturns(c) \/ Cleanup(c)

Client(c) == HangUp(c) \/ \E k \in Keys : Connect(c, k)

Remover(a) ==
    \/ \E i \in 0 .. nextUser - 1 : LookUp(a, i)
    \/ CheckTarget(a) \/ DeleteRow(a) \/ Revoke(a) \/ StopRemoving(a)

Next ==
    \/ \E k \in Keys : AddUser(k)
    \/ \E c \in Conns : Client(c) \/ Handler(c) \/ RecvEnds(c) \/ SendFails(c)
    \/ \E a \in Removers : Remover(a)
    \/ RequestRestart \/ Exit \/ Crash \/ Boot

Spec == Init /\ [][Next]_vars

(***************************************************************************)
(* Fairness.  tokio polls every woken task, so a handler that can step     *)
(* does.  A closed link ends the receiving task.  A vanished client is     *)
(* noticed by the sending task alone: the chain never stops producing      *)
(* tokens, so there is always a next broadcast to fail on (and TCP gives   *)
(* up retransmitting).  A protocol error on an open link is not fair.      *)
(* Nothing is assumed of clients, of what administrators ask for, of        *)
(* crashes or of systemd.                                                  *)
(***************************************************************************)
Fairness ==
    /\ \A c \in Conns : WF_vars(Handler(c))
    /\ \A c \in Conns : WF_vars(peer[c] = "closed" /\ RecvEnds(c))
    /\ \A c \in Conns : WF_vars(SendFails(c))
    /\ \A a \in Removers : WF_vars(CheckTarget(a) \/ DeleteRow(a) \/ Revoke(a)
                                      \/ StopRemoving(a))
    /\ WF_vars(Exit)

FairSpec == Spec /\ Fairness

-----------------------------------------------------------------------------
(* Properties. *)

TypeOK ==
    /\ server \in {"up", "draining", "down"}
    /\ boots \in Nat
    /\ users \subseteq Row
    /\ nextUser \in Nat
    /\ active \in [Keys -> Nat \cup {None}]
    /\ nextSession \in Nat
    /\ pc \in [Conns -> Phase]
    /\ key \in [Conns -> Keys \cup {None}]
    /\ sid \in [Conns -> Nat \cup {None}]
    /\ tasks \in [Conns -> SUBSET {"send", "recv"}]
    /\ peer \in [Conns -> {"open", "closed", "lost"}]
    /\ rpc \in [Removers -> RemoverPhase]
    /\ target \in [Removers -> Nat]
    /\ targetKey \in [Removers -> Keys \cup {None}]
    /\ evicted \subseteq Conns

\* Among the handlers that hold a registration no administrator has removed,
\* at most one belongs to a key: the check and the insertion in ws_handler, and
\* the conditional cleanup in handle_socket, never admit a second one.
OneHolderPerKey ==
    \A c, d \in Conns :
        /\ Holds(c) /\ Holds(d)
        /\ c \notin evicted /\ d \notin evicted
        /\ key[c] = key[d]
        => c = d

\* The inductive invariant behind OneHolderPerKey, part by part: session ids
\* come from the counter and belong to one handler each ...
IdsBelowCounter ==
    \A c \in Conns : sid[c] # None => sid[c] < nextSession
IdsUnique ==
    \A c, d \in Conns : sid[c] # None /\ sid[c] = sid[d] => c = d
\* ... a handler past fetch_add has a key and an id ...
HandlersIdentified ==
    \A c \in Conns :
        /\ pc[c] \in Pending \cup Holding => key[c] # None
        /\ pc[c] \in {"numbered"} \cup Holding => sid[c] # None
\* ... only a handler that held a registration is evicted ...
EvictedHeld == \A c \in evicted : pc[c] \in Holding \cup {"ended"}
\* ... and the map has exactly the entries of the holders not evicted.
HoldersInMap ==
    \A c \in Conns : Holds(c) /\ c \notin evicted => active[key[c]] = sid[c]
EntriesHaveHolder ==
    \A k \in Keys : active[k] # None =>
        \E c \in Conns : /\ Holds(c) /\ c \notin evicted
                         /\ key[c] = k /\ sid[c] = active[k]
RegistryInv ==
    /\ TypeOK
    /\ IdsBelowCounter
    /\ IdsUnique
    /\ HandlersIdentified
    /\ EvictedHeld
    /\ HoldersInMap
    /\ EntriesHaveHolder

\* Two clients of one key are sent tokens at the same time only when an
\* administrator has revoked the session of one of them, and the other was
\* validated before the key was deleted or after it was added again; or when one
\* of them has been cleaned up and its detached sending task goes on.  Rejected
\* duplicates, reconnections and late cleanups never lead to it.
Served(c) == "send" \in tasks[c] /\ peer[c] = "open"
OneServedUnlessRevoked ==
    \A c, d \in Conns :
        Served(c) /\ Served(d) /\ key[c] = key[d] /\ c # d =>
            \E e \in {c, d} : e \in evicted \/ pc[e] = "ended"

\* A registered session is never replaced by another one in a single step: the
\* entry of a key has to be removed first (ws_handler answers CONFLICT).
NoTakeover ==
    [][\A k \in Keys : active[k] # None => active'[k] \in {active[k], None}]_vars

\* While the process runs, an entry disappears only when the very session it
\* names cleans up, or when an administrator who has deleted a row with that
\* key revokes it: the late cleanup of an older session of the key (its entry
\* revoked, the key added again) never unregisters the newer one.
OnlyOwnCleanup ==
    [][\A k \in Keys :
          active[k] # None /\ active'[k] = None /\ server' # "down" =>
             \/ \E c \in Conns : /\ pc[c] = "cleaning" /\ pc'[c] = "ended"
                                 /\ key[c] = k /\ sid[c] = active[k]
             \/ \E a \in Removers : rpc[a] = "deleted" /\ targetKey[a] = k]_vars

\* SessionRegistry implements SessionLease: the holder of a key is the handler
\* that the key's entry names, and a handler has had its lease from the
\* insertion on.
Holder ==
    [k \in Keys |->
        IF active[k] = None THEN None
        ELSE CHOOSE c \in Conns : /\ Holds(c) /\ c \notin evicted
                                  /\ key[c] = k /\ sid[c] = active[k]]
Past == {c \in Conns : pc[c] \in Holding \cup {"ended", "gone"}}

Lease == INSTANCE SessionLease WITH Sessions <- Conns, holder <- Holder, past <- Past

\* A key is leased to one session at a time and a finished or rejected attempt
\* never comes to hold it (the promise of active_connections).
LeaseSpec == Lease!Spec

\* A session whose client has closed or vanished gives its key back, so that
\* the client's reconnect loop is not answered CONFLICT for ever: either task
\* ending is enough for handle_socket to clean up.
GoneClientReleases ==
    \A c \in Conns :
        (pc[c] \in Open /\ peer[c] # "open") ~> pc[c] \in Over

\* A graceful shutdown ends: every request in flight is answered whatever the
\* map, the clients and the administrators do meanwhile, and no open websocket
\* holds the exit back.
RestartCompletes == server = "draining" ~> server = "down"

-----------------------------------------------------------------------------
(* What the code's comments and messages say, which the code does not do. *)

\* A client that is told "Another session is already active for this key.
\* Please close the existing connection first." (ws_handler) has an existing
\* connection to close.
ConflictNamesAConnection ==
    [][\A c \in Conns :
          pc[c] = "numbered" /\ pc'[c] = "rejected" =>
             \E d \in Conns : /\ Holds(d) /\ pc[d] # "failed"
                              /\ key[d] = key[c]]_vars
=============================================================================
