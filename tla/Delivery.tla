------------------------------- MODULE Delivery -------------------------------
(***************************************************************************)
(* How tokens reach the clients.  The server broadcasts each token once,   *)
(* through a tokio broadcast channel that keeps a limited number of        *)
(* messages (tokenir/src/main.rs); handle_socket subscribes, tells the     *)
(* client whether its account may buy automatically, and then forwards     *)
(* what the channel yields.  The client (tokenir_ui/src/fetcher.rs)        *)
(* remembers that status and passes it to the handler with every token.    *)
(*                                                                         *)
(* Tokens are numbered in the order of b_tx.send.  A link is one websocket *)
(* of a client; what the server does with a link that has ended is the     *)
(* subject of SessionRegistry.                                             *)
(***************************************************************************)
EXTENDS Naturals, Sequences, FiniteSets

CONSTANTS
    Clients,
    Capacity,   \* messages the channel keeps; 10000, rounded up, in the code
    Window,     \* messages on their way to a client: socket buffers
    MaxSent,    \* bound: tokens broadcast
    MaxLinks,   \* bound: links per client
    MaxGrants,  \* bound: how often administrators replace an account
    None

ASSUME DeliveryAssumption ==
    /\ Capacity \in Nat \ {0}
    /\ Window \in Nat \ {0}
    /\ MaxSent \in Nat /\ MaxLinks \in Nat /\ MaxGrants \in Nat
    /\ None \notin Nat /\ None \notin BOOLEAN

VARIABLES
    sent,     \* tokens broadcast so far: 0 .. sent - 1
    account,  \* per client: column autobuy of its row
    grants,   \* how often a row was replaced
    link,     \* per client: "off", "opening", "told" or "live"
    links,    \* per client: links so far
    start,    \* per client: position of the channel at state.tx.subscribe()
    next,     \* per client: the receiver's position
    missed,   \* history, per client: tokens skipped by Lagged on this link
    status,   \* per client: autobuy_status, None before the query
    held,     \* per client: the token send_task is writing, or None
    wire,     \* per client: written and not yet read: a status or a token
    autobuy,  \* per client: the client's variable of that name
    handled   \* per client: pairs given to the handler on this link

chanVars == <<sent, next, missed>>
adminVars == <<account, grants>>
linkVars == <<link, links, start, status>>
clientVars == <<autobuy, handled>>
vars == <<chanVars, adminVars, linkVars, held, wire, clientVars>>

LinkPhase == {"off", "opening", "told", "live"}
Info(b) == [autobuy |-> b]
NewToken(m) == [token |-> m]

-----------------------------------------------------------------------------
(* The channel, and what administrators do. *)

\* b_tx.send: it always succeeds, since main keeps a receiver.
Send ==
    /\ sent < MaxSent
    /\ sent' = sent + 1
    /\ UNCHANGED <<next, missed, adminVars, linkVars, held, wire, clientVars>>

\* remove_user and add_user with the same key and another autobuy.
Regrant(c) ==
    /\ grants < MaxGrants
    /\ grants' = grants + 1
    /\ account' = [account EXCEPT ![c] = ~@]
    /\ UNCHANGED <<chanVars, linkVars, held, wire, clientVars>>

-----------------------------------------------------------------------------
(* handle_socket. *)

\* connect_async succeeds; handle_socket subscribes before it awaits anything.
Open(c) ==
    /\ link[c] = "off"
    /\ links[c] < MaxLinks
    /\ link' = [link EXCEPT ![c] = "opening"]
    /\ links' = [links EXCEPT ![c] = @ + 1]
    /\ start' = [start EXCEPT ![c] = sent]
    /\ next' = [next EXCEPT ![c] = sent]
    /\ missed' = [missed EXCEPT ![c] = {}]
    /\ status' = [status EXCEPT ![c] = None]
    /\ handled' = [handled EXCEPT ![c] = <<>>]
    /\ UNCHANGED <<sent, adminVars, held, wire, autobuy>>

\* get_user_autobuy_status; an error counts as "disabled".
ReadStatus(c) ==
    /\ link[c] = "opening" /\ status[c] = None
    /\ \E b \in {account[c], FALSE} : status' = [status EXCEPT ![c] = b]
    /\ UNCHANGED <<chanVars, adminVars, link, links, start, held, wire, clientVars>>

\* Mutated form of SendInfo: it does not wait for the query.
SendInfoUnread(c) ==
    /\ link[c] = "opening"
    /\ link' = [link EXCEPT ![c] = "told"]
    /\ wire' = [wire EXCEPT ![c] = Append(@, Info(status[c]))]
    /\ UNCHANGED <<chanVars, adminVars, links, start, status, held, clientVars>>

\* The connection_info message.
SendInfo(c) ==
    /\ link[c] = "opening" /\ status[c] # None
    /\ link' = [link EXCEPT ![c] = "told"]
    /\ wire' = [wire EXCEPT ![c] = Append(@, Info(status[c]))]
    /\ UNCHANGED <<chanVars, adminVars, links, start, status, held, clientVars>>

\* Mutated form of StartSending: the task does not wait for connection_info.
StartSendingEarly(c) ==
    /\ link[c] \in {"opening", "told"}
    /\ link' = [link EXCEPT ![c] = "live"]
    /\ UNCHANGED <<chanVars, adminVars, links, start, status, held, wire, clientVars>>

\* send_task is spawned.
StartSending(c) ==
    /\ link[c] = "told"
    /\ link' = [link EXCEPT ![c] = "live"]
    /\ UNCHANGED <<chanVars, adminVars, links, start, status, held, wire, clientVars>>

\* The oldest token that the channel still has.
Oldest == IF sent > Capacity THEN sent - Capacity ELSE 0

\* rx_broadcast.recv() yields a token.
Receive(c) ==
    /\ link[c] = "live" /\ held[c] = None
    /\ next[c] \in Oldest .. sent - 1
    /\ held' = [held EXCEPT ![c] = next[c]]
    /\ next' = [next EXCEPT ![c] = @ + 1]
    /\ UNCHANGED <<sent, missed, adminVars, linkVars, wire, clientVars>>

\* Mutated form of Lag: the receiver starts anew at the end of the channel.
LagToEnd(c) ==
    /\ link[c] = "live" /\ held[c] = None
    /\ next[c] < Oldest
    /\ missed' = [missed EXCEPT ![c] = @ \cup (next[c] .. Oldest - 1)]
    /\ next' = [next EXCEPT ![c] = sent]
    /\ UNCHANGED <<sent, adminVars, linkVars, held, wire, clientVars>>

\* rx_broadcast.recv() yields Lagged: the task goes on with the oldest token.
Lag(c) ==
    /\ link[c] = "live" /\ held[c] = None
    /\ next[c] < Oldest
    /\ missed' = [missed EXCEPT ![c] = @ \cup (next[c] .. Oldest - 1)]
    /\ next' = [next EXCEPT ![c] = Oldest]
    /\ UNCHANGED <<sent, adminVars, linkVars, held, wire, clientVars>>

\* sink.send waits until the socket takes the message.
Write(c) ==
    /\ held[c] # None
    /\ Len(wire[c]) < Window
    /\ wire' = [wire EXCEPT ![c] = Append(@, NewToken(held[c]))]
    /\ held' = [held EXCEPT ![c] = None]
    /\ UNCHANGED <<chanVars, adminVars, linkVars, clientVars>>

-----------------------------------------------------------------------------
(* The client, and the link. *)

\* The read loop of Client::subscribe; the handler is awaited.
Read(c) ==
    /\ wire[c] # <<>>
    /\ wire' = [wire EXCEPT ![c] = Tail(@)]
    /\ LET msg == Head(wire[c])
       IN \/ /\ "autobuy" \in DOMAIN msg
             /\ autobuy' = [autobuy EXCEPT ![c] = msg.autobuy]
             /\ handled' = handled
          \/ /\ "token" \in DOMAIN msg
             /\ handled' = [handled EXCEPT ![c] = Append(@, <<msg.token, autobuy[c]>>)]
             /\ autobuy' = autobuy
    /\ UNCHANGED <<chanVars, adminVars, linkVars, held>>

\* The link ends: what was written and not read is lost.  The client reconnects
\* and keeps its autobuy.
Break(c) ==
    /\ link[c] # "off"
    /\ link' = [link EXCEPT ![c] = "off"]
    /\ wire' = [wire EXCEPT ![c] = <<>>]
    /\ held' = [held EXCEPT ![c] = None]
    /\ UNCHANGED <<chanVars, adminVars, links, start, status, clientVars>>

-----------------------------------------------------------------------------
Init ==
    /\ sent = 0
    /\ account \in [Clients -> BOOLEAN]
    /\ grants = 0
    /\ link = [c \in Clients |-> "off"]
    /\ links = [c \in Clients |-> 0]
    /\ start = [c \in Clients |-> 0]
    /\ next = [c \in Clients |-> 0]
    /\ missed = [c \in Clients |-> {}]
    /\ status = [c \in Clients |-> None]
    /\ held = [c \in Clients |-> None]
    /\ wire = [c \in Clients |-> <<>>]
    /\ autobuy = [c \in Clients |-> FALSE]
    /\ handled = [c \in Clients |-> <<>>]

Server(c) ==
    \/ ReadStatus(c) \/ SendInfo(c) \/ StartSending(c)
    \/ Receive(c) \/ Lag(c) \/ Write(c)

Next ==
    \/ Send
    \/ \E c \in Clients : Server(c) \/ Open(c) \/ Read(c) \/ Break(c) \/ Regrant(c)

Spec == Init /\ [][Next]_vars

\* Tasks are scheduled, and a client whose link holds reads what arrives.
Fairness == \A c \in Clients : WF_vars(Server(c)) /\ WF_vars(Read(c))

FairSpec == Spec /\ Fairness

-----------------------------------------------------------------------------
(* Properties. *)

TypeOK ==
    /\ sent \in Nat /\ grants \in Nat
    /\ account \in [Clients -> BOOLEAN]
    /\ link \in [Clients -> LinkPhase]
    /\ links \in [Clients -> Nat]
    /\ start \in [Clients -> Nat]
    /\ next \in [Clients -> Nat]
    /\ missed \in [Clients -> SUBSET Nat]
    /\ status \in [Clients -> BOOLEAN \cup {None}]
    /\ held \in [Clients -> Nat \cup {None}]
    /\ wire \in [Clients -> Seq([autobuy : BOOLEAN] \cup [token : Nat])]
    /\ autobuy \in [Clients -> BOOLEAN]
    /\ handled \in [Clients -> Seq(Nat \X BOOLEAN)]

\* What link c has yielded, in its order on the way to the handler: handled, on
\* the wire, in the hands of send_task.
IsToken(msg) == "token" \in DOMAIN msg
Stream(c) ==
    [i \in 1 .. Len(handled[c]) |-> NewToken(handled[c][i][1])]
    \o wire[c]
    \o IF held[c] = None THEN <<>> ELSE <<NewToken(held[c])>>

TokenPlaces(s) == {i \in 1 .. Len(s) : IsToken(s[i])}
TokensOf(s) == {s[i].token : i \in TokenPlaces(s)}
Increasing(s) == \A i, j \in TokenPlaces(s) : i < j => s[i].token < s[j].token

\* On a link, tokens are forwarded in the order of the broadcast, none twice,
\* and each token broadcast since the subscription is forwarded or was reported
\* as lagged, never both (handle_socket, tokio's broadcast channel).
NothingLostSilently ==
    \A c \in Clients : link[c] # "off" =>
        /\ Increasing(Stream(c))
        /\ TokensOf(Stream(c)) \cap missed[c] = {}
        /\ TokensOf(Stream(c)) \cup missed[c] = start[c] .. next[c] - 1

\* The client handles every token with the status the server read for this very
\* link, never with the one it remembers from an earlier link: connection_info
\* comes before the first token.
StatusOfThisLink ==
    \A c \in Clients : link[c] # "off" =>
        \A i \in 1 .. Len(handled[c]) : handled[c][i][2] = status[c]

\* As long as its link holds, a client is given every token or the server has
\* reported it as lagged: a slow client is never left behind for good.
TokensArrive ==
    \A c \in Clients, m \in 0 .. MaxSent - 1 :
        (link[c] # "off" /\ start[c] <= m /\ m < sent) ~>
            \/ link[c] = "off" \/ m < start[c]
            \/ m \in missed[c]
            \/ \E i \in 1 .. Len(handled[c]) : handled[c][i][1] = m
=============================================================================
