-------------------------------- MODULE Feeds --------------------------------
(***************************************************************************)
(* The server's connections to the chain (tokenir/src/fetcher.rs), as main *)
(* uses them:                                                              *)
(*   - the log subscriptions (subscribe_to_websocket), started in pairs by *)
(*     subscribe_to_pump for saving and analysing; a heartbeat task pings  *)
(*     beside each read loop;                                              *)
(*   - the shred stream (subscribe_jito) for serving, which never writes   *)
(*     after it has subscribed.                                            *)
(* Each is a loop that connects, subscribes, reads until the stream ends,  *)
(* and starts over.  A link may end, or fall silent: the other side is     *)
(* gone and no segment says so.  What the callbacks do with an event is    *)
(* the subject of TokenPipeline, except that a trade is awaited by the     *)
(* read loop.                                                              *)
(* subscribe_new_tokens is called by nobody and left out.                  *)
(***************************************************************************)
EXTENDS Naturals, Sequences, FiniteSets

CONSTANTS
    Logs,       \* the log subscriptions
    Shreds,     \* the shred streams
    Events,     \* what an event may be: [kind, feeds], see Event
    MaxEvents,  \* bound: events of the chain
    MaxLinks    \* bound: links per feed

Feeds == Logs \cup Shreds

(***************************************************************************)
(* An event: its kind, and the feeds whose subscription it matches.  A     *)
(* transaction that mentions both programs comes in both log streams.      *)
(* "create" and "trade" are what the callbacks act on, "other" is what     *)
(* does not decode or is ignored; "empty" is a trade whose reserves are 0. *)
(***************************************************************************)
Kind == {"create", "trade", "empty", "other"}
Event == [kind : Kind, feeds : SUBSET Feeds]

ASSUME FeedsAssumption ==
    /\ Logs \cap Shreds = {}
    /\ Events \subseteq Event
    /\ MaxEvents \in Nat
    /\ MaxLinks \in Nat

VARIABLES
    chain,     \* the events so far
    phase,     \* per feed: where its loop is
    links,     \* per feed: links so far; the last one is the current one
    tcp,       \* per feed: its link: "none", "up", "silent" or "ended"
    unacked,   \* per feed: something was written on a silent link
    wire,      \* per feed: positions of the chain sent and not yet read
    beats,     \* per feed: links whose heartbeat task runs
    reported   \* history, per feed: positions given to the callback

linkVars == <<links, tcp, unacked>>
vars == <<chain, phase, linkVars, wire, beats, reported>>

\* "connecting" includes the pause before a retry; "handling": the callback's
\* query is awaited; "panicked": the task is gone.
Phase == {"connecting", "subscribing", "reading", "handling", "panicked"}

Set(fun, f, x) == [fun EXCEPT ![f] = x]

-----------------------------------------------------------------------------
(* The chain and the network. *)

\* The node pushes an event to those that have subscribed; what it sends on a
\* silent link is lost.
Happen(e) ==
    /\ Len(chain) < MaxEvents
    /\ chain' = Append(chain, e)
    /\ wire' = [f \in Feeds |->
                  IF f \in e.feeds /\ tcp[f] = "up" /\ phase[f] \in {"reading", "handling"}
                  THEN Append(wire[f], Len(chain) + 1)
                  ELSE wire[f]]
    /\ UNCHANGED <<phase, linkVars, beats, reported>>

\* The node closes the link, or resets it.
End(f) ==
    /\ tcp[f] = "up"
    /\ tcp' = Set(tcp, f, "ended")
    /\ UNCHANGED <<chain, phase, links, unacked, wire, beats, reported>>

\* The node or the path is gone; what has not arrived is lost.  The request of
\* a shred stream may have been acknowledged by then.
FallSilent(f) ==
    /\ tcp[f] = "up"
    /\ tcp' = Set(tcp, f, "silent")
    /\ \E n \in 0 .. Len(wire[f]) : wire' = Set(wire, f, SubSeq(wire[f], 1, n))
    /\ \E pending \in {FALSE, phase[f] = "subscribing" /\ f \in Shreds} :
          unacked' = Set(unacked, f, pending)
    /\ UNCHANGED <<chain, phase, links, beats, reported>>

\* The kernel gives up retransmitting: reads and writes fail from now on.
GiveUp(f) ==
    /\ tcp[f] = "silent" /\ unacked[f]
    /\ tcp' = Set(tcp, f, "ended")
    /\ UNCHANGED <<chain, phase, links, unacked, wire, beats, reported>>

-----------------------------------------------------------------------------
(* The loops. *)

\* connect_async or ShredstreamProxyClient::connect succeeds, some time after
\* the loop has begun anew; a failure leads back here.
Connect(f) ==
    /\ phase[f] = "connecting"
    /\ links[f] < MaxLinks
    /\ phase' = Set(phase, f, "subscribing")
    /\ links' = Set(links, f, links[f] + 1)
    /\ tcp' = Set(tcp, f, "up")
    /\ unacked' = Set(unacked, f, FALSE)
    /\ UNCHANGED <<chain, wire, beats, reported>>

\* Mutated form: no heartbeat.
StartReadingOnly(f) ==
    /\ phase' = Set(phase, f, "reading")
    /\ beats' = beats

\* The read loop starts, and beside it the heartbeat of a log subscription.
StartReading(f) ==
    /\ phase' = Set(phase, f, "reading")
    /\ beats' = IF f \in Logs THEN Set(beats, f, beats[f] \cup {links[f]}) ELSE beats

\* The loop is done with its link.
Retry(f) ==
    /\ phase' = Set(phase, f, "connecting")
    /\ tcp' = Set(tcp, f, "none")

\* The request of a log subscription is written, which succeeds on a silent
\* link as well; subscribe_entries waits for an answer.
Subscribe(f) ==
    /\ phase[f] = "subscribing"
    /\ f \in Logs \/ tcp[f] = "up"
    /\ tcp[f] # "ended"
    /\ StartReading(f)
    /\ unacked' = Set(unacked, f, tcp[f] = "silent")
    /\ UNCHANGED <<chain, links, tcp, wire, reported>>

SubscribeFails(f) ==
    /\ phase[f] = "subscribing"
    /\ tcp[f] = "ended"
    /\ Retry(f)
    /\ UNCHANGED <<chain, links, unacked, wire, beats, reported>>

Kindof(f) == chain[Head(wire[f])].kind

\* The callback is given the event.
Report(f) ==
    /\ wire[f] # <<>>
    /\ wire' = Set(wire, f, Tail(wire[f]))
    /\ reported' = Set(reported, f, Append(reported[f], Head(wire[f])))

\* A creation: the callback spawns a job and returns.
ReadCreation(f) ==
    /\ phase[f] = "reading"
    /\ wire[f] # <<>> /\ Kindof(f) = "create"
    /\ Report(f)
    /\ UNCHANGED <<chain, phase, linkVars, beats>>

\* A trade in the logs: the read loop waits for update_token_ath.
ReadTrade(f) ==
    /\ phase[f] = "reading" /\ f \in Logs
    /\ wire[f] # <<>> /\ Kindof(f) = "trade"
    /\ Report(f)
    /\ phase' = Set(phase, f, "handling")
    /\ UNCHANGED <<chain, linkVars, beats>>

\* Mutated form: the loop reads the message again when the query has failed.
TradeRetried(f) ==
    /\ phase[f] = "handling"
    /\ phase' = Set(phase, f, "reading")
    /\ \E again \in BOOLEAN :
          wire' = IF again THEN Set(wire, f, <<reported[f][Len(reported[f])]>> \o wire[f])
                  ELSE wire
    /\ UNCHANGED <<chain, linkVars, beats, reported>>

\* The query ends, with or without an error.
TradeHandled(f) ==
    /\ phase[f] = "handling"
    /\ phase' = Set(phase, f, "reading")
    /\ UNCHANGED <<chain, linkVars, wire, beats, reported>>

\* What does not decode, sales, and trades in the shreds.
Skip(f) ==
    /\ phase[f] = "reading"
    /\ wire[f] # <<>>
    /\ Kindof(f) = "other" \/ (f \in Shreds /\ Kindof(f) # "create")
    /\ wire' = Set(wire, f, Tail(wire[f]))
    /\ UNCHANGED <<chain, phase, linkVars, beats, reported>>

\* usd_mcap divides by the reserves.  The task ends and its JoinHandle resolves;
\* subscribe_to_pump returns and drops the handle of the other subscription,
\* which goes on.  So does the heartbeat, on a link that nobody reads.
Panic(f) ==
    /\ phase[f] = "reading" /\ f \in Logs
    /\ wire[f] # <<>> /\ Kindof(f) = "empty"
    /\ Report(f)
    /\ phase' = Set(phase, f, "panicked")
    /\ UNCHANGED <<chain, linkVars, beats>>

\* Mutated form: the heartbeat is not aborted.
StopReadingOnly(f) ==
    /\ phase[f] = "reading"
    /\ wire[f] = <<>> /\ tcp[f] = "ended"
    /\ Retry(f)
    /\ UNCHANGED <<chain, links, unacked, wire, beats, reported>>

\* The stream ends or yields an error, after all that had arrived; the
\* heartbeat is aborted.
StopReading(f) ==
    /\ phase[f] = "reading"
    /\ wire[f] = <<>> /\ tcp[f] = "ended"
    /\ Retry(f)
    /\ beats' = Set(beats, f, beats[f] \ {links[f]})
    /\ UNCHANGED <<chain, links, unacked, wire, reported>>

\* A tick of the heartbeat of link n: on a silent link the ping stays
\* unacknowledged, on one that has ended it fails and the task ends.
Beat(f, n) ==
    /\ n \in beats[f]
    /\ \/ /\ n = links[f] /\ tcp[f] = "silent"
          /\ unacked' = Set(unacked, f, TRUE)
          /\ beats' = beats
       \/ /\ n < links[f] \/ tcp[f] \in {"ended", "none"}
          /\ beats' = Set(beats, f, beats[f] \ {n})
          /\ unacked' = unacked
    /\ UNCHANGED <<chain, phase, links, tcp, wire, reported>>

-----------------------------------------------------------------------------
Init ==
    /\ chain = <<>>
    /\ phase = [f \in Feeds |-> "connecting"]
    /\ links = [f \in Feeds |-> 0]
    /\ tcp = [f \in Feeds |-> "none"]
    /\ unacked = [f \in Feeds |-> FALSE]
    /\ wire = [f \in Feeds |-> <<>>]
    /\ beats = [f \in Feeds |-> {}]
    /\ reported = [f \in Feeds |-> <<>>]

Read(f) == ReadCreation(f) \/ ReadTrade(f) \/ TradeHandled(f) \/ Skip(f) \/ Panic(f)

Loop(f) == Connect(f) \/ Subscribe(f) \/ SubscribeFails(f) \/ Read(f) \/ StopReading(f)

Heartbeat(f) == \E n \in beats[f] : Beat(f, n)

Next ==
    \/ \E e \in Events : Happen(e)
    \/ \E f \in Feeds : Loop(f) \/ Heartbeat(f) \/ End(f) \/ FallSilent(f) \/ GiveUp(f)

Spec == Init /\ [][Next]_vars

(***************************************************************************)
(* Fairness.  The tasks are scheduled, a later attempt to connect succeeds *)
(* and queries end.  The interval of a heartbeat fires; TCP gives up on    *)
(* segments that nobody acknowledges.  Nodes and networks owe nothing.     *)
(***************************************************************************)
Fairness ==
    \A f \in Feeds : WF_vars(Loop(f)) /\ WF_vars(Heartbeat(f)) /\ WF_vars(GiveUp(f))

FairSpec == Spec /\ Fairness

-----------------------------------------------------------------------------
(* Properties. *)

TypeOK ==
    /\ chain \in Seq(Events) /\ Len(chain) <= MaxEvents
    /\ phase \in [Feeds -> Phase]
    /\ links \in [Feeds -> 0 .. MaxLinks]
    /\ tcp \in [Feeds -> {"none", "up", "silent", "ended"}]
    /\ unacked \in [Feeds -> BOOLEAN]
    /\ wire \in [Feeds -> Seq(1 .. Len(chain))]
    /\ beats \in [Feeds -> SUBSET (1 .. MaxLinks)]
    /\ reported \in [Feeds -> Seq(1 .. Len(chain))]

(***************************************************************************)
(* However often a subscription has reconnected, it has one heartbeat at   *)
(* most, that of its current link; it has one whenever it listens on a     *)
(* link that can still fall silent, and none between two links.            *)
(***************************************************************************)
OneHeartbeat ==
    \A f \in Feeds :
      /\ beats[f] \subseteq {links[f]}
      /\ phase[f] = "connecting" => beats[f] = {}
      /\ f \in Logs /\ phase[f] \in {"reading", "handling"} /\ tcp[f] # "ended"
           => beats[f] = {links[f]}

\* A subscription's links, and its heartbeat beside them, are as they should be.
FeedsInv == TypeOK /\ OneHeartbeat

(***************************************************************************)
(* Whatever happens to its links, a feed reports no event twice and none   *)
(* out of order: no link repeats what an earlier one has sent, and no      *)
(* message is handled again when its query has failed.                     *)
(***************************************************************************)
Abstract == INSTANCE EventFeed

FeedSpec == Abstract!Spec

(***************************************************************************)
(* A link that has ended is replaced by another, and so is one that has    *)
(* fallen silent under a subscription to the logs, which only its          *)
(* heartbeat can find out.  (A shred stream on a silent link waits for     *)
(* ever.)                                                                  *)
(***************************************************************************)
LostLinksReplaced ==
    \A f \in Feeds :
      tcp[f] = "ended" \/ (tcp[f] = "silent" /\ f \in Logs)
        ~> tcp[f] = "up" \/ phase[f] = "panicked" \/ links[f] = MaxLinks
=============================================================================
