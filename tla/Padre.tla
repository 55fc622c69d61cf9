-------------------------------- MODULE Padre --------------------------------
(***************************************************************************)
(* PadreClient (tokenir_ui/src/migration.rs): the desktop client asks the  *)
(* Padre service for a developer's history over one websocket.  A call     *)
(* registers a oneshot under a fresh sequence number, puts its request     *)
(* into a bounded queue and waits up to five seconds.  A task owned by no  *)
(* call, the loop, moves requests from the queue to the websocket and      *)
(* answers from the websocket to the oneshots, and reconnects for ever.    *)
(* It answers the service's keep-alives through the same queue, of which   *)
(* it is the only reader.                                                  *)
(*                                                                         *)
(* The subscription awaits the handling of each token before it reads the  *)
(* next one (tokenir_ui/src/fetcher.rs), so there is one call at a time.   *)
(***************************************************************************)
EXTENDS Naturals, Sequences

CONSTANTS
    Devs,       \* developers that are asked about
    Capacity,   \* of the queue; 100 in the code
    MaxCalls,   \* bound: calls of get_dev_history
    MaxPings,   \* bound: keep-alives of the service
    Echo,       \* a keep-alive in the queue
    None

ASSUME PadreAssumption ==
    /\ Capacity \in Nat \ {0}
    /\ MaxCalls \in Nat
    /\ MaxPings \in Nat
    /\ None \notin Devs
    /\ Devs # {} /\ Devs \cap {"empty", "dropped"} = {}

VARIABLES
    loop,      \* the loop: "down", "up", or "echoing" (awaiting loop_tx.send)
    queue,     \* the mpsc channel between tx and rx
    pending,   \* pending_requests: sequence numbers with a oneshot sender
    nextSeq,   \* next_seq, from 0 here
    inflight,  \* requests that the service may still answer on this link
    call,      \* the current call: [pc, seq, dev]
    slot,      \* its oneshot: "empty", "dropped", or the developer answered about
    result,    \* what the last call returned: a developer, or None
    pings      \* keep-alives received

vars == <<loop, queue, pending, nextSeq, inflight, call, slot, result, pings>>

Request == [seq : Nat, dev : Devs]
CallPhase == {"idle", "sending", "waiting"}

\* Mutated form of HasRoom: the queue takes one more than it has room for.
HasRoomForOneMore == Len(queue) <= Capacity
HasRoom == Len(queue) < Capacity

-----------------------------------------------------------------------------
(* get_dev_history. *)

\* Mutated form of Begin: every call has the same sequence number.
BeginSameSeq(d) ==
    /\ call.pc = "idle"
    /\ nextSeq < MaxCalls
    /\ call' = [pc |-> "sending", seq |-> nextSeq, dev |-> d]
    /\ pending' = pending \cup {nextSeq}
    /\ slot' = "empty"
    /\ UNCHANGED <<loop, queue, nextSeq, inflight, result, pings>>

\* fetch_add, the oneshot, pending_requests.insert.
Begin(d) ==
    /\ call.pc = "idle"
    /\ nextSeq < MaxCalls
    /\ call' = [pc |-> "sending", seq |-> nextSeq, dev |-> d]
    /\ nextSeq' = nextSeq + 1
    /\ pending' = pending \cup {nextSeq}
    /\ slot' = "empty"
    /\ UNCHANGED <<loop, queue, inflight, result, pings>>

\* self.tx.send(..).await: waits, without a limit, until the queue has room.
Enqueue ==
    /\ call.pc = "sending"
    /\ HasRoom
    /\ queue' = Append(queue, [seq |-> call.seq, dev |-> call.dev])
    /\ call' = [call EXCEPT !.pc = "waiting"]
    /\ UNCHANGED <<loop, pending, nextSeq, inflight, slot, result, pings>>

\* The oneshot has been answered, or its sender was dropped.
Return ==
    /\ call.pc = "waiting"
    /\ slot # "empty"
    /\ call' = [call EXCEPT !.pc = "idle"]
    /\ result' = IF slot = "dropped" THEN None ELSE slot
    /\ UNCHANGED <<loop, queue, pending, nextSeq, inflight, slot, pings>>

\* Mutated form of Timeout: it happens only while the link is down.
TimeoutOnlyWhenDown ==
    /\ call.pc = "waiting"
    /\ slot = "empty"
    /\ loop = "down"
    /\ call' = [call EXCEPT !.pc = "idle"]
    /\ result' = None
    /\ UNCHANGED <<loop, queue, pending, nextSeq, inflight, slot, pings>>

\* Five seconds have passed; the entry in pending_requests stays.
Timeout ==
    /\ call.pc = "waiting"
    /\ slot = "empty"
    /\ call' = [call EXCEPT !.pc = "idle"]
    /\ result' = None
    /\ UNCHANGED <<loop, queue, pending, nextSeq, inflight, slot, pings>>

-----------------------------------------------------------------------------
(* The loop. *)

Connect ==
    /\ loop = "down"
    /\ loop' = "up"
    /\ UNCHANGED <<queue, pending, nextSeq, inflight, call, slot, result, pings>>

\* rx.recv and ws_writer.send.
Forward ==
    /\ loop = "up"
    /\ queue # <<>>
    /\ queue' = Tail(queue)
    /\ inflight' = IF Head(queue) = Echo THEN inflight
                   ELSE inflight \cup {Head(queue)}
    /\ UNCHANGED <<loop, pending, nextSeq, call, slot, result, pings>>

\* ws_writer.send fails: the message taken from the queue is lost.
ForwardFails ==
    /\ loop = "up"
    /\ queue # <<>>
    /\ queue' = Tail(queue)
    /\ loop' = "down"
    /\ inflight' = {}
    /\ UNCHANGED <<pending, nextSeq, call, slot, result, pings>>

\* An answer: the oneshot registered under its number is removed and answered.
\* An answer that does not parse drops the sender.  Sending to a call that has
\* timed out fails without effect.
Answer(r) ==
    /\ loop = "up"
    /\ r \in inflight
    /\ inflight' = inflight \ {r}
    /\ pending' = pending \ {r.seq}
    /\ \/ /\ r.seq \in pending
          /\ r.seq = call.seq /\ call.pc # "idle"
          /\ \/ slot' = r.dev
             \/ slot' = "dropped"
       \/ /\ ~(r.seq \in pending /\ r.seq = call.seq /\ call.pc # "idle")
          /\ slot' = slot
    /\ UNCHANGED <<loop, queue, nextSeq, call, result, pings>>

\* A binary message of at most two bytes.
Ping ==
    /\ loop = "up"
    /\ pings < MaxPings
    /\ pings' = pings + 1
    /\ loop' = "echoing"
    /\ UNCHANGED <<queue, pending, nextSeq, inflight, call, slot, result>>

\* loop_tx.send(..).await, by the task that alone empties the queue.
PutEcho ==
    /\ loop = "echoing"
    /\ HasRoom
    /\ queue' = Append(queue, Echo)
    /\ loop' = "up"
    /\ UNCHANGED <<pending, nextSeq, inflight, call, slot, result, pings>>

\* The link ends, or a message that is not binary arrives.
Disconnect ==
    /\ loop = "up"
    /\ loop' = "down"
    /\ inflight' = {}
    /\ UNCHANGED <<queue, pending, nextSeq, call, slot, result, pings>>

-----------------------------------------------------------------------------
Init ==
    /\ loop = "down"
    /\ queue = <<>>
    /\ pending = {}
    /\ nextSeq = 0
    /\ inflight = {}
    /\ call = [pc |-> "idle", seq |-> 0, dev |-> CHOOSE d \in Devs : TRUE]
    /\ slot = "empty"
    /\ result = None
    /\ pings = 0

Next ==
    \/ \E d \in Devs : Begin(d)
    \/ Enqueue \/ Return \/ Timeout
    \/ Connect \/ Forward \/ ForwardFails \/ Disconnect
    \/ \E r \in inflight : Answer(r)
    \/ Ping \/ PutEcho

Spec == Init /\ [][Next]_vars

(***************************************************************************)
(* Fairness.  The timer fires, the tasks are scheduled, and the loop's     *)
(* reconnecting succeeds again and again.  select! picks its branches in   *)
(* random order, so a queue that is not empty whenever the link is up is   *)
(* served in the end, successfully or not: strong fairness.  The service   *)
(* owes no answer.                                                         *)
(***************************************************************************)
Fairness ==
    /\ WF_vars(Enqueue) /\ WF_vars(Return \/ Timeout)
    /\ WF_vars(Connect) /\ WF_vars(PutEcho)
    /\ SF_vars(Forward \/ ForwardFails)

FairSpec == Spec /\ Fairness

-----------------------------------------------------------------------------
(* Properties. *)

TypeOK ==
    /\ loop \in {"down", "up", "echoing"}
    /\ queue \in Seq(Request \cup {Echo}) /\ Len(queue) <= Capacity
    /\ pending \subseteq Nat
    /\ nextSeq \in Nat
    /\ inflight \subseteq Request
    /\ call \in [pc : CallPhase, seq : Nat, dev : Devs]
    /\ slot \in Devs \cup {"empty", "dropped"}
    /\ result \in Devs \cup {None}
    /\ pings \in Nat

\* A call is given the history of the developer it asked about or nothing: the
\* late answer to an earlier call that has timed out, whose request may have
\* waited in the queue through a reconnection, never reaches a later call.
AnswersMatch ==
    call.pc = "waiting" /\ slot \in Devs => slot = call.dev

\* Every call ends, so the subscription goes on to the next token, whatever the
\* service answers and although a long disconnection may fill the queue, unless
\* the loop waits for room in the queue that it alone empties.
SelfBlocked == loop = "echoing" /\ ~HasRoom
CallsEnd == call.pc # "idle" ~> (call.pc = "idle" \/ SelfBlocked)

-----------------------------------------------------------------------------
(* What the code's comments say, which the code does not do. *)

\* "This will buffer messages even if the connection is currently down"
\* (get_dev_history): handing the request to the queue ends.  With a full queue
\* and the loop waiting to put an echo into it, it does not.
BufferingEnds == call.pc = "sending" ~> call.pc # "sending"
=============================================================================
