------------------------------ MODULE PadreProofs ------------------------------
(***************************************************************************)
(* Theorems about Padre, for every set of developers, every capacity of    *)
(* the queue and any number of calls and keep-alives.                      *)
(***************************************************************************)
EXTENDS Padre, TLAPS

(***************************************************************************)
(* The inductive invariant.  A sequence number is never used again, so a   *)
(* request that bears the number of the current call, in the queue or on   *)
(* the link, is that call's own request, however many calls timed out and  *)
(* however often the link was lost since others were put into the queue.   *)
(***************************************************************************)
Own(r) ==
    /\ r.seq < nextSeq
    /\ call.pc # "idle" /\ r.seq = call.seq => r.dev = call.dev

PadreInv ==
    /\ TypeOK
    /\ call.pc # "idle" => call.seq < nextSeq
    /\ \A i \in 1 .. Len(queue) : queue[i] # Echo => queue[i] \in Request /\ Own(queue[i])
    /\ \A r \in inflight : Own(r)
    /\ call.pc # "idle" /\ slot \in Devs => slot = call.dev

Messages == Request \cup {Echo}

\* What remains of a queue after its head was taken.
LEMMA TailPart ==
  ASSUME NEW q \in Seq(Messages), q # <<>>
  PROVE  /\ Head(q) = q[1] /\ 1 \in 1 .. Len(q)
         /\ Tail(q) \in Seq(Messages) /\ Len(Tail(q)) = Len(q) - 1
         /\ \A i \in 1 .. Len(Tail(q)) : i + 1 \in 1 .. Len(q) /\ Tail(q)[i] = q[i + 1]
OBVIOUS

LEMMA AppendPart ==
  ASSUME NEW q \in Seq(Messages), NEW m \in Messages
  PROVE  /\ Append(q, m) \in Seq(Messages) /\ Len(Append(q, m)) = Len(q) + 1
         /\ \A i \in 1 .. Len(Append(q, m)) :
               \/ i \in 1 .. Len(q) /\ Append(q, m)[i] = q[i]
               \/ Append(q, m)[i] = m
OBVIOUS

\* A message taken from the queue: only its requests reach the link.
LEMMA TakePreserves ==
  ASSUME PadreInv, queue # <<>>, queue' = Tail(queue),
         inflight' = {} \/ inflight' = inflight \cup ({Head(queue)} \ {Echo}),
         loop' \in {"down", "up", "echoing"},
         UNCHANGED <<pending, nextSeq, call, slot, result, pings>>
  PROVE  PadreInv'
<1> USE DEF Messages
<1>1. queue \in Seq(Messages)
  BY DEF PadreInv, TypeOK
<1>2. \A r \in {Head(queue)} \ {Echo} : r \in Request /\ Own(r)
  BY <1>1, TailPart DEF PadreInv
<1>3. Len(queue') <= Capacity
  BY <1>1, TailPart, PadreAssumption DEF PadreInv, TypeOK
<1>4. TypeOK'
  BY <1>1, <1>2, <1>3, TailPart DEF PadreInv, TypeOK
<1>5. \A i \in 1 .. Len(queue') : queue'[i] # Echo => queue'[i] \in Request /\ Own(queue'[i])
  BY <1>1, TailPart DEF PadreInv
<1>6. \A r : Own(r)' <=> Own(r)
  BY DEF Own
<1>7. QED
  BY <1>2, <1>4, <1>5, <1>6 DEF PadreInv

LEMMA CallPreserves ==
  ASSUME PadreInv, (\E d \in Devs : Begin(d)) \/ Enqueue \/ Return \/ Timeout
  PROVE  PadreInv'
<1> USE PadreAssumption
<1>1. ASSUME NEW d \in Devs, Begin(d) PROVE PadreInv'
  <2>1. TypeOK'
    BY <1>1 DEF Begin, PadreInv, TypeOK, CallPhase
  <2>2. \A r \in Request : Own(r) => Own(r)'
    BY <1>1 DEF Begin, PadreInv, TypeOK, Own, Request
  <2>3. /\ call'.seq < nextSeq' /\ slot' \notin Devs
        /\ UNCHANGED <<queue, inflight>>
    BY <1>1 DEF Begin, PadreInv, TypeOK
  <2>4. QED
    BY <2>1, <2>2, <2>3 DEF PadreInv, TypeOK
<1>2. CASE Enqueue
  <2> DEFINE m == [seq |-> call.seq, dev |-> call.dev]
  <2>1. m \in Request /\ m \in Messages /\ queue \in Seq(Messages)
    BY DEF PadreInv, TypeOK, Request, Messages
  <2>2. queue' = Append(queue, m) /\ call' = [call EXCEPT !.pc = "waiting"]
        /\ call.pc = "sending"
        /\ UNCHANGED <<loop, pending, nextSeq, inflight, slot, result, pings>>
    BY <1>2 DEF Enqueue
  <2>3. TypeOK'
    <3>1. Len(queue') <= Capacity
      BY <1>2, <2>1, AppendPart DEF Enqueue, HasRoom
    <3>2. QED
      BY <2>1, <2>2, <3>1, AppendPart DEF PadreInv, TypeOK, CallPhase, Messages
  <2>4. \A r : Own(r)' <=> Own(r)
    BY <2>2 DEF Own, PadreInv, TypeOK
  <2>5. Own(m)
    BY <2>2 DEF Own, PadreInv
  <2>6. \A i \in 1 .. Len(queue') : queue'[i] # Echo => queue'[i] \in Request /\ Own(queue'[i])
    BY <2>1, <2>2, <2>5, AppendPart DEF PadreInv
  <2>7. call'.seq = call.seq /\ call'.dev = call.dev
    BY <2>2 DEF PadreInv, TypeOK
  <2>8. QED
    BY <2>2, <2>3, <2>4, <2>6, <2>7 DEF PadreInv
<1>3. CASE Return \/ Timeout
  <2>1. call' = [call EXCEPT !.pc = "idle"] /\ call'.pc = "idle"
    BY <1>3 DEF Return, Timeout, PadreInv, TypeOK
  <2>2. UNCHANGED <<loop, queue, pending, nextSeq, inflight, slot, pings>>
    BY <1>3 DEF Return, Timeout
  <2>3. TypeOK'
    BY <1>3, <2>1, <2>2 DEF Return, Timeout, PadreInv, TypeOK, CallPhase
  <2>4. \A r : Own(r) => Own(r)'
    BY <2>1, <2>2 DEF Own
  <2>5. QED
    BY <2>1, <2>2, <2>3, <2>4 DEF PadreInv
<1>4. QED
  BY <1>1, <1>2, <1>3

LEMMA LoopPreserves ==
  ASSUME PadreInv,
         \/ Connect \/ Forward \/ ForwardFails \/ Disconnect \/ Ping \/ PutEcho
         \/ \E r \in inflight : Answer(r)
  PROVE  PadreInv'
<1> USE PadreAssumption
<1>1. CASE Connect \/ Disconnect \/ Ping
  <2>1. /\ UNCHANGED <<queue, pending, nextSeq, call, slot, result>>
        /\ inflight' \subseteq inflight
        /\ loop' \in {"down", "up", "echoing"} /\ pings' \in Nat
    BY <1>1 DEF Connect, Disconnect, Ping, PadreInv, TypeOK
  <2>2. TypeOK'
    BY <2>1 DEF PadreInv, TypeOK
  <2>3. \A r : Own(r)' <=> Own(r)
    BY <2>1 DEF Own
  <2>4. QED
    BY <2>1, <2>2, <2>3 DEF PadreInv
<1>2. CASE Forward \/ ForwardFails
  <2>1. /\ queue # <<>> /\ queue' = Tail(queue)
        /\ loop' \in {"down", "up", "echoing"}
        /\ UNCHANGED <<pending, nextSeq, call, slot, result, pings>>
    BY <1>2 DEF Forward, ForwardFails, PadreInv, TypeOK
  <2>2. inflight' = {} \/ inflight' = inflight \cup ({Head(queue)} \ {Echo})
    BY <1>2 DEF Forward, ForwardFails
  <2>3. QED
    BY <2>1, <2>2, TakePreserves
<1>3. CASE PutEcho
  <2>1. queue \in Seq(Messages) /\ Echo \in Messages
    BY DEF PadreInv, TypeOK, Messages
  <2>2. /\ queue' = Append(queue, Echo) /\ loop' = "up"
        /\ UNCHANGED <<pending, nextSeq, inflight, call, slot, result, pings>>
    BY <1>3 DEF PutEcho
  <2>3. TypeOK'
    <3>1. Len(queue') <= Capacity
      BY <1>3, <2>1, AppendPart DEF PutEcho, HasRoom
    <3>2. QED
      BY <2>1, <2>2, <3>1, AppendPart DEF PadreInv, TypeOK, Messages
  <2>4. \A r : Own(r)' <=> Own(r)
    BY <2>2 DEF Own
  <2>5. \A i \in 1 .. Len(queue') : queue'[i] # Echo => queue'[i] \in Request /\ Own(queue'[i])
    BY <2>1, <2>2, AppendPart DEF PadreInv
  <2>6. QED
    BY <2>2, <2>3, <2>4, <2>5 DEF PadreInv
<1>4. ASSUME NEW r \in inflight, Answer(r) PROVE PadreInv'
  <2>1. /\ r \in Request /\ Own(r)
        /\ inflight' = inflight \ {r} /\ pending' = pending \ {r.seq}
        /\ UNCHANGED <<loop, queue, nextSeq, call, result, pings>>
    BY <1>4 DEF Answer, PadreInv, TypeOK
  <2>2. \/ slot' = slot \/ slot' = "dropped"
        \/ slot' = r.dev /\ r.seq = call.seq /\ call.pc # "idle"
    BY <1>4 DEF Answer
  <2>3. TypeOK'
    BY <2>1, <2>2 DEF PadreInv, TypeOK, Request
  <2>4. call.pc # "idle" /\ slot' \in Devs => slot' = call.dev
    BY <2>1, <2>2 DEF PadreInv, Own
  <2>5. \A x : Own(x)' <=> Own(x)
    BY <2>1 DEF Own
  <2>6. QED
    BY <2>1, <2>3, <2>4, <2>5 DEF PadreInv
<1>5. QED
  BY <1>1, <1>2, <1>3, <1>4

LEMMA PadreInvariant == Spec => []PadreInv
<1>1. Init => PadreInv
  <2> SUFFICES ASSUME Init PROVE PadreInv
    OBVIOUS
  <2>1. (CHOOSE d \in Devs : TRUE) \in Devs
    BY PadreAssumption
  <2>2. QED
    BY <2>1, PadreAssumption DEF Init, PadreInv, TypeOK, CallPhase
<1>2. PadreInv /\ [Next]_vars => PadreInv'
  <2> SUFFICES ASSUME PadreInv, [Next]_vars PROVE PadreInv'
    OBVIOUS
  <2>1. CASE UNCHANGED vars
    BY <2>1 DEF vars, PadreInv, TypeOK, Own
  <2>2. QED
    BY <2>1, CallPreserves, LoopPreserves DEF Next
<1>3. QED
  BY <1>1, <1>2, PTL DEF Spec

\* Every variable of the client keeps its type, the queue its capacity.
THEOREM TypeCorrect == Spec => []TypeOK
<1>1. PadreInv => TypeOK
  BY DEF PadreInv
<1>2. QED
  BY <1>1, PadreInvariant, PTL

\* PadreClient: the answer that reaches a waiting call is about the developer it
\* asked about, never a late one that belongs to a call that has timed out.
THEOREM AnswersAlwaysMatch == Spec => []AnswersMatch
<1>1. PadreInv => AnswersMatch
  BY DEF PadreInv, AnswersMatch
<1>2. QED
  BY <1>1, PadreInvariant, PTL

\* get_dev_history returns the history of the developer it was asked about, or
\* nothing.
ReturnsOwn ==
    [][call.pc # "idle" /\ call'.pc = "idle" => result' \in {call.dev, None}]_vars

THEOREM CallsReturnOwn == Spec => ReturnsOwn
<1> DEFINE A == call.pc # "idle" /\ call'.pc = "idle" => result' \in {call.dev, None}
<1>1. PadreInv /\ [Next]_vars => [A]_vars
  <2> SUFFICES ASSUME PadreInv, Next, call.pc # "idle", call'.pc = "idle"
               PROVE  result' \in {call.dev, None}
    OBVIOUS
  <2>1. CASE \E d \in Devs : Begin(d)
    BY <2>1 DEF Begin
  <2>2. CASE Enqueue
    BY <2>2 DEF Enqueue, PadreInv, TypeOK
  <2>3. CASE Return
    BY <2>3 DEF Return, PadreInv, TypeOK
  <2>4. CASE Timeout
    BY <2>4 DEF Timeout
  <2>5. ASSUME UNCHANGED call PROVE FALSE
    BY <2>5
  <2>6. QED
    BY <2>1, <2>2, <2>3, <2>4, <2>5 DEF Next, Connect, Forward, ForwardFails, Disconnect,
       Answer, Ping, PutEcho
<1>2. QED
  BY <1>1, PadreInvariant, PTL DEF Spec, ReturnsOwn
=============================================================================
