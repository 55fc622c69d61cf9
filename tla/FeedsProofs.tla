----------------------------- MODULE FeedsProofs -----------------------------
(***************************************************************************)
(* Theorems about Feeds, for every set of feeds and of events and every    *)
(* bound: the heartbeats, and the refinement of EventFeed.                 *)
(***************************************************************************)
EXTENDS Feeds, SequenceTheorems, TLAPS

-----------------------------------------------------------------------------
(* Sequences of positions. *)

LEMMA Widen ==
  ASSUME NEW S, NEW T, S \subseteq T, NEW s \in Seq(S)
  PROVE  s \in Seq(T)
<1>1. s \in [1 .. Len(s) -> S] /\ Len(s) \in Nat
  OBVIOUS
<1>2. s \in [1 .. Len(s) -> T]
  BY <1>1
<1>3. QED
  BY <1>1, <1>2, SeqDef

LEMMA Beginning ==
  ASSUME NEW S, NEW s \in Seq(S), NEW n \in 0 .. Len(s)
  PROVE  /\ SubSeq(s, 1, n) \in Seq(S)
         /\ Len(SubSeq(s, 1, n)) = n
         /\ \A i \in 1 .. n : SubSeq(s, 1, n)[i] = s[i]
<1>1. \A i \in 1 .. n : s[i] \in S
  OBVIOUS
<1>2. QED
  BY <1>1, SubSeqProperties

-----------------------------------------------------------------------------
(* Types and heartbeats. *)

\* A loop that is not connecting has a link, which the counter has counted; its
\* heartbeat starts when it has subscribed.
Linked ==
    \A f \in Feeds :
       /\ phase[f] # "connecting" => links[f] >= 1 /\ tcp[f] # "none"
       /\ phase[f] = "subscribing" => beats[f] = {}

LinkInv == TypeOK /\ Linked /\ OneHeartbeat

LEMMA HappenPreserves ==
  ASSUME LinkInv, NEW e \in Events, Happen(e)
  PROVE  LinkInv'
<1> USE DEF LinkInv, TypeOK, Happen, linkVars
<1>1. /\ chain' \in Seq(Events)
      /\ Len(chain') = Len(chain) + 1
      /\ Len(chain') <= MaxEvents
  BY FeedsAssumption
<1>2. 1 .. Len(chain) \subseteq 1 .. Len(chain') /\ Len(chain) + 1 \in 1 .. Len(chain')
  BY <1>1
<1>3. ASSUME NEW f \in Feeds PROVE wire'[f] \in Seq(1 .. Len(chain'))
  <2>1. wire[f] \in Seq(1 .. Len(chain'))
    BY <1>2, Widen
  <2>2. wire'[f] = wire[f] \/ wire'[f] = Append(wire[f], Len(chain) + 1)
    OBVIOUS
  <2>3. QED
    BY <2>1, <2>2, <1>2, AppendProperties
<1>4. ASSUME NEW f \in Feeds PROVE reported[f] \in Seq(1 .. Len(chain'))
  BY <1>2, Widen
<1>5. wire' \in [Feeds -> Seq(1 .. Len(chain'))]
  BY <1>3
<1>6. reported' \in [Feeds -> Seq(1 .. Len(chain'))]
  BY <1>4
<1>7. TypeOK'
  BY <1>1, <1>5, <1>6
<1>8. Linked' /\ OneHeartbeat'
  BY DEF Linked, OneHeartbeat
<1>9. QED
  BY <1>7, <1>8

LEMMA LinkPreserves ==
  ASSUME LinkInv, NEW f \in Feeds, End(f) \/ FallSilent(f) \/ GiveUp(f)
  PROVE  LinkInv'
<1> USE DEF LinkInv, TypeOK, Set
<1>1. wire' \in [Feeds -> Seq(1 .. Len(chain))]
  <2>1. \A n \in 0 .. Len(wire[f]) : SubSeq(wire[f], 1, n) \in Seq(1 .. Len(chain))
    BY Beginning
  <2>2. wire' = wire \/ \E n \in 0 .. Len(wire[f]) :
                            wire' = [wire EXCEPT ![f] = SubSeq(wire[f], 1, n)]
    BY DEF End, FallSilent, GiveUp
  <2>3. QED
    BY <2>1, <2>2
<1>2. /\ unacked' \in [Feeds -> BOOLEAN]
      /\ tcp' \in [Feeds -> {"none", "up", "silent", "ended"}]
  BY DEF End, FallSilent, GiveUp
<1>3. UNCHANGED <<chain, phase, links, beats, reported>>
  BY DEF End, FallSilent, GiveUp
<1>4. \A g \in Feeds : \/ tcp'[g] = tcp[g]
                       \/ tcp[g] \in {"up", "silent"} /\ tcp'[g] \in {"silent", "ended"}
  BY DEF End, FallSilent, GiveUp
<1>5. TypeOK'
  BY <1>1, <1>2, <1>3
<1>6. Linked' /\ OneHeartbeat'
  BY <1>3, <1>4 DEF Linked, OneHeartbeat
<1>7. QED
  BY <1>5, <1>6

LEMMA BeginPreserves ==
  ASSUME LinkInv, NEW f \in Feeds, Connect(f) \/ Subscribe(f)
  PROVE  LinkInv'
<1> USE FeedsAssumption DEF LinkInv, TypeOK, Set, linkVars
<1>1. CASE Connect(f)
  <2>1. TypeOK'
    BY <1>1 DEF Connect, Phase
  <2>2. Linked' /\ OneHeartbeat'
    BY <1>1 DEF Connect, Linked, OneHeartbeat
  <2>3. QED
    BY <2>1, <2>2
<1>2. CASE Subscribe(f)
  <2>1. links[f] \in 1 .. MaxLinks
    BY <1>2 DEF Subscribe, Linked
  <2>2. TypeOK'
    BY <1>2, <2>1 DEF Subscribe, StartReading, Phase
  <2>3. Linked' /\ OneHeartbeat'
    BY <1>2, <2>1 DEF Subscribe, StartReading, Linked, OneHeartbeat
  <2>4. QED
    BY <2>2, <2>3
<1>3. QED
  BY <1>1, <1>2

LEMMA ReadPreserves ==
  ASSUME LinkInv, NEW f \in Feeds, Read(f)
  PROVE  LinkInv'
<1> USE DEF LinkInv, TypeOK, Set, linkVars
<1> DEFINE Positions == 1 .. Len(chain)
<1>1. ASSUME wire[f] # <<>>
      PROVE  Head(wire[f]) \in Positions /\ Tail(wire[f]) \in Seq(Positions)
  BY <1>1, HeadTailProperties
<1>2. /\ wire' \in [Feeds -> Seq(Positions)]
      /\ reported' \in [Feeds -> Seq(Positions)]
  <2>1. CASE UNCHANGED <<wire, reported>>
    BY <2>1
  <2>2. CASE wire[f] # <<>> /\ wire' = [wire EXCEPT ![f] = Tail(wire[f])] /\ UNCHANGED reported
    BY <1>1, <2>2
  <2>3. CASE Report(f)
    <3>1. wire[f] # <<>> /\ reported[f] \in Seq(Positions)
      BY <2>3 DEF Report
    <3>2. Append(reported[f], Head(wire[f])) \in Seq(Positions)
      BY <1>1, <3>1, AppendProperties
    <3>3. QED
      BY <1>1, <2>3, <3>2 DEF Report
  <2>4. QED
    BY <2>1, <2>2, <2>3 DEF Read, ReadCreation, ReadTrade, TradeHandled, Skip, Panic
<1>3. UNCHANGED <<chain, links, tcp, unacked, beats>>
  BY DEF Read, ReadCreation, ReadTrade, TradeHandled, Skip, Panic
<1>4. /\ phase[f] \in {"reading", "handling"}
      /\ \E p \in {"reading", "handling", "panicked"} : phase' = [phase EXCEPT ![f] = p]
  BY DEF Read, ReadCreation, ReadTrade, TradeHandled, Skip, Panic
<1>5. TypeOK'
  BY <1>2, <1>3, <1>4 DEF Phase
<1>6. Linked' /\ OneHeartbeat'
  BY <1>3, <1>4 DEF Linked, OneHeartbeat
<1>7. QED
  BY <1>5, <1>6

LEMMA EndPreserves ==
  ASSUME LinkInv, NEW f \in Feeds, StopReading(f) \/ SubscribeFails(f) \/ Heartbeat(f)
  PROVE  LinkInv'
<1> USE FeedsAssumption DEF LinkInv, TypeOK, Set, linkVars
<1>1. CASE StopReading(f)
  <2>1. TypeOK'
    BY <1>1 DEF StopReading, Retry, Phase
  <2>2. Linked' /\ OneHeartbeat'
    BY <1>1 DEF StopReading, Retry, Linked, OneHeartbeat
  <2>3. QED
    BY <2>1, <2>2
<1>2. CASE SubscribeFails(f)
  <2>1. TypeOK'
    BY <1>2 DEF SubscribeFails, Retry, Phase
  <2>2. Linked' /\ OneHeartbeat'
    BY <1>2 DEF SubscribeFails, Retry, Linked, OneHeartbeat
  <2>3. QED
    BY <2>1, <2>2
<1>3. ASSUME NEW n \in beats[f], Beat(f, n) PROVE LinkInv'
  <2>1. TypeOK'
    BY <1>3 DEF Beat
  <2>2. Linked'
    BY <1>3 DEF Beat, Linked
  <2>3. n = links[f] /\ links[f] \in Nat
    BY DEF OneHeartbeat
  <2>4. OneHeartbeat'
    <3>1. UNCHANGED <<phase, links, tcp>>
      BY <1>3 DEF Beat
    <3>2. CASE beats' = beats
      BY <3>1, <3>2 DEF OneHeartbeat
    <3>3. CASE tcp[f] \in {"ended", "none"} /\ beats' = [beats EXCEPT ![f] = beats[f] \ {n}]
      <4>1. \A g \in Feeds : beats'[g] \subseteq beats[g]
        BY <3>3
      <4>2. \A g \in Feeds : g # f => beats'[g] = beats[g]
        BY <3>3
      <4>3. phase[f] \in {"reading", "handling"} => tcp[f] = "ended"
        BY <3>3 DEF Linked
      <4>4. QED
        BY <3>1, <4>1, <4>2, <4>3 DEF OneHeartbeat
    <3>4. QED
      BY <1>3, <2>3, <3>2, <3>3 DEF Beat
  <2>5. QED
    BY <2>1, <2>2, <2>4
<1>4. QED
  BY <1>1, <1>2, <1>3 DEF Heartbeat

\* Every variable has its type, and no heartbeat outlives its link.
THEOREM FeedsInvariant == Spec => []FeedsInv
<1>1. Init => LinkInv
  BY FeedsAssumption DEF Init, LinkInv, TypeOK, Linked, OneHeartbeat, Phase
<1>2. LinkInv /\ [Next]_vars => LinkInv'
  <2> SUFFICES ASSUME LinkInv, [Next]_vars PROVE LinkInv'
    OBVIOUS
  <2>1. ASSUME NEW e \in Events, Happen(e) PROVE LinkInv'
    BY <2>1, HappenPreserves
  <2>2. ASSUME NEW f \in Feeds, Loop(f) PROVE LinkInv'
    BY <2>2, BeginPreserves, ReadPreserves, EndPreserves DEF Loop
  <2>3. ASSUME NEW f \in Feeds, Heartbeat(f) PROVE LinkInv'
    BY <2>3, EndPreserves
  <2>4. ASSUME NEW f \in Feeds, End(f) \/ FallSilent(f) \/ GiveUp(f) PROVE LinkInv'
    BY <2>4, LinkPreserves
  <2>5. CASE UNCHANGED vars
    BY <2>5 DEF vars, linkVars, LinkInv, TypeOK, Linked, OneHeartbeat
  <2>6. QED
    BY <2>1, <2>2, <2>3, <2>4, <2>5 DEF Next
<1>3. LinkInv => FeedsInv
  BY DEF LinkInv, FeedsInv
<1>4. QED
  BY <1>1, <1>2, <1>3, PTL DEF Spec

-----------------------------------------------------------------------------
(* Feeds implements EventFeed. *)

\* What is on the wire of a feed is in the order of the chain, and later than
\* what the feed has reported.
InOrder(s, last) ==
    /\ \A i, j \in 1 .. Len(s) : i < j => s[i] < s[j]
    /\ \A i \in 1 .. Len(s) : last < s[i]

Ordered == \A f \in Feeds : InOrder(wire[f], Abstract!Last(f))

LEMMA LastInChain ==
  ASSUME TypeOK, NEW f \in Feeds
  PROVE  Abstract!Last(f) \in 0 .. Len(chain)
<1>1. reported[f] \in Seq(1 .. Len(chain)) /\ Len(chain) \in Nat
  BY DEF TypeOK
<1>2. CASE reported[f] = <<>>
  BY <1>1, <1>2 DEF Abstract!Last
<1>3. CASE reported[f] # <<>>
  <2>1. reported[f][Len(reported[f])] \in 1 .. Len(chain)
    BY <1>1, <1>3
  <2>2. QED
    BY <1>1, <1>3, <2>1 DEF Abstract!Last
<1>4. QED
  BY <1>2, <1>3

LEMMA HappenKeepsOrder ==
  ASSUME TypeOK, Ordered, NEW e \in Events, Happen(e)
  PROVE  Ordered'
<1> SUFFICES ASSUME NEW f \in Feeds PROVE InOrder(wire'[f], Abstract!Last(f)')
  BY DEF Ordered
<1>1. Abstract!Last(f)' = Abstract!Last(f)
  BY DEF Happen, Abstract!Last
<1>2. wire'[f] = wire[f] \/ wire'[f] = Append(wire[f], Len(chain) + 1)
  BY DEF Happen, TypeOK
<1>3. wire[f] \in Seq(1 .. Len(chain)) /\ Len(chain) \in Nat
  BY DEF TypeOK
<1>4. CASE wire'[f] = wire[f]
  BY <1>1, <1>4 DEF Ordered
<1>5. CASE wire'[f] = Append(wire[f], Len(chain) + 1)
  <2>1. /\ Len(wire'[f]) = Len(wire[f]) + 1
        /\ \A i \in 1 .. Len(wire[f]) : wire'[f][i] = wire[f][i] /\ wire[f][i] \in 1 .. Len(chain)
        /\ wire'[f][Len(wire[f]) + 1] = Len(chain) + 1
    BY <1>3, <1>5
  <2>2. InOrder(wire[f], Abstract!Last(f))
    BY DEF Ordered
  <2>3. Abstract!Last(f) \in 0 .. Len(chain)
    BY LastInChain
  <2>4. ASSUME NEW i \in 1 .. Len(wire'[f])
        PROVE  i \in 1 .. Len(wire[f]) \/ i = Len(wire[f]) + 1
    BY <1>3, <2>1
  <2>5. \A i \in 1 .. Len(wire'[f]) : Abstract!Last(f) < wire'[f][i]
    <3>1. SUFFICES ASSUME NEW i \in 1 .. Len(wire'[f])
                   PROVE  Abstract!Last(f) < wire'[f][i]
      OBVIOUS
    <3>2. CASE i \in 1 .. Len(wire[f])
      <4>1. wire'[f][i] = wire[f][i]
        BY <2>1, <3>2
      <4>2. QED
        BY <2>2, <3>2, <4>1 DEF InOrder
    <3>3. CASE i = Len(wire[f]) + 1
      BY <1>3, <2>1, <2>3, <3>3
    <3>4. QED
      BY <2>4, <3>2, <3>3
  <2>6. \A i, j \in 1 .. Len(wire'[f]) : i < j => wire'[f][i] < wire'[f][j]
    <3>1. SUFFICES ASSUME NEW i \in 1 .. Len(wire'[f]), NEW j \in 1 .. Len(wire'[f]), i < j
                   PROVE  wire'[f][i] < wire'[f][j]
      OBVIOUS
    <3>2. i \in 1 .. Len(wire[f])
      BY <1>3, <2>1, <3>1
    <3>3. CASE j \in 1 .. Len(wire[f])
      BY <2>1, <2>2, <3>1, <3>2, <3>3 DEF InOrder
    <3>4. CASE j = Len(wire[f]) + 1
      BY <1>3, <2>1, <3>2, <3>4
    <3>5. QED
      BY <2>4, <3>3, <3>4
  <2>7. QED
    BY <1>1, <2>5, <2>6 DEF InOrder
<1>6. QED
  BY <1>2, <1>4, <1>5

LEMMA SilenceKeepsOrder ==
  ASSUME TypeOK, Ordered, NEW f \in Feeds, FallSilent(f)
  PROVE  Ordered'
<1> SUFFICES ASSUME NEW g \in Feeds PROVE InOrder(wire'[g], Abstract!Last(g)')
  BY DEF Ordered
<1>1. Abstract!Last(g)' = Abstract!Last(g) /\ InOrder(wire[g], Abstract!Last(g))
  BY DEF FallSilent, Abstract!Last, Ordered
<1>2. PICK n \in 0 .. Len(wire[f]) : wire' = [wire EXCEPT ![f] = SubSeq(wire[f], 1, n)]
  BY DEF FallSilent, Set
<1>3. wire[f] \in Seq(1 .. Len(chain))
  BY DEF TypeOK
<1>4. /\ Len(SubSeq(wire[f], 1, n)) = n
      /\ \A i \in 1 .. n : SubSeq(wire[f], 1, n)[i] = wire[f][i]
  BY <1>3, Beginning
<1>5. CASE g = f
  <2>1. wire'[g] = SubSeq(wire[f], 1, n)
    BY <1>2, <1>5 DEF TypeOK
  <2>2. 1 .. n \subseteq 1 .. Len(wire[f])
    BY <1>3
  <2>3. QED
    BY <1>1, <1>4, <1>5, <2>1, <2>2 DEF InOrder
<1>6. CASE g # f
  BY <1>1, <1>2, <1>6
<1>7. QED
  BY <1>5, <1>6

\* Reading takes the oldest message from the wire; a report is of that one.
LEMMA TakeKeepsOrder ==
  ASSUME TypeOK, Ordered, NEW f \in Feeds,
         wire[f] # <<>>, wire' = [wire EXCEPT ![f] = Tail(wire[f])],
         \/ reported' = reported
         \/ reported' = [reported EXCEPT ![f] = Append(reported[f], Head(wire[f]))]
  PROVE  Ordered'
<1> SUFFICES ASSUME NEW g \in Feeds PROVE InOrder(wire'[g], Abstract!Last(g)')
  BY DEF Ordered
<1>1. InOrder(wire[g], Abstract!Last(g))
  BY DEF Ordered
<1>2. wire[g] \in Seq(1 .. Len(chain)) /\ reported[g] \in Seq(1 .. Len(chain))
  BY DEF TypeOK
<1>3. CASE g # f
  <2>1. wire'[g] = wire[g] /\ reported'[g] = reported[g]
    BY <1>3 DEF TypeOK
  <2>2. QED
    BY <1>1, <2>1 DEF Abstract!Last
<1>4. CASE g = f
  <2>1. wire'[g] = Tail(wire[g]) /\ wire[g] # <<>>
    BY <1>4 DEF TypeOK
  <2>2. /\ Len(wire'[g]) = Len(wire[g]) - 1 /\ Len(wire[g]) \in Nat \ {0}
        /\ \A i \in 1 .. Len(wire'[g]) : wire'[g][i] = wire[g][i + 1]
    <3>1. /\ Len(Tail(wire[g])) = Len(wire[g]) - 1
          /\ \A i \in 1 .. Len(Tail(wire[g])) : Tail(wire[g])[i] = wire[g][i + 1]
      BY <1>2, <2>1, HeadTailProperties
    <3>2. Len(wire[g]) \in Nat \ {0}
      BY <1>2, <2>1
    <3>3. QED
      BY <2>1, <3>1, <3>2
  <2>3. Head(wire[g]) = wire[g][1] /\ wire[g][1] \in 1 .. Len(chain)
    BY <1>2, <2>1
  <2>4. \A i \in 1 .. Len(wire'[g]) : i + 1 \in 1 .. Len(wire[g]) /\ 1 \in 1 .. Len(wire[g])
    BY <2>2
  <2>5. \A i \in 1 .. Len(wire'[g]) : wire[g][1] < wire'[g][i] /\ Abstract!Last(g) < wire'[g][i]
    BY <1>1, <2>2, <2>4 DEF InOrder
  <2>6. \A i, j \in 1 .. Len(wire'[g]) : i < j => wire'[g][i] < wire'[g][j]
    BY <1>1, <2>2, <2>4 DEF InOrder
  <2>7. Abstract!Last(g)' \in {Abstract!Last(g), wire[g][1]}
    <3>1. CASE reported' = reported
      BY <3>1 DEF Abstract!Last
    <3>2. CASE reported' = [reported EXCEPT ![f] = Append(reported[f], Head(wire[f]))]
      <4>1. reported'[g] = Append(reported[g], wire[g][1])
        BY <1>4, <2>3, <3>2 DEF TypeOK
      <4>2. reported'[g] # <<>> /\ reported'[g][Len(reported'[g])] = wire[g][1]
        <5>1. LET s == Append(reported[g], wire[g][1])
              IN  Len(s) = Len(reported[g]) + 1 /\ s[Len(reported[g]) + 1] = wire[g][1]
          BY <1>2, <2>3, AppendProperties
        <5>2. Len(reported'[g]) = Len(reported[g]) + 1 /\ Len(reported[g]) + 1 > 0
          BY <1>2, <4>1, <5>1
        <5>3. reported'[g] # <<>>
          BY <5>2
        <5>4. reported'[g][Len(reported'[g])] = wire[g][1]
          BY <4>1, <5>1, <5>2
        <5>5. QED
          BY <5>3, <5>4
      <4>3. QED
        BY <4>2 DEF Abstract!Last
    <3>3. QED
      BY <3>1, <3>2
  <2>8. QED
    BY <2>5, <2>6, <2>7 DEF InOrder
<1>5. QED
  BY <1>3, <1>4

\* The steps that leave both the wires and the reports alone.
LEMMA OtherSteps ==
  ASSUME NEW f \in Feeds,
         \/ Connect(f) \/ Subscribe(f) \/ SubscribeFails(f) \/ TradeHandled(f)
         \/ StopReading(f) \/ Heartbeat(f) \/ End(f) \/ GiveUp(f)
  PROVE  UNCHANGED <<chain, wire, reported>>
BY DEF Connect, Subscribe, SubscribeFails, TradeHandled, StopReading, Heartbeat, Beat,
       End, GiveUp, Retry, linkVars

LEMMA ReadSteps ==
  ASSUME NEW f \in Feeds, ReadCreation(f) \/ ReadTrade(f) \/ Skip(f) \/ Panic(f)
  PROVE  /\ chain' = chain
         /\ wire[f] # <<>> /\ wire' = [wire EXCEPT ![f] = Tail(wire[f])]
         /\ \/ reported' = reported
            \/ reported' = [reported EXCEPT ![f] = Append(reported[f], Head(wire[f]))]
BY DEF ReadCreation, ReadTrade, Skip, Panic, Report, Set

LEMMA OrderInvariant == Spec => [](TypeOK /\ Ordered)
<1>1. Init => Ordered
  BY DEF Init, Ordered, InOrder
<1>2. TypeOK /\ Ordered /\ [Next]_vars => Ordered'
  <2> SUFFICES ASSUME TypeOK, Ordered, [Next]_vars PROVE Ordered'
    OBVIOUS
  <2>1. ASSUME UNCHANGED <<chain, wire, reported>> PROVE Ordered'
    BY <2>1 DEF Ordered, Abstract!Last
  <2>2. ASSUME NEW e \in Events, Happen(e) PROVE Ordered'
    BY <2>2, HappenKeepsOrder
  <2>3. ASSUME NEW f \in Feeds, Loop(f) \/ Heartbeat(f) \/ End(f) \/ FallSilent(f) \/ GiveUp(f)
        PROVE  Ordered'
    BY <2>1, <2>3, OtherSteps, ReadSteps, TakeKeepsOrder, SilenceKeepsOrder DEF Loop, Read
  <2>4. CASE UNCHANGED vars
    BY <2>1, <2>4 DEF vars
  <2>5. QED
    BY <2>2, <2>3, <2>4 DEF Next
<1>3. FeedsInv => TypeOK
  BY DEF FeedsInv
<1>4. QED
  BY <1>1, <1>2, <1>3, FeedsInvariant, PTL DEF Spec

\* No feed reports an event twice or out of order, whatever happens to its links.
THEOREM FeedsImplementsEventFeed == Spec => FeedSpec
<1>1. Init => Abstract!Init
  BY DEF Init, Abstract!Init
<1>2. TypeOK /\ Ordered /\ [Next]_vars => [Abstract!Next]_(Abstract!vars)
  <2> SUFFICES ASSUME TypeOK, Ordered, [Next]_vars
               PROVE  Abstract!Next \/ UNCHANGED <<chain, reported>>
    BY DEF Abstract!vars
  <2>1. ASSUME NEW e \in Events, Happen(e) PROVE Abstract!Next
    BY <2>1 DEF Happen, Abstract!Next, Abstract!Happen
  <2>2. ASSUME NEW f \in Feeds, ReadCreation(f) \/ ReadTrade(f) \/ Skip(f) \/ Panic(f)
        PROVE  Abstract!Next \/ UNCHANGED <<chain, reported>>
    <3>1. chain' = chain /\ wire[f] # <<>>
      BY <2>2, ReadSteps
    <3>2. Head(wire[f]) = wire[f][1] /\ 1 \in 1 .. Len(wire[f]) /\ wire[f][1] \in 1 .. Len(chain)
      BY <3>1 DEF TypeOK
    <3>3. Head(wire[f]) \in Abstract!Last(f) + 1 .. Len(chain)
      BY <3>2, LastInChain DEF Ordered, InOrder
    <3>4. CASE reported' = [reported EXCEPT ![f] = Append(reported[f], Head(wire[f]))]
      BY <3>1, <3>3, <3>4 DEF Abstract!Next, Abstract!Report
    <3>5. QED
      BY <2>2, <3>1, <3>4, ReadSteps
  <2>3. ASSUME NEW f \in Feeds, FallSilent(f) PROVE UNCHANGED <<chain, reported>>
    BY <2>3 DEF FallSilent
  <2>4. CASE UNCHANGED vars
    BY <2>4 DEF vars
  <2>5. QED
    BY <2>1, <2>2, <2>3, <2>4, OtherSteps DEF Next, Loop, Read
<1>3. QED
  BY <1>1, <1>2, OrderInvariant, PTL DEF Spec, FeedSpec, Abstract!Spec
=============================================================================
