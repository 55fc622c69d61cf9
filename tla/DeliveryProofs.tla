---------------------------- MODULE DeliveryProofs ----------------------------
(***************************************************************************)
(* Theorems about Delivery, for every set of clients, every capacity of    *)
(* the channel and of the sockets, and any number of tokens and links.     *)
(***************************************************************************)
EXTENDS Delivery, SequenceTheorems, TLAPS

-----------------------------------------------------------------------------
(* Messages, and sequences of them. *)

Message == [autobuy : BOOLEAN] \cup [token : Nat]

LEMMA MessageKinds ==
  /\ \A b \in BOOLEAN : Info(b) \in Message /\ ~IsToken(Info(b)) /\ Info(b).autobuy = b
  /\ \A n \in Nat : /\ NewToken(n) \in Message /\ IsToken(NewToken(n))
                    /\ NewToken(n).token = n
  /\ \A m \in Message : /\ IsToken(m) => m.token \in Nat /\ m = NewToken(m.token)
                        /\ ~IsToken(m) => m.autobuy \in BOOLEAN /\ m = Info(m.autobuy)
                        /\ "autobuy" \in DOMAIN m <=> ~IsToken(m)
BY DEF Message, Info, NewToken, IsToken

LEMMA TakeFromWire ==
  ASSUME NEW G \in Seq(Message), NEW W \in Seq(Message), W # <<>>
  PROVE  Append(G, Head(W)) \o Tail(W) = G \o W
<1> DEFINE L == Append(G, Head(W)) \o Tail(W)
           R == G \o W
<1>1. /\ Head(W) \in Message /\ Tail(W) \in Seq(Message) /\ Len(Tail(W)) = Len(W) - 1
      /\ Len(W) \in Nat \ {0} /\ Head(W) = W[1]
      /\ \A i \in 1 .. Len(W) - 1 : Tail(W)[i] = W[i + 1]
  OBVIOUS
<1>2. /\ Append(G, Head(W)) \in Seq(Message) /\ Len(Append(G, Head(W))) = Len(G) + 1
      /\ \A i \in 1 .. Len(G) : Append(G, Head(W))[i] = G[i]
      /\ Append(G, Head(W))[Len(G) + 1] = W[1]
  BY <1>1
<1>3. L \in Seq(Message) /\ R \in Seq(Message) /\ Len(L) = Len(R) /\ Len(R) = Len(G) + Len(W)
  BY <1>1, <1>2, ConcatProperties
<1>4. ASSUME NEW i \in 1 .. Len(G) + Len(W) PROVE L[i] = R[i]
  <2>1. /\ L[i] = IF i <= Len(G) + 1 THEN Append(G, Head(W))[i] ELSE Tail(W)[i - (Len(G) + 1)]
        /\ R[i] = IF i <= Len(G) THEN G[i] ELSE W[i - Len(G)]
    BY <1>1, <1>2, ConcatProperties
  <2>2. CASE i <= Len(G)
    BY <1>2, <2>1, <2>2
  <2>3. CASE i = Len(G) + 1
    BY <1>2, <2>1, <2>3
  <2>4. CASE i > Len(G) + 1
    <3>1. i - (Len(G) + 1) \in 1 .. Len(W) - 1 /\ (i - (Len(G) + 1)) + 1 = i - Len(G)
      BY <1>1, <2>4
    <3>2. QED
      BY <1>1, <2>1, <2>4, <3>1
  <2>5. QED
    BY <2>2, <2>3, <2>4
<1>5. QED
  BY <1>3, <1>4, SeqEqual

\* Appending in the middle, where nothing follows, and at the end.
LEMMA AppendToWire ==
  ASSUME NEW G \in Seq(Message), NEW W \in Seq(Message), NEW m \in Message
  PROVE  /\ G \o W \in Seq(Message)
         /\ (G \o W) \o <<m>> = Append(G \o W, m)
         /\ G \o Append(W, m) = Append(G \o W, m)
<1>1. G \o W \in Seq(Message)
  BY ConcatProperties
<1>2. \A s \in Seq(Message) : s \o <<m>> = Append(s, m)
  <2> SUFFICES ASSUME NEW s \in Seq(Message) PROVE s \o <<m>> = Append(s, m)
    OBVIOUS
  <2>1. <<m>> \in Seq(Message) /\ Len(<<m>>) = 1 /\ <<m>>[1] = m
    OBVIOUS
  <2>2. QED
    BY <2>1, ConcatProperties, AppendProperties, SeqEqual
<1>3. G \o Append(W, m) = G \o (W \o <<m>>)
  BY <1>2
<1>4. G \o (W \o <<m>>) = (G \o W) \o <<m>>
  <2>1. <<m>> \in Seq(Message)
    OBVIOUS
  <2>2. QED
    BY <2>1, ConcatAssociative
<1>5. QED
  BY <1>1, <1>2, <1>3, <1>4

\* With nothing before it, the first message leaves from the front.
LEMMA TakeFromFront ==
  ASSUME NEW W \in Seq(Message), NEW E \in Seq(Message), W # <<>>
  PROVE  /\ W \o E \in Seq(Message) /\ W \o E # <<>>
         /\ Head(W \o E) = Head(W)
         /\ Tail(W) \o E = Tail(W \o E)
<1>1. /\ Tail(W) \in Seq(Message) /\ Len(Tail(W)) = Len(W) - 1
      /\ Len(W) \in Nat \ {0} /\ Head(W) = W[1]
      /\ \A i \in 1 .. Len(W) - 1 : Tail(W)[i] = W[i + 1]
  OBVIOUS
<1>2. /\ W \o E \in Seq(Message) /\ Len(W \o E) = Len(W) + Len(E)
      /\ \A i \in 1 .. Len(W) + Len(E) :
            (W \o E)[i] = IF i <= Len(W) THEN W[i] ELSE E[i - Len(W)]
  BY ConcatProperties
<1>3. W \o E # <<>> /\ Head(W \o E) = Head(W)
  BY <1>1, <1>2
<1>4. /\ Tail(W \o E) \in Seq(Message) /\ Len(Tail(W \o E)) = Len(W) + Len(E) - 1
      /\ \A i \in 1 .. Len(W) + Len(E) - 1 : Tail(W \o E)[i] = (W \o E)[i + 1]
  BY <1>1, <1>2, <1>3, HeadTailProperties
<1>5. /\ Tail(W) \o E \in Seq(Message) /\ Len(Tail(W) \o E) = Len(W) + Len(E) - 1
      /\ \A i \in 1 .. Len(W) + Len(E) - 1 :
            (Tail(W) \o E)[i] = IF i <= Len(W) - 1 THEN Tail(W)[i] ELSE E[i - (Len(W) - 1)]
  BY <1>1, ConcatProperties
<1>6. ASSUME NEW i \in 1 .. Len(W) + Len(E) - 1 PROVE (Tail(W) \o E)[i] = Tail(W \o E)[i]
  <2>1. i + 1 \in 1 .. Len(W) + Len(E) /\ (i + 1) - Len(W) = i - (Len(W) - 1)
    BY <1>1
  <2>2. QED
    BY <1>1, <1>2, <1>4, <1>5, <2>1
<1>7. QED
  BY <1>2, <1>3, <1>4, <1>5, <1>6, SeqEqual

-----------------------------------------------------------------------------
(* The tokens of a sequence of messages. *)

LEMMA AppendTokens ==
  ASSUME NEW s \in Seq(Message), NEW m \in Message
  PROVE  TokensOf(Append(s, m)) = TokensOf(s) \cup (IF IsToken(m) THEN {m.token} ELSE {})
<1>1. /\ Len(Append(s, m)) = Len(s) + 1 /\ Len(s) \in Nat
      /\ \A i \in 1 .. Len(s) : Append(s, m)[i] = s[i]
      /\ Append(s, m)[Len(s) + 1] = m
  OBVIOUS
<1>2. TokenPlaces(Append(s, m)) = TokenPlaces(s) \cup (IF IsToken(m) THEN {Len(s) + 1} ELSE {})
  BY <1>1 DEF TokenPlaces
<1>3. \A i \in TokenPlaces(s) : Append(s, m)[i] = s[i]
  BY <1>1 DEF TokenPlaces
<1>4. QED
  BY <1>1, <1>2, <1>3 DEF TokensOf

LEMMA AppendIncreasing ==
  ASSUME NEW s \in Seq(Message), NEW m \in Message, Increasing(s),
         IsToken(m) => \A n \in TokensOf(s) : n < m.token
  PROVE  Increasing(Append(s, m))
<1>1. /\ Len(Append(s, m)) = Len(s) + 1 /\ Len(s) \in Nat
      /\ \A i \in 1 .. Len(s) : Append(s, m)[i] = s[i]
      /\ Append(s, m)[Len(s) + 1] = m
  OBVIOUS
<1> SUFFICES ASSUME NEW i \in TokenPlaces(Append(s, m)), NEW j \in TokenPlaces(Append(s, m)),
                    i < j
             PROVE  Append(s, m)[i].token < Append(s, m)[j].token
  BY DEF Increasing
<1>2. i \in 1 .. Len(s)
  BY <1>1 DEF TokenPlaces
<1>3. i \in TokenPlaces(s) /\ Append(s, m)[i] = s[i]
  BY <1>1, <1>2 DEF TokenPlaces
<1>4. CASE j \in 1 .. Len(s)
  BY <1>1, <1>3, <1>4 DEF Increasing, TokenPlaces
<1>5. CASE j = Len(s) + 1
  BY <1>1, <1>3, <1>5 DEF TokenPlaces, TokensOf
<1>6. QED
  BY <1>1, <1>4, <1>5 DEF TokenPlaces

\* A first message that is no token makes no difference.
LEMMA DropInfo ==
  ASSUME NEW s \in Seq(Message), s # <<>>, ~IsToken(Head(s)), Increasing(s)
  PROVE  TokensOf(Tail(s)) = TokensOf(s) /\ Increasing(Tail(s))
<1>1. /\ Len(Tail(s)) = Len(s) - 1 /\ Len(s) \in Nat \ {0} /\ Head(s) = s[1]
      /\ \A i \in 1 .. Len(s) - 1 : Tail(s)[i] = s[i + 1]
  OBVIOUS
<1>2. \A i \in TokenPlaces(Tail(s)) : i \in Nat /\ i + 1 \in TokenPlaces(s) /\ Tail(s)[i] = s[i + 1]
  BY <1>1 DEF TokenPlaces
<1>3. \A i \in TokenPlaces(s) : i - 1 \in TokenPlaces(Tail(s)) /\ Tail(s)[i - 1] = s[i]
  <2> SUFFICES ASSUME NEW i \in TokenPlaces(s)
               PROVE  i - 1 \in TokenPlaces(Tail(s)) /\ Tail(s)[i - 1] = s[i]
    OBVIOUS
  <2>1. i \in 1 .. Len(s) /\ i # 1 /\ IsToken(s[i])
    BY <1>1 DEF TokenPlaces
  <2>2. i - 1 \in 1 .. Len(s) - 1 /\ (i - 1) + 1 = i
    BY <1>1, <2>1
  <2>3. QED
    BY <1>1, <2>1, <2>2 DEF TokenPlaces
<1>4. TokensOf(Tail(s)) = TokensOf(s)
  <2>1. ASSUME NEW i \in TokenPlaces(Tail(s)) PROVE Tail(s)[i].token \in TokensOf(s)
    <3>1. i + 1 \in TokenPlaces(s) /\ Tail(s)[i] = s[i + 1]
      BY <1>2
    <3>2. QED
      BY <3>1 DEF TokensOf
  <2>2. ASSUME NEW i \in TokenPlaces(s) PROVE s[i].token \in TokensOf(Tail(s))
    <3>1. i - 1 \in TokenPlaces(Tail(s)) /\ Tail(s)[i - 1] = s[i]
      BY <1>3
    <3>2. QED
      BY <3>1 DEF TokensOf
  <2>3. QED
    BY <2>1, <2>2 DEF TokensOf
<1>5. Increasing(Tail(s))
  <2> SUFFICES ASSUME NEW i \in TokenPlaces(Tail(s)), NEW j \in TokenPlaces(Tail(s)), i < j
               PROVE  Tail(s)[i].token < Tail(s)[j].token
    BY DEF Increasing
  <2>1. /\ i + 1 \in TokenPlaces(s) /\ Tail(s)[i] = s[i + 1]
        /\ j + 1 \in TokenPlaces(s) /\ Tail(s)[j] = s[j + 1]
        /\ i \in Nat /\ j \in Nat
    BY <1>2
  <2>2. i + 1 < j + 1
    BY <2>1
  <2>3. QED
    BY <2>1, <2>2 DEF Increasing
<1>6. QED
  BY <1>4, <1>5

-----------------------------------------------------------------------------
(* The stream of a link. *)

Given(h) == [i \in 1 .. Len(h) |-> NewToken(h[i][1])]
Hand(x) == IF x = None THEN <<>> ELSE <<NewToken(x)>>
Pairs == Nat \X BOOLEAN

LEMMA StreamParts ==
  ASSUME NEW c \in Clients
  PROVE  Stream(c) = (Given(handled[c]) \o wire[c]) \o Hand(held[c])
BY DEF Stream, Given, Hand

LEMMA GivenParts ==
  ASSUME NEW h \in Seq(Pairs), NEW n \in Nat, NEW b \in BOOLEAN
  PROVE  /\ Given(h) \in Seq(Message)
         /\ Given(Append(h, <<n, b>>)) = Append(Given(h), NewToken(n))
<1>1. \A i \in 1 .. Len(h) : NewToken(h[i][1]) \in Message
  BY MessageKinds DEF Pairs
<1>2. Given(h) \in Seq(Message) /\ Len(Given(h)) = Len(h)
  BY <1>1 DEF Given
<1> DEFINE g == Append(h, <<n, b>>)
<1>3. /\ g \in Seq(Pairs) /\ Len(g) = Len(h) + 1 /\ Len(h) \in Nat
      /\ \A i \in 1 .. Len(h) : g[i] = h[i]
      /\ g[Len(h) + 1] = <<n, b>>
  BY DEF Pairs
<1>4. \A i \in 1 .. Len(g) : NewToken(g[i][1]) \in Message
  BY <1>3, MessageKinds DEF Pairs
<1>5. Given(g) \in Seq(Message) /\ Len(Given(g)) = Len(h) + 1
  BY <1>3, <1>4 DEF Given
<1>6. /\ Append(Given(h), NewToken(n)) \in Seq(Message)
      /\ Len(Append(Given(h), NewToken(n))) = Len(h) + 1
      /\ \A i \in 1 .. Len(h) : Append(Given(h), NewToken(n))[i] = Given(h)[i]
      /\ Append(Given(h), NewToken(n))[Len(h) + 1] = NewToken(n)
  BY <1>2, MessageKinds, AppendProperties
<1>7. ASSUME NEW i \in 1 .. Len(h) + 1 PROVE Given(g)[i] = Append(Given(h), NewToken(n))[i]
  <2>1. Given(g)[i] = NewToken(g[i][1])
    BY <1>3 DEF Given
  <2>2. CASE i \in 1 .. Len(h)
    BY <1>3, <1>6, <2>1, <2>2 DEF Given
  <2>3. CASE i = Len(h) + 1
    BY <1>3, <1>6, <2>1, <2>3
  <2>4. i \in 1 .. Len(h) \/ i = Len(h) + 1
    BY <1>3
  <2>5. QED
    BY <2>2, <2>3, <2>4
<1>8. QED
  BY <1>2, <1>5, <1>6, <1>7, SeqEqual

LEMMA HandType ==
  ASSUME NEW x \in Nat \cup {None}
  PROVE  Hand(x) \in Seq(Message)
<1>1. CASE x = None
  BY <1>1 DEF Hand
<1>2. CASE x \in Nat
  <2>1. NewToken(x) \in Message
    BY <1>2, MessageKinds
  <2>2. QED
    BY <2>1, <1>2, DeliveryAssumption DEF Hand
<1>3. QED
  BY <1>1, <1>2

LEMMA StreamType ==
  ASSUME TypeOK, NEW c \in Clients
  PROVE  /\ Given(handled[c]) \in Seq(Message) /\ wire[c] \in Seq(Message)
         /\ Hand(held[c]) \in Seq(Message)
         /\ Stream(c) \in Seq(Message)
<1>1. handled[c] \in Seq(Pairs) /\ wire[c] \in Seq(Message) /\ held[c] \in Nat \cup {None}
  BY DEF TypeOK, Message, Pairs
<1>2. Given(handled[c]) \in Seq(Message)
  BY <1>1, GivenParts, 0 \in Nat, TRUE \in BOOLEAN
<1>3. Hand(held[c]) \in Seq(Message)
  BY <1>1, HandType
<1>4. Given(handled[c]) \o wire[c] \in Seq(Message)
  BY <1>1, <1>2, ConcatProperties
<1>5. (Given(handled[c]) \o wire[c]) \o Hand(held[c]) \in Seq(Message)
  BY <1>3, <1>4, ConcatProperties
<1>6. QED
  BY <1>1, <1>2, <1>3, <1>5, StreamParts

-----------------------------------------------------------------------------
(* The inductive invariant. *)

\* The first message on a link is its status; the client has read it or has
\* been given no token yet.
Front(c) ==
    \/ /\ handled[c] = <<>>
       /\ wire[c] # <<>> /\ wire[c][1] = Info(status[c])
       /\ \A i \in 2 .. Len(wire[c]) : IsToken(wire[c][i])
    \/ /\ autobuy[c] = status[c]
       /\ \A i \in 1 .. Len(wire[c]) : IsToken(wire[c][i])

Complete(c) ==
    /\ Increasing(Stream(c))
    /\ TokensOf(Stream(c)) \cap missed[c] = {}
    /\ TokensOf(Stream(c)) \cup missed[c] = start[c] .. next[c] - 1

LinkInv(c) ==
    /\ link[c] = "off" => wire[c] = <<>>
    /\ link[c] = "opening" => wire[c] = <<>> /\ handled[c] = <<>>
    /\ link[c] # "live" => held[c] = None
    /\ link[c] \in {"told", "live"} => status[c] \in BOOLEAN /\ Front(c)
    /\ start[c] <= next[c]
    /\ link[c] # "off" =>
          /\ \A i \in 1 .. Len(handled[c]) : handled[c][i][2] = status[c]
          /\ Complete(c)

DeliveryInv == TypeOK /\ \A c \in Clients : LinkInv(c)

\* LinkInv looks at nothing but this.
LinkVars(c) ==
    <<link[c], wire[c], handled[c], held[c], status[c], autobuy[c], start[c], next[c], missed[c]>>

LEMMA LinkKept ==
  ASSUME NEW c \in Clients, LinkInv(c), UNCHANGED LinkVars(c)
  PROVE  LinkInv(c)'
BY DEF LinkInv, LinkVars, Front, Complete, Stream

LEMMA OthersKept ==
  ASSUME TypeOK, NEW c \in Clients, NEW d \in Clients, d # c,
         Server(c) \/ Open(c) \/ Read(c) \/ Break(c)
  PROVE  UNCHANGED LinkVars(d)
<1> USE DEF TypeOK, LinkVars, chanVars, adminVars, linkVars, clientVars
<1>1. CASE Open(c) \/ Break(c)
  BY <1>1 DEF Open, Break
<1>2. CASE Read(c)
  BY <1>2 DEF Read
<1>3. CASE ReadStatus(c) \/ SendInfo(c) \/ StartSending(c)
  BY <1>3 DEF ReadStatus, SendInfo, StartSending
<1>4. CASE Receive(c) \/ Lag(c) \/ Write(c)
  BY <1>4 DEF Receive, Lag, Write
<1>5. QED
  BY <1>1, <1>2, <1>3, <1>4 DEF Server

LEMMA ReadParts ==
  ASSUME TypeOK, NEW c \in Clients, Read(c)
  PROVE  /\ wire[c] \in Seq(Message) /\ wire[c] # <<>>
         /\ Head(wire[c]) \in Message /\ Tail(wire[c]) \in Seq(Message)
         /\ wire' = [wire EXCEPT ![c] = Tail(wire[c])]
         /\ IF IsToken(Head(wire[c]))
            THEN /\ handled' = [handled EXCEPT
                                  ![c] = Append(handled[c], <<Head(wire[c]).token, autobuy[c]>>)]
                 /\ autobuy' = autobuy
            ELSE /\ autobuy' = [autobuy EXCEPT ![c] = Head(wire[c]).autobuy]
                 /\ handled' = handled
         /\ UNCHANGED <<chanVars, adminVars, linkVars, held>>
<1>1. /\ wire[c] \in Seq(Message) /\ wire[c] # <<>>
      /\ Head(wire[c]) \in Message /\ Tail(wire[c]) \in Seq(Message)
  BY DEF Read, TypeOK, Message
<1>2. "autobuy" \in DOMAIN Head(wire[c]) <=> ~IsToken(Head(wire[c]))
  BY <1>1, MessageKinds
<1>3. QED
  BY <1>1, <1>2 DEF Read, IsToken

LEMMA WireTyped ==
  ASSUME TypeOK, NEW c \in Clients, NEW m \in Message
  PROVE  Append(wire[c], m) \in Seq(Message)
BY DEF TypeOK, Message

LEMMA StepTyped ==
  ASSUME TypeOK, [Next]_vars
  PROVE  TypeOK'
<1> USE DeliveryAssumption DEF chanVars, adminVars, linkVars, clientVars
<1>1. CASE Send
  BY <1>1 DEF Send, TypeOK
<1>2. ASSUME NEW c \in Clients, Regrant(c) PROVE TypeOK'
  BY <1>2 DEF Regrant, TypeOK
<1>3. ASSUME NEW c \in Clients, Open(c) PROVE TypeOK'
  BY <1>3 DEF Open, TypeOK, LinkPhase
<1>4. ASSUME NEW c \in Clients, ReadStatus(c) PROVE TypeOK'
  <2>1. PICK b \in BOOLEAN : status' = [status EXCEPT ![c] = b]
    <3>1. account[c] \in BOOLEAN
      BY DEF TypeOK
    <3>2. QED
      BY <1>4, <3>1 DEF ReadStatus
  <2>2. status' \in [Clients -> BOOLEAN \cup {None}]
    BY <2>1 DEF TypeOK
  <2>3. QED
    BY <1>4, <2>2 DEF ReadStatus, TypeOK
<1>5. ASSUME NEW c \in Clients, SendInfo(c) PROVE TypeOK'
  <2>1. Info(status[c]) \in Message
    BY <1>5, MessageKinds DEF SendInfo, TypeOK
  <2>2. QED
    BY <1>5, <2>1, WireTyped DEF SendInfo, TypeOK, LinkPhase, Message
<1>6. ASSUME NEW c \in Clients, StartSending(c) PROVE TypeOK'
  BY <1>6 DEF StartSending, TypeOK, LinkPhase
<1>7. ASSUME NEW c \in Clients, Receive(c) PROVE TypeOK'
  BY <1>7 DEF Receive, TypeOK
<1>8. ASSUME NEW c \in Clients, Lag(c) PROVE TypeOK'
  <2>1. Oldest \in Nat
    BY DEF Oldest, TypeOK
  <2>2. next[c] \in Nat /\ missed[c] \cup (next[c] .. Oldest - 1) \in SUBSET Nat
    BY <2>1 DEF TypeOK
  <2>3. QED
    BY <1>8, <2>1, <2>2 DEF Lag, TypeOK
<1>9. ASSUME NEW c \in Clients, Write(c) PROVE TypeOK'
  <2>1. NewToken(held[c]) \in Message
    BY <1>9, MessageKinds DEF Write, TypeOK
  <2>2. QED
    BY <1>9, <2>1, WireTyped DEF Write, TypeOK, Message
<1>10. ASSUME NEW c \in Clients, Read(c) PROVE TypeOK'
  <2>1. /\ Head(wire[c]) \in Message /\ Tail(wire[c]) \in Seq(Message)
        /\ wire' = [wire EXCEPT ![c] = Tail(wire[c])]
    BY <1>10, ReadParts
  <2>2. wire' \in [Clients -> Seq(Message)]
    <3>1. wire \in [Clients -> Seq(Message)]
      BY DEF TypeOK, Message
    <3>2. QED
      BY <2>1, <3>1
  <2>3. autobuy' \in [Clients -> BOOLEAN] /\ handled' \in [Clients -> Seq(Nat \X BOOLEAN)]
    <3> DEFINE hd == Head(wire[c])
    <3>1. CASE IsToken(hd)
      <4>1. /\ handled' = [handled EXCEPT ![c] = Append(handled[c], <<hd.token, autobuy[c]>>)]
            /\ autobuy' = autobuy
        BY <1>10, <3>1, ReadParts
      <4>2. <<hd.token, autobuy[c]>> \in Nat \X BOOLEAN
        BY <2>1, <3>1, MessageKinds DEF TypeOK
      <4>3. Append(handled[c], <<hd.token, autobuy[c]>>) \in Seq(Nat \X BOOLEAN)
        BY <4>2 DEF TypeOK
      <4>4. QED
        BY <4>1, <4>3 DEF TypeOK
    <3>2. CASE ~IsToken(hd)
      BY <1>10, <2>1, <3>2, ReadParts, MessageKinds DEF TypeOK
    <3>3. QED
      BY <3>1, <3>2
  <2>4. UNCHANGED <<chanVars, adminVars, linkVars, held>>
    BY <1>10, ReadParts
  <2>5. wire' \in [Clients -> Seq([autobuy : BOOLEAN] \cup [token : Nat])]
    BY <2>2 DEF Message
  <2>6. QED
    BY <2>3, <2>4, <2>5 DEF TypeOK
<1>11. ASSUME NEW c \in Clients, Break(c) PROVE TypeOK'
  BY <1>11 DEF Break, TypeOK, LinkPhase
<1>12. CASE UNCHANGED vars
  BY <1>12 DEF vars, TypeOK
<1>13. QED
  BY <1>1, <1>2, <1>3, <1>4, <1>5, <1>6, <1>7, <1>8, <1>9, <1>10, <1>11, <1>12 DEF Next, Server

\* Every variable has its type.
THEOREM TypeCorrect == Spec => []TypeOK
<1>1. Init => TypeOK
  BY DeliveryAssumption DEF Init, TypeOK, LinkPhase
<1>2. TypeOK /\ [Next]_vars => TypeOK'
  BY StepTyped
<1>3. QED
  BY <1>1, <1>2, PTL DEF Spec

-----------------------------------------------------------------------------
(* No step breaks the invariant of its link. *)

\* With nothing in the hands of send_task, the stream ends with the wire.
LEMMA EmptyHand ==
  ASSUME NEW G \in Seq(Message), NEW W \in Seq(Message)
  PROVE  (G \o W) \o Hand(None) = G \o W
<1>1. G \o W \in Seq(Message) /\ Len(G \o W) \in Nat
  BY ConcatProperties
<1>2. Hand(None) = << >> /\ << >> \in Seq(Message) /\ Len(<< >>) = 0
  BY DEF Hand
<1>3. QED
  BY <1>1, <1>2, ConcatProperties, SeqEqual

LEMMA OpenKeeps ==
  ASSUME TypeOK, NEW c \in Clients, LinkInv(c), Open(c)
  PROVE  LinkInv(c)'
<1> USE DEF chanVars, adminVars, linkVars, clientVars
<1>1. /\ link'[c] = "opening" /\ wire'[c] = << >> /\ handled'[c] = << >> /\ held'[c] = None
      /\ start'[c] = sent /\ next'[c] = sent /\ missed'[c] = {} /\ sent \in Nat
  BY DEF Open, LinkInv, TypeOK
<1>2. Stream(c)' = << >>
  <2>1. Stream(c)' = (Given(<< >>) \o << >>) \o << >>
    BY <1>1 DEF Stream, Given
  <2>2. Given(<< >>) = << >>
    BY DEF Given
  <2>3. << >> \o << >> = << >>
    OBVIOUS
  <2>4. QED
    BY <2>1, <2>2, <2>3
<1>3. TokenPlaces(<< >>) = {} /\ TokensOf(<< >>) = {} /\ Increasing(<< >>)
  BY DEF TokenPlaces, TokensOf, Increasing
<1>4. sent .. sent - 1 = {}
  BY <1>1
<1>5. Complete(c)'
  BY <1>1, <1>2, <1>3, <1>4 DEF Complete
<1>6. QED
  BY <1>1, <1>5 DEF LinkInv

LEMMA ReadStatusKeeps ==
  ASSUME TypeOK, NEW c \in Clients, LinkInv(c), ReadStatus(c)
  PROVE  LinkInv(c)'
<1> USE DEF chanVars, adminVars, linkVars, clientVars
<1>1. /\ link'[c] = "opening" /\ wire'[c] = << >> /\ handled'[c] = << >> /\ held'[c] = None
      /\ Complete(c)' /\ start'[c] <= next'[c]
  BY DEF ReadStatus, LinkInv, Complete, Stream
<1>2. QED
  BY <1>1 DEF LinkInv

LEMMA SendInfoKeeps ==
  ASSUME TypeOK, NEW c \in Clients, LinkInv(c), SendInfo(c)
  PROVE  LinkInv(c)'
<1> USE DEF chanVars, adminVars, linkVars, clientVars
<1> DEFINE m == Info(status[c])
<1>1. status[c] \in BOOLEAN /\ m \in Message /\ ~IsToken(m)
  BY MessageKinds DEF SendInfo, TypeOK
<1>2. /\ link[c] = "opening" /\ wire[c] = << >> /\ handled[c] = << >> /\ held[c] = None
      /\ start[c] <= next[c] /\ Complete(c)
  BY DEF SendInfo, LinkInv
<1>3. /\ link'[c] = "told" /\ wire'[c] = Append(wire[c], m) /\ handled' = handled
      /\ UNCHANGED <<held, status, start, next, missed>>
  BY DEF SendInfo, TypeOK
<1>4. Stream(c)' = Append(Stream(c), m) /\ Stream(c) \in Seq(Message)
  <2>1. Given(handled[c]) \in Seq(Message) /\ wire[c] \in Seq(Message) /\ Stream(c) \in Seq(Message)
    BY StreamType
  <2>2. Stream(c) = Given(handled[c]) \o wire[c]
    BY <1>2, <2>1, StreamParts, EmptyHand
  <2>3. Append(wire[c], m) \in Seq(Message)
    BY <1>1, <2>1
  <2>4. Stream(c)' = (Given(handled[c]) \o Append(wire[c], m)) \o Hand(None)
    BY <1>2, <1>3 DEF Stream, Given, Hand
  <2>5. Stream(c)' = Given(handled[c]) \o Append(wire[c], m)
    BY <2>1, <2>3, <2>4, EmptyHand
  <2>6. Given(handled[c]) \o Append(wire[c], m) = Append(Given(handled[c]) \o wire[c], m)
    BY <1>1, <2>1, AppendToWire
  <2>7. QED
    BY <2>1, <2>2, <2>5, <2>6
<1>5. Complete(c)'
  <2>1. TokensOf(Stream(c)') = TokensOf(Stream(c))
    BY <1>1, <1>4, AppendTokens
  <2>2. Increasing(Stream(c)')
    BY <1>1, <1>2, <1>4, AppendIncreasing DEF Complete
  <2>3. QED
    BY <1>2, <1>3, <2>1, <2>2 DEF Complete
<1>6. Front(c)'
  <2>1. wire'[c] = <<m>>
    BY <1>2, <1>3
  <2>2. handled'[c] = << >> /\ wire'[c] # << >> /\ wire'[c][1] = Info(status'[c]) /\ Len(wire'[c]) = 1
    BY <1>2, <1>3, <2>1
  <2>3. QED
    BY <2>2 DEF Front
<1>7. QED
  BY <1>1, <1>2, <1>3, <1>5, <1>6 DEF LinkInv

LEMMA StartSendingKeeps ==
  ASSUME TypeOK, NEW c \in Clients, LinkInv(c), StartSending(c)
  PROVE  LinkInv(c)'
<1> USE DEF chanVars, adminVars, linkVars, clientVars
<1>1. /\ link[c] = "told" /\ link'[c] = "live"
      /\ UNCHANGED <<wire, handled, held, status, autobuy, start, next, missed>>
  BY DEF StartSending, TypeOK
<1>2. Complete(c) /\ Front(c) /\ start[c] <= next[c] /\ status[c] \in BOOLEAN
      /\ \A i \in 1 .. Len(handled[c]) : handled[c][i][2] = status[c]
  BY <1>1 DEF LinkInv
<1>3. Complete(c)' /\ Front(c)'
  BY <1>1, <1>2 DEF Complete, Front, Stream
<1>4. QED
  BY <1>1, <1>2, <1>3 DEF LinkInv

LEMMA ReceiveKeeps ==
  ASSUME TypeOK, NEW c \in Clients, LinkInv(c), Receive(c)
  PROVE  LinkInv(c)'
<1> USE DEF chanVars, adminVars, linkVars, clientVars
<1> DEFINE n == next[c]
           m == NewToken(n)
<1>1. n \in Nat /\ start[c] \in Nat /\ m \in Message /\ IsToken(m) /\ m.token = n
  BY MessageKinds DEF TypeOK
<1>2. /\ link[c] = "live" /\ held[c] = None /\ start[c] <= n /\ Complete(c) /\ Front(c)
      /\ status[c] \in BOOLEAN
      /\ \A i \in 1 .. Len(handled[c]) : handled[c][i][2] = status[c]
  BY DEF Receive, LinkInv
<1>3. /\ held'[c] = n /\ next'[c] = n + 1
      /\ UNCHANGED <<link, wire, handled, status, autobuy, start, missed>>
  BY DEF Receive, TypeOK
<1>4. Stream(c)' = Append(Stream(c), m) /\ Stream(c) \in Seq(Message)
  <2>1. Given(handled[c]) \in Seq(Message) /\ wire[c] \in Seq(Message) /\ Stream(c) \in Seq(Message)
    BY StreamType
  <2>2. Stream(c) = Given(handled[c]) \o wire[c]
    BY <1>2, <2>1, StreamParts, EmptyHand
  <2>3. Hand(n) = <<m>>
    BY <1>1, DeliveryAssumption DEF Hand
  <2>4. Stream(c)' = (Given(handled[c]) \o wire[c]) \o <<m>>
    BY <1>3, <2>3 DEF Stream, Given, Hand
  <2>5. (Given(handled[c]) \o wire[c]) \o <<m>> = Append(Given(handled[c]) \o wire[c], m)
    BY <1>1, <2>1, AppendToWire
  <2>6. QED
    BY <2>1, <2>2, <2>4, <2>5
<1>5. Complete(c)'
  <2>1. TokensOf(Stream(c)') = TokensOf(Stream(c)) \cup {n}
    BY <1>1, <1>4, AppendTokens
  <2>2. \A k \in TokensOf(Stream(c)) : k \in start[c] .. n - 1
    BY <1>2 DEF Complete
  <2>3. Increasing(Stream(c)')
    BY <1>1, <1>2, <1>4, <2>2, AppendIncreasing DEF Complete
  <2>4. \A k \in missed[c] : k \in start[c] .. n - 1
    BY <1>2 DEF Complete
  <2>5. start[c] .. (n + 1) - 1 = (start[c] .. n - 1) \cup {n}
    BY <1>1, <1>2
  <2>6. n \notin missed[c]
    BY <1>1, <2>4
  <2>7. QED
    BY <1>2, <1>3, <2>1, <2>3, <2>5, <2>6 DEF Complete
<1>6. Front(c)'
  BY <1>2, <1>3 DEF Front
<1>7. start'[c] <= next'[c]
  BY <1>1, <1>2, <1>3
<1>8. QED
  BY <1>2, <1>3, <1>5, <1>6, <1>7 DEF LinkInv

LEMMA LagKeeps ==
  ASSUME TypeOK, NEW c \in Clients, LinkInv(c), Lag(c)
  PROVE  LinkInv(c)'
<1> USE DEF chanVars, adminVars, linkVars, clientVars
<1> DEFINE n == next[c]
<1>1. n \in Nat /\ start[c] \in Nat /\ Oldest \in Nat /\ n < Oldest
  BY DeliveryAssumption DEF TypeOK, Oldest, Lag
<1>2. /\ link[c] = "live" /\ held[c] = None /\ start[c] <= n /\ Complete(c) /\ Front(c)
      /\ status[c] \in BOOLEAN
      /\ \A i \in 1 .. Len(handled[c]) : handled[c][i][2] = status[c]
  BY DEF Lag, LinkInv
<1>3. /\ missed'[c] = missed[c] \cup (n .. Oldest - 1) /\ next'[c] = Oldest
      /\ UNCHANGED <<link, wire, handled, held, status, autobuy, start>>
  BY DEF Lag, TypeOK
<1>4. Stream(c)' = Stream(c)
  BY <1>3 DEF Stream
<1>5. Complete(c)'
  <2>1. \A k \in TokensOf(Stream(c)) : k \in start[c] .. n - 1
    BY <1>2 DEF Complete
  <2>2. TokensOf(Stream(c)) \cap (n .. Oldest - 1) = {}
    BY <1>1, <2>1
  <2>3. start[c] .. Oldest - 1 = (start[c] .. n - 1) \cup (n .. Oldest - 1)
    BY <1>1, <1>2
  <2>4. QED
    BY <1>2, <1>3, <1>4, <2>2, <2>3 DEF Complete
<1>6. Front(c)'
  BY <1>2, <1>3 DEF Front
<1>7. start'[c] <= next'[c]
  BY <1>1, <1>2, <1>3
<1>8. QED
  BY <1>2, <1>3, <1>5, <1>6, <1>7 DEF LinkInv

LEMMA WriteKeeps ==
  ASSUME TypeOK, NEW c \in Clients, LinkInv(c), Write(c)
  PROVE  LinkInv(c)'
<1> USE DEF chanVars, adminVars, linkVars, clientVars
<1> DEFINE m == NewToken(held[c])
<1>1. held[c] \in Nat /\ m \in Message /\ IsToken(m)
  BY MessageKinds DEF Write, TypeOK
<1>2. /\ link[c] = "live" /\ start[c] <= next[c] /\ Complete(c) /\ Front(c)
      /\ status[c] \in BOOLEAN
      /\ \A i \in 1 .. Len(handled[c]) : handled[c][i][2] = status[c]
  BY DEF Write, LinkInv, TypeOK, LinkPhase
<1>3. /\ wire'[c] = Append(wire[c], m) /\ held'[c] = None
      /\ UNCHANGED <<link, handled, status, autobuy, start, next, missed>>
  BY DEF Write, TypeOK
<1>4. wire[c] \in Seq(Message) /\ Given(handled[c]) \in Seq(Message)
  BY StreamType
<1>5. Stream(c)' = Stream(c)
  <2>1. Hand(held[c]) = <<m>>
    BY <1>1, DeliveryAssumption DEF Hand
  <2>2. Stream(c) = (Given(handled[c]) \o wire[c]) \o <<m>>
    BY <2>1, StreamParts
  <2>3. Stream(c)' = (Given(handled[c]) \o Append(wire[c], m)) \o Hand(None)
    BY <1>3 DEF Stream, Given, Hand
  <2>4. Append(wire[c], m) \in Seq(Message)
    BY <1>1, <1>4
  <2>5. Stream(c)' = Given(handled[c]) \o Append(wire[c], m)
    BY <1>4, <2>3, <2>4, EmptyHand
  <2>6. QED
    BY <1>1, <1>4, <2>2, <2>5, AppendToWire
<1>6. Complete(c)'
  BY <1>2, <1>3, <1>5 DEF Complete
<1>7. Front(c)'
  <2>1. /\ Len(wire'[c]) = Len(wire[c]) + 1 /\ Len(wire[c]) \in Nat
        /\ \A i \in 1 .. Len(wire[c]) : wire'[c][i] = wire[c][i]
        /\ wire'[c][Len(wire[c]) + 1] = m
    BY <1>1, <1>3, <1>4
  <2>2. CASE /\ handled[c] = << >>
             /\ wire[c] # << >> /\ wire[c][1] = Info(status[c])
             /\ \A i \in 2 .. Len(wire[c]) : IsToken(wire[c][i])
    <3>1. Len(wire[c]) >= 1
      BY <1>4, <2>2
    <3>2. wire'[c] # << >> /\ wire'[c][1] = Info(status[c])
      BY <2>1, <2>2, <3>1
    <3>3. \A i \in 2 .. Len(wire'[c]) : IsToken(wire'[c][i])
      BY <1>1, <2>1, <2>2
    <3>4. QED
      BY <1>3, <2>2, <3>2, <3>3 DEF Front
  <2>3. CASE /\ autobuy[c] = status[c]
             /\ \A i \in 1 .. Len(wire[c]) : IsToken(wire[c][i])
    <3>1. \A i \in 1 .. Len(wire'[c]) : IsToken(wire'[c][i])
      BY <1>1, <2>1, <2>3
    <3>2. QED
      BY <1>3, <2>3, <3>1 DEF Front
  <2>4. QED
    BY <1>2, <2>2, <2>3 DEF Front
<1>8. QED
  BY <1>2, <1>3, <1>6, <1>7 DEF LinkInv

LEMMA BreakKeeps ==
  ASSUME TypeOK, NEW c \in Clients, LinkInv(c), Break(c)
  PROVE  LinkInv(c)'
<1> USE DEF chanVars, adminVars, linkVars, clientVars
<1>1. /\ link'[c] = "off" /\ wire'[c] = << >> /\ held'[c] = None
      /\ UNCHANGED <<start, next>> /\ start[c] <= next[c]
  BY DEF Break, LinkInv, TypeOK
<1>2. QED
  BY <1>1 DEF LinkInv

LEMMA ReadKeeps ==
  ASSUME TypeOK, NEW c \in Clients, LinkInv(c), Read(c)
  PROVE  LinkInv(c)'
<1> USE DEF chanVars, adminVars, linkVars, clientVars
<1> DEFINE hd == Head(wire[c])
<1>1. /\ wire[c] \in Seq(Message) /\ wire[c] # << >> /\ hd \in Message
      /\ wire'[c] = Tail(wire[c]) /\ Tail(wire[c]) \in Seq(Message)
      /\ UNCHANGED <<link, held, status, start, next, missed>>
  BY ReadParts DEF TypeOK
<1>2. /\ Len(Tail(wire[c])) = Len(wire[c]) - 1 /\ Len(wire[c]) \in Nat \ {0} /\ hd = wire[c][1]
      /\ \A i \in 1 .. Len(wire[c]) - 1 : Tail(wire[c])[i] = wire[c][i + 1]
  BY <1>1
<1>3. /\ link[c] \in {"told", "live"} /\ start[c] <= next[c] /\ Complete(c) /\ Front(c)
      /\ status[c] \in BOOLEAN
      /\ \A i \in 1 .. Len(handled[c]) : handled[c][i][2] = status[c]
  BY <1>1 DEF LinkInv, TypeOK, LinkPhase
<1>4. link[c] # "live" => held'[c] = None
  BY <1>1 DEF LinkInv
<1>5. Given(handled[c]) \in Seq(Message) /\ Hand(held[c]) \in Seq(Message)
  BY StreamType
<1>6. CASE IsToken(hd)
  <2> DEFINE n == hd.token
  <2>1. n \in Nat /\ hd = NewToken(n) /\ autobuy[c] \in BOOLEAN /\ handled[c] \in Seq(Pairs)
    BY <1>1, <1>6, MessageKinds DEF TypeOK, Pairs
  <2>2. handled'[c] = Append(handled[c], <<n, autobuy[c]>>) /\ autobuy' = autobuy
    BY <1>6, ReadParts DEF TypeOK
  <2>3. autobuy[c] = status[c] /\ \A i \in 1 .. Len(wire[c]) : IsToken(wire[c][i])
    BY <1>2, <1>3, <1>6, MessageKinds DEF Front
  <2>4. Front(c)'
    <3>1. \A i \in 1 .. Len(wire[c]) - 1 : i + 1 \in 1 .. Len(wire[c])
      BY <1>2
    <3>2. \A i \in 1 .. Len(wire'[c]) : IsToken(wire'[c][i])
      BY <1>1, <1>2, <2>3, <3>1
    <3>3. QED
      BY <1>1, <2>2, <2>3, <3>2 DEF Front
  <2>5. \A i \in 1 .. Len(handled'[c]) : handled'[c][i][2] = status'[c]
    <3>1. /\ Len(handled'[c]) = Len(handled[c]) + 1 /\ Len(handled[c]) \in Nat
          /\ \A i \in 1 .. Len(handled[c]) : handled'[c][i] = handled[c][i]
          /\ handled'[c][Len(handled[c]) + 1] = <<n, autobuy[c]>>
      <4>1. <<n, autobuy[c]>> \in Pairs
        BY <2>1 DEF Pairs
      <4>2. QED
        BY <2>1, <2>2, <4>1, AppendProperties
    <3>2. <<n, autobuy[c]>>[2] = status[c]
      BY <2>3
    <3>3. ASSUME NEW i \in 1 .. Len(handled[c]) + 1 PROVE handled'[c][i][2] = status[c]
      <4>1. CASE i \in 1 .. Len(handled[c])
        BY <1>3, <3>1, <4>1
      <4>2. CASE i = Len(handled[c]) + 1
        BY <3>1, <3>2, <4>2
      <4>3. QED
        BY <3>1, <4>1, <4>2
    <3>4. status'[c] = status[c]
      BY <1>1
    <3>5. QED
      BY <3>1, <3>3, <3>4
  <2>6. Stream(c)' = Stream(c)
    <3>1. Stream(c)' = (Given(handled'[c]) \o Tail(wire[c])) \o Hand(held[c])
      BY <1>1 DEF Stream, Given, Hand
    <3>2. Given(handled'[c]) = Append(Given(handled[c]), hd)
      BY <2>1, <2>2, GivenParts
    <3>3. Append(Given(handled[c]), hd) \o Tail(wire[c]) = Given(handled[c]) \o wire[c]
      BY <1>1, <1>5, TakeFromWire
    <3>4. QED
      BY <3>1, <3>2, <3>3, StreamParts
  <2>7. Complete(c)'
    BY <1>1, <1>3, <2>6 DEF Complete
  <2>8. QED
    BY <1>1, <1>3, <1>4, <2>4, <2>5, <2>7 DEF LinkInv
<1>7. CASE ~IsToken(hd)
  <2>1. /\ handled[c] = << >> /\ hd = Info(status[c])
        /\ \A i \in 2 .. Len(wire[c]) : IsToken(wire[c][i])
    BY <1>2, <1>3, <1>7 DEF Front
  <2>2. hd.autobuy = status[c]
    BY <1>3, <2>1, MessageKinds
  <2>3. autobuy'[c] = status[c] /\ handled'[c] = << >>
    BY <1>7, <2>1, <2>2, ReadParts DEF TypeOK
  <2>4. Front(c)'
    <3>1. \A i \in 1 .. Len(wire[c]) - 1 : i + 1 \in 2 .. Len(wire[c])
      BY <1>2
    <3>2. \A i \in 1 .. Len(wire'[c]) : IsToken(wire'[c][i])
      BY <1>1, <1>2, <2>1, <3>1
    <3>3. QED
      BY <1>1, <2>3, <3>2 DEF Front
  <2>5. /\ Stream(c) = wire[c] \o Hand(held[c])
        /\ Stream(c)' = Tail(wire[c]) \o Hand(held[c])
    <3>1. Given(<< >>) = << >>
      BY DEF Given
    <3>2. << >> \o wire[c] = wire[c] /\ << >> \o Tail(wire[c]) = Tail(wire[c])
      BY <1>1, ConcatEmptySeq
    <3>3. Stream(c) = (Given(<< >>) \o wire[c]) \o Hand(held[c])
      BY <2>1, StreamParts
    <3>4. Stream(c)' = (Given(<< >>) \o Tail(wire[c])) \o Hand(held[c])
      BY <1>1, <2>3 DEF Stream, Given, Hand
    <3>5. QED
      BY <3>1, <3>2, <3>3, <3>4
  <2>6. /\ Stream(c) \in Seq(Message) /\ Stream(c) # << >> /\ ~IsToken(Head(Stream(c)))
        /\ Stream(c)' = Tail(Stream(c))
    BY <1>1, <1>5, <1>7, <2>5, TakeFromFront
  <2>7. Complete(c)'
    BY <1>1, <1>3, <2>6, DropInfo DEF Complete
  <2>8. QED
    BY <1>1, <1>3, <1>4, <2>3, <2>4, <2>7 DEF LinkInv
<1>8. QED
  BY <1>6, <1>7

-----------------------------------------------------------------------------
\* The inductive invariant holds for every link, whatever the others do.
LEMMA LinksInvariant == Spec => []DeliveryInv
<1>1. Init => DeliveryInv
  BY DEF Init, DeliveryInv, TypeOK, LinkPhase, LinkInv
<1>2. DeliveryInv /\ [Next]_vars => DeliveryInv'
  <2> SUFFICES ASSUME DeliveryInv, [Next]_vars
               PROVE  DeliveryInv'
    OBVIOUS
  <2>1. TypeOK /\ \A d \in Clients : LinkInv(d)
    BY DEF DeliveryInv
  <2>2. TypeOK'
    BY <2>1, StepTyped
  <2>3. ASSUME NEW d \in Clients PROVE LinkInv(d)'
    <3>1. CASE UNCHANGED LinkVars(d)
      BY <2>1, <3>1, LinkKept
    <3>2. CASE Send \/ UNCHANGED vars \/ \E c \in Clients : Regrant(c)
      <4>1. UNCHANGED LinkVars(d)
        BY <3>2 DEF Send, Regrant, vars, LinkVars, chanVars, adminVars, linkVars, clientVars
      <4>2. QED
        BY <3>1, <4>1
    <3>3. ASSUME NEW c \in Clients, Server(c) \/ Open(c) \/ Read(c) \/ Break(c)
          PROVE  LinkInv(d)'
      <4>1. CASE c # d
        BY <2>1, <3>1, <3>3, <4>1, OthersKept
      <4>2. CASE c = d
        BY <2>1, <3>3, <4>2, OpenKeeps, ReadStatusKeeps, SendInfoKeeps, StartSendingKeeps,
           ReceiveKeeps, LagKeeps, WriteKeeps, ReadKeeps, BreakKeeps DEF Server
      <4>3. QED
        BY <4>1, <4>2
    <3>4. QED
      BY <3>2, <3>3 DEF Next
  <2>4. QED
    BY <2>2, <2>3 DEF DeliveryInv
<1>3. QED
  BY <1>1, <1>2, PTL DEF Spec

\* Tokens are forwarded in the order of the broadcast, none twice, and each one
\* since the subscription is forwarded or was reported as lagged, never both
\* (handle_socket): with any capacity of the channel and of the sockets.
THEOREM LossIsReported == Spec => []NothingLostSilently
<1>1. DeliveryInv => NothingLostSilently
  BY DEF DeliveryInv, LinkInv, Complete, NothingLostSilently
<1>2. QED
  BY <1>1, LinksInvariant, PTL

\* The client handles every token with the status the server read for this very
\* link (Client::subscribe).
THEOREM StatusIsOfThisLink == Spec => []StatusOfThisLink
<1>1. DeliveryInv => StatusOfThisLink
  BY DEF DeliveryInv, LinkInv, StatusOfThisLink
<1>2. QED
  BY <1>1, LinksInvariant, PTL
=============================================================================
