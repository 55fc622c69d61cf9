------------------------ MODULE DesktopClientProofs ------------------------
(***************************************************************************)
(* Theorems about DesktopClient, for every set of keys, parameters and     *)
(* curves and any number of logins and tokens, and about the arithmetic of *)
(* BondingCurve, for curves and amounts of any size.                       *)
(***************************************************************************)
EXTENDS DesktopClient, TLAPS

-----------------------------------------------------------------------------
(* The arithmetic of a purchase: u64 and u128 are of any size. *)

\* Division rounds down.
LEMMA Division ==
    ASSUME NEW n \in Nat, NEW d \in Nat, d > 0
    PROVE  /\ n \div d \in Nat
           /\ d * (n \div d) <= n
           /\ n < d * (n \div d + 1)
BY SMT

LEMMA Modulo ==
    ASSUME NEW n \in Nat, NEW m \in Nat, n < m
    PROVE  n % m = n
BY SMT

LEMMA Products ==
    ASSUME NEW x \in U64, NEW y \in U64
    PROVE  /\ x * y \in Nat
           /\ x * y < Word * Word
           /\ x + y < Word * Word
<1>1. x * y <= (Word - 1) * (Word - 1)
    <2>1. x * y <= x * (Word - 1)
        BY WordAssumption, SMT DEF U64
    <2>2. x * (Word - 1) <= (Word - 1) * (Word - 1)
        BY WordAssumption, SMT DEF U64
    <2>. QED  BY <2>1, <2>2, WordAssumption, SMT DEF U64
<1>2. (Word - 1) * (Word - 1) < Word * Word
    BY WordAssumption, SMT
<1>3. Word + Word <= Word * Word
    BY WordAssumption, SMT
<1>. QED  BY <1>1, <1>2, <1>3, WordAssumption, SMT DEF U64

-----------------------------------------------------------------------------
(***************************************************************************)
(* No operation of BondingCurve::buy wraps: what is left is the quotient   *)
(* plus one, at least 1 and at most what there was, so that the            *)
(* subtraction does not underflow; and the product of the virtual reserves *)
(* grows.                                                                  *)
(***************************************************************************)
THEOREM NothingWraps ==
    ASSUME NEW c \in Curve, NEW a \in U64, a > 0, c.virtual_token > 0
    PROVE  /\ Left(c, a) \in 1 .. c.virtual_token
           /\ (c.virtual_sol + a) * Left(c, a) > c.virtual_sol * c.virtual_token
<1> DEFINE vs == c.virtual_sol
           vt == c.virtual_token
           n == vs * vt
           i == vs + a
           q == n \div i
<1>1. vs \in U64 /\ vt \in U64 /\ vt \in Nat /\ vs \in Nat /\ a \in Nat /\ Word \in Nat
    BY WordAssumption DEF Curve, U64
<1>2. n \in Nat /\ n < Word * Word
    BY <1>1, Products
<1>3. i \in Nat /\ i > 0 /\ i < Word * Word
    BY <1>1, Products, SMT
<1>. HIDE DEF n, i
<1>4. q \in Nat /\ i * q <= n /\ n < i * (q + 1)
    BY <1>2, <1>3, Division
<1>5. q + 1 <= vt
    <2>1. SUFFICES ASSUME q >= vt PROVE FALSE
        BY <1>1, <1>4, SMT
    <2>2. i * q >= i * vt
        BY <2>1, <1>1, <1>3, <1>4, SMT
    <2>3. i * vt = n + a * vt
        BY <1>1, SMT DEF i, n
    <2>4. a * vt > 0
        BY <1>1, SMT
    <2>. QED  BY <2>2, <2>3, <2>4, <1>1, <1>2, <1>3, <1>4, SMT
<1>6. q + 1 < Word * Word
    <2>1. vt < Word /\ Word <= Word * Word
        BY <1>1, WordAssumption, SMT DEF U64
    <2>. QED  BY <2>1, <1>1, <1>4, <1>5, SMT
<1>7. Left(c, a) = q + 1
    <2>1. Word * Word \in Nat
        BY <1>1, SMT
    <2>2. u128(n) = n /\ u128(i) = i /\ u128(q + 1) = q + 1
        BY <2>1, <1>2, <1>3, <1>4, <1>6, Modulo DEF u128
    <2>3. Left(c, a) = u128(u128(n) \div u128(i) + 1)
        BY DEF Left, n, i
    <2>. QED  BY <2>2, <2>3
<1>. QED  BY <1>1, <1>4, <1>5, <1>7, SMT DEF n, i

LEMMA Bought ==
    ASSUME NEW c \in Curve, NEW a \in U64, c.virtual_token > 0
    PROVE  /\ buy(c, a) \in Nat
           /\ buy(c, a) <= c.real_token
           /\ a > 0 => buy(c, a) <= c.virtual_token - Left(c, a)
<1> DEFINE s == c.virtual_token - Left(c, a)
<1>1. c.virtual_token \in Nat /\ c.virtual_token < Word /\ c.real_token \in Nat
      /\ a \in Nat /\ Word \in Nat /\ Word >= 2
    BY WordAssumption, SMT DEF Curve, U64
<1>2. CASE a = 0
    BY <1>1, <1>2 DEF buy
<1>3. CASE a > 0
    <2>1. s \in Nat /\ s < Word
        BY <1>1, <1>3, NothingWraps, SMT
    <2>2. Word * Word \in Nat /\ Word <= Word * Word
        BY <1>1, SMT
    <2>. HIDE DEF s
    <2>3. u128(s) = s /\ s % Word = s
        BY <2>1, <2>2, <1>1, Modulo, SMT DEF u128
    <2>4. buy(c, a) = IF s < c.real_token THEN s ELSE c.real_token
        BY <1>3, <1>1, <2>3, SMT DEF buy, s
    <2>. QED  BY <2>1, <2>4, <1>1, <1>3, SMT DEF s
<1>. QED  BY <1>1, <1>2, <1>3, SMT

(***************************************************************************)
(* A purchase never asks for more than the curve still has for sale, and   *)
(* the product of the virtual reserves does not shrink by it.              *)
(***************************************************************************)
THEOREM WithinReserves ==
    ASSUME NEW c \in Curve, NEW a \in U64, c.virtual_token > 0
    PROVE  /\ buy(c, a) \in 0 .. c.real_token
           /\ (c.virtual_sol + a) * (c.virtual_token - buy(c, a))
                >= c.virtual_sol * c.virtual_token
<1>1. c.virtual_sol \in Nat /\ c.virtual_token \in Nat /\ c.real_token \in Nat /\ a \in Nat
    BY WordAssumption, SMT DEF Curve, U64
<1>2. buy(c, a) \in 0 .. c.real_token
    BY <1>1, Bought, SMT
<1>3. CASE a = 0
    BY <1>1, <1>3 DEF buy
<1>4. CASE a > 0
    <2> DEFINE left == Left(c, a)
               i == c.virtual_sol + a
               after == c.virtual_token - buy(c, a)
    <2>1. left \in Nat /\ i * left > c.virtual_sol * c.virtual_token
        BY <1>1, <1>4, NothingWraps, SMT
    <2>2. after >= left /\ after \in Int /\ i \in Nat
        BY <1>1, <1>2, <1>4, <2>1, Bought, SMT
    <2>. HIDE DEF left, i, after
    <2>3. i * after >= i * left
        BY <2>1, <2>2, SMT
    <2>4. i * after >= c.virtual_sol * c.virtual_token
        BY <1>1, <2>1, <2>2, <2>3, SMT
    <2>. QED  BY <1>2, <2>4 DEF i, after
<1>. QED  BY <1>1, <1>2, <1>3, <1>4, SMT

(***************************************************************************)
(* On a curve that nobody has moved in between, the tokens asked for cost  *)
(* no more than the amount entered, however it was rounded: slippage has   *)
(* to pay for the fee and for the others only.                             *)
(***************************************************************************)
THEOREM AmountSuffices ==
    ASSUME NEW c \in Curve, NEW a \in U64, a > 0, c.virtual_token > 0
    PROVE  Cost(c, buy(c, a)) <= a
<1> DEFINE vs == c.virtual_sol
           vt == c.virtual_token
           t == buy(c, a)
           left == Left(c, a)
           rest == vt - t
<1>1. vs \in Nat /\ vt \in Nat /\ a \in Nat
    BY WordAssumption, SMT DEF Curve, U64
<1>2. left \in Nat /\ left >= 1 /\ (vs + a) * left > vs * vt
    BY <1>1, NothingWraps, SMT
<1>3. t \in Nat /\ rest \in Nat /\ rest >= left /\ vt = rest + t
    BY <1>1, <1>2, Bought, SMT
<1>4. Cost(c, t) = (t * vs) \div rest + 1
    BY DEF Cost
<1>. HIDE DEF vs, vt, t, left, rest
<1>5. (vs + a) * rest > vs * vt
    <2>1. (vs + a) * rest >= (vs + a) * left
        BY <1>1, <1>2, <1>3, SMT
    <2>. QED  BY <2>1, <1>1, <1>2, <1>3, SMT
<1>6. a * rest > t * vs
    <2>1. (vs + a) * rest = vs * rest + a * rest
        BY <1>1, <1>3, SMT
    <2>2. vs * vt = vs * rest + t * vs
        BY <1>1, <1>3, SMT
    <2>. QED  BY <2>1, <2>2, <1>1, <1>3, <1>5, SMT
<1> DEFINE q == (t * vs) \div rest
<1>7. q \in Nat /\ rest * q <= t * vs
    BY <1>1, <1>2, <1>3, Division, SMT
<1>. HIDE DEF q
<1>8. q < a
    <2>1. SUFFICES ASSUME q >= a PROVE FALSE
        BY <1>1, <1>7, SMT
    <2>2. rest * q >= a * rest
        BY <2>1, <1>1, <1>3, <1>7, SMT
    <2>. QED  BY <2>2, <1>1, <1>3, <1>6, <1>7, SMT
<1>9. Cost(c, t) <= a
    BY <1>1, <1>4, <1>7, <1>8, SMT DEF q
<1>. QED  BY <1>9 DEF t

-----------------------------------------------------------------------------
(* The parts of a purchase are u64. *)

LEMMA Remainder ==
    ASSUME NEW x \in Int, NEW m \in Nat, m > 0
    PROVE  x % m \in 0 .. m - 1
BY SMT

LEMMA PartsAreU64 ==
    ASSUME NEW p \in Params, NEW c \in Curve
    PROVE  /\ micro_price(p.priority_fee) \in U64
           /\ max_sol_cost(p.lamport_amount, p.slippage) \in U64
           /\ p.bribe \in U64
           /\ buy(c, p.lamport_amount) \in U64
<1> DEFINE a == p.lamport_amount
<1>1. /\ Word \in Nat /\ Word > 0
      /\ a \in Nat /\ a < Word /\ p.priority_fee \in Nat /\ p.slippage \in Nat /\ p.bribe \in U64
      /\ c.virtual_token \in Nat /\ c.real_token \in U64 /\ c.virtual_sol \in Nat
    BY WordAssumption, SMT DEF Params, U64, Curve
<1>2. micro_price(p.priority_fee) \in U64
    <2>1. (p.priority_fee * 25) \div 3 \in Int
        BY <1>1, SMT
    <2>. QED  BY <2>1, <1>1, Remainder DEF micro_price, U64
<1>3. max_sol_cost(a, p.slippage) \in U64
    <2>1. a * p.slippage \in Nat
        BY <1>1, SMT
    <2>2. a + (a * p.slippage) \div 100 \in Int
        BY <2>1, <1>1, SMT
    <2>. QED  BY <2>2, <1>1, Remainder DEF max_sol_cost, U64
<1>4. buy(c, a) \in U64
    <2>1. CASE a = 0
        BY <2>1, <1>1 DEF buy, U64
    <2>2. CASE a > 0
        <3> DEFINE W2 == Word * Word
                   i == u128(c.virtual_sol + a)
                   n == u128(c.virtual_sol * c.virtual_token)
                   s == u128(c.virtual_token - Left(c, a)) % Word
        <3>1. W2 \in Nat /\ W2 > 0 /\ c.virtual_sol * c.virtual_token \in Nat
            BY <1>1, SMT
        <3>2. i = c.virtual_sol + a /\ i \in Nat /\ i > 0
            <4>1. c.virtual_sol \in U64 /\ a \in U64
                BY SMT DEF Curve, Params
            <4>2. c.virtual_sol + a < W2 /\ c.virtual_sol + a \in Nat
                BY <4>1, <1>1, Products
            <4>. HIDE DEF W2
            <4>3. (c.virtual_sol + a) % W2 = c.virtual_sol + a
                BY <4>2, <3>1, Modulo
            <4>4. i = c.virtual_sol + a
                BY <4>3 DEF u128, W2
            <4>. QED  BY <4>2, <4>4, <1>1, <2>2
        <3>3. n \in Nat
            BY <3>1, Remainder DEF u128
        <3>. HIDE DEF i, n, W2
        <3>4. n \div i + 1 \in Int
            BY <3>2, <3>3, Division
        <3>5. Left(c, a) \in Int
            <4>1. Left(c, a) = u128(n \div i + 1)
                BY DEF Left, i, n
            <4>. QED  BY <4>1, <3>1, <3>4, Remainder DEF u128, W2
        <3>6. u128(c.virtual_token - Left(c, a)) \in Int
            BY <1>1, <3>1, <3>5, Remainder DEF u128, W2
        <3>7. s \in U64
            BY <3>6, <1>1, Remainder DEF U64
        <3>8. buy(c, a) = IF s < c.real_token THEN s ELSE c.real_token
            BY <1>1, <2>2 DEF buy
        <3>. QED  BY <3>7, <3>8, <1>1
    <2>. QED  BY <2>1, <2>2, <1>1, SMT
<1>. QED  BY <1>1, <1>2, <1>3, <1>4

-----------------------------------------------------------------------------
(* What a step of a subscription makes of its locals. *)

LEMMA LocalParts ==
    /\ \A x \in Local : /\ x.phase \in SubPhase /\ x.aborted \in BOOLEAN
                        /\ x.key \in Keys \cup {None} /\ x.next \in Nat /\ x.token \in Nat
                        /\ x.order \in Order
    /\ NoOrder \in Order /\ Gone \in Local
    /\ Gone.phase = "gone" /\ ~Gone.aborted
<1>1. NoOrder \in Order
    BY WordAssumption DEF NoOrder, Order, U64
<1>2. Gone \in Local
    BY <1>1 DEF Gone, Local, SubPhase
<1>. QED  BY <1>1, <1>2 DEF Local, Gone

\* The locals it goes on with: an aborted task may be dropped on the way.
LEMMA Onward ==
    ASSUME TypeOK, NEW i \in Subs, NEW r \in Local, GoesOn(i, r)
    PROVE  \E y \in Local :
              /\ sub' = [sub EXCEPT ![i] = y]
              /\ \/ y = Gone
                 \/ y = r /\ ~(r.aborted /\ r.phase \in Suspended)
BY LocalParts DEF GoesOn

\* The task of x goes on as y.
SameTask(x, y) == y.aborted = x.aborted /\ y.key = x.key
SameLink(x, y) == SameTask(x, y) /\ y.next = x.next /\ y.autobuy = x.autobuy
ToLinked(x, y) == SameLink(x, y) /\ y.phase = "linked" /\ y.token = 0

LEMMA LinkedForm ==
    ASSUME NEW x \in Local
    PROVE  LET y == [x EXCEPT !.phase = "linked", !.token = 0, !.order = NoOrder]
           IN y \in Local /\ ToLinked(x, y)
BY LocalParts DEF Local, SubPhase, Connected, ToLinked, SameLink, SameTask

LEMMA DialingForm ==
    ASSUME NEW k \in Keys \cup {None}, NEW b \in BOOLEAN
    PROVE  /\ LET y == [Dialing(k) EXCEPT !.aborted = b]
              IN y \in Local /\ y.phase = "dialing" /\ y.aborted = b /\ y.key = k
           /\ Dialing(k) \in Local /\ Dialing(k).phase = "dialing" /\ ~Dialing(k).aborted
           /\ Panicked(k) \in Local /\ Panicked(k).phase = "panicked"
           /\ ~Panicked(k).aborted /\ Panicked(k).key = k
BY LocalParts DEF Local, SubPhase, Dialing, Panicked, Gone

\* What a dropped task leaves.
Over(y) == y = Gone \/ \E k \in Keys \cup {None} : y = Orphaned(k)

LEMMA OverForm ==
    ASSUME NEW y, Over(y)
    PROVE  y \in Local /\ y.phase \in {"orphaned", "gone"} /\ ~y.aborted
<1>1. \A k \in Keys \cup {None} :
        Orphaned(k) \in Local /\ Orphaned(k).phase = "orphaned" /\ ~Orphaned(k).aborted
    BY LocalParts DEF Local, SubPhase, Orphaned, Gone
<1>. QED  BY <1>1, LocalParts DEF Over

LEMMA AfterForm ==
    ASSUME TypeOK, NEW i \in Subs
    PROVE  Over(After(i)) /\ (sub[i] = Gone => After(i) = Gone)
<1>1. sub[i] \in Local /\ sub[i].key \in Keys \cup {None}
    BY LocalParts DEF TypeOK
<1>. QED  BY <1>1, LocalParts DEF After, Over

LEMMA PhaseForm ==
    ASSUME NEW x \in Local, NEW p \in SubPhase
    PROVE  LET y == [x EXCEPT !.phase = p]
           IN /\ y \in Local /\ SameLink(x, y)
              /\ y.phase = p /\ y.token = x.token /\ y.order = x.order
BY LocalParts DEF Local, SameLink, SameTask

LEMMA QuotingForm ==
    ASSUME NEW x \in Local, NEW u \in U64
    PROVE  LET y == [x EXCEPT !.phase = "quoting", !.order.unit_price = u]
           IN /\ y \in Local /\ SameLink(x, y)
              /\ y.phase = "quoting" /\ y.order.unit_price = u
BY LocalParts DEF Local, SubPhase, Connected, Buying, Order, SameLink, SameTask

LEMMA AbortedForm ==
    ASSUME NEW x \in Local
    PROVE  LET y == [x EXCEPT !.aborted = TRUE]
           IN /\ y \in Local /\ y.aborted /\ y.phase = x.phase /\ y.key = x.key
              /\ y.next = x.next /\ y.token = x.token /\ y.order = x.order
BY LocalParts DEF Local

-----------------------------------------------------------------------------
(* The steps of a subscription, as moves from the locals x to y. *)

\* A purchase that has been signed was priced with these parameters.
Priced(o, c, p) ==
    /\ o.token_amount = buy(c, p.lamport_amount)
    /\ o.max_cost = max_sol_cost(p.lamport_amount, p.slippage)
    /\ o.tip = p.bribe

MoveRegister(x, y) ==
    /\ x.phase = "dialing"
    /\ SameTask(x, y) /\ y.phase = "admitted" /\ y.next = sent + 1
MoveUpgrade(x, y) ==
    /\ x.phase = "admitted" /\ ~x.aborted
    /\ SameTask(x, y) /\ y.phase = "linked" /\ y.next = x.next
MoveAbandon(x, y) ==
    /\ x.phase = "admitted" /\ ~x.aborted
    /\ y.phase = "dialing" /\ ~y.aborted
MoveRead(x, y) ==
    /\ x.phase = "linked"
    /\ SameTask(x, y) /\ y.phase = "gate"
    /\ y.token \in x.next .. sent /\ y.next = y.token + 1
MoveEnds(x, y) ==
    /\ x.phase = "linked"
    /\ y.phase = "dialing" /\ y.aborted = x.aborted /\ ~x.aborted
MoveGate(x, y) ==
    /\ x.phase = "gate"
    /\ \/ ToLinked(x, y)
       \/ SameLink(x, y) /\ y.phase = "history" /\ y.token = x.token /\ ~x.aborted
MoveHistory(x, y) ==
    /\ x.phase = "history" /\ ~x.aborted
    /\ SameLink(x, y) /\ y.phase = "deciding" /\ y.token = x.token
MoveDecide(x, y) ==
    /\ x.phase = "deciding"
    /\ \/ ToLinked(x, y)
       \/ /\ SameLink(x, y) /\ y.phase = "quoting" /\ ~x.aborted
          /\ active
          /\ y.order.unit_price = micro_price(params.priority_fee)
MoveQuote(x, y) ==
    /\ x.phase = "quoting" /\ ~x.aborted
    /\ \/ ToLinked(x, y)
       \/ y.phase = "panicked" /\ ~y.aborted
       \/ /\ SameLink(x, y) /\ y.phase = "signing"
          /\ y.order.unit_price = x.order.unit_price
          /\ \E c \in Curves : ~c.complete /\ Priced(y.order, c, params)
MoveSign(x, y) ==
    /\ x.phase = "signing" /\ ~x.aborted
    /\ \/ ToLinked(x, y)
       \/ SameLink(x, y) /\ y.phase = "sending" /\ y.order = x.order
MoveSend(x, y) ==
    /\ x.phase = "sending" /\ ~x.aborted
    /\ ToLinked(x, y)

Move(x, y) ==
    \/ MoveRegister(x, y) \/ MoveUpgrade(x, y) \/ MoveAbandon(x, y)
    \/ MoveRead(x, y) \/ MoveEnds(x, y) \/ MoveGate(x, y)
    \/ MoveHistory(x, y) \/ MoveDecide(x, y) \/ MoveQuote(x, y) \/ MoveSign(x, y)
    \/ MoveSend(x, y)

LEMMA UnitPrice ==
    ASSUME TypeOK
    PROVE  micro_price(params.priority_fee) \in U64
<1>1. Word \in Nat /\ Word > 0 /\ params.priority_fee \in Nat
    BY ClientAssumption, WordAssumption DEF TypeOK, Params, U64
<1>2. (params.priority_fee * 25) \div 3 \in Int
    BY <1>1, SMT
<1>. QED  BY <1>1, <1>2, Remainder DEF micro_price, U64

LEMMA ReadsOnMoves ==
    ASSUME TypeOK, NEW i \in Subs, ReadsOn(i)
    PROVE  \E y \in Local : /\ sub' = [sub EXCEPT ![i] = y]
                            /\ y = Gone \/ ToLinked(sub[i], y)
<1> DEFINE r == [sub[i] EXCEPT !.phase = "linked", !.token = 0, !.order = NoOrder]
<1>1. sub[i] \in Local
    BY DEF TypeOK
<1>2. r \in Local /\ ToLinked(sub[i], r)
    BY <1>1, LinkedForm
<1>3. GoesOn(i, r)
    BY DEF ReadsOn
<1>. HIDE DEF r
<1>. QED  BY <1>2, <1>3, Onward

LEMMA RegisterMoves ==
    ASSUME TypeOK, NEW i \in Subs, Register(i)
    PROVE  \E y \in Local : /\ sub' = [sub EXCEPT ![i] = y]
                            /\ y = Gone \/ MoveRegister(sub[i], y)
<1>1. sub[i] \in Local /\ sent + 1 \in Nat
    BY ClientAssumption DEF TypeOK
<1> DEFINE y == [sub[i] EXCEPT !.phase = "admitted", !.next = sent + 1]
<1>2. y \in Local /\ SameTask(sub[i], y) /\ y.phase = "admitted" /\ y.next = sent + 1
    BY <1>1, LocalParts DEF Local, SubPhase, SameTask
<1>3. MoveRegister(sub[i], y)
    BY <1>2 DEF Register, MoveRegister
<1>4. sub' = [sub EXCEPT ![i] = y]
    BY DEF Register, TypeOK
<1>. QED  BY <1>2, <1>3, <1>4

LEMMA UpgradeMoves ==
    ASSUME TypeOK, NEW i \in Subs, Upgrade(i)
    PROVE  \E y \in Local : /\ sub' = [sub EXCEPT ![i] = y]
                            /\ y = Gone \/ MoveUpgrade(sub[i], y)
<1>1. sub[i] \in Local
    BY DEF TypeOK
<1>2. PICK b \in BOOLEAN : GoesOn(i, [sub[i] EXCEPT !.phase = "linked", !.autobuy = b])
    BY DEF Upgrade
<1> DEFINE r == [sub[i] EXCEPT !.phase = "linked", !.autobuy = b]
<1>3. r \in Local /\ SameTask(sub[i], r) /\ r.phase = "linked" /\ r.next = sub[i].next
    BY <1>1, LocalParts DEF Local, SubPhase, Connected, SameTask
<1>4. MoveUpgrade(sub[i], r)
    BY <1>3 DEF Upgrade, MoveUpgrade
<1>5. GoesOn(i, r)
    BY <1>2
<1>. HIDE DEF r
<1>. QED  BY <1>3, <1>4, <1>5, Onward

LEMMA AbandonMoves ==
    ASSUME TypeOK, NEW i \in Subs, Abandon(i)
    PROVE  \E y \in Local : /\ sub' = [sub EXCEPT ![i] = y]
                            /\ y = Gone \/ MoveAbandon(sub[i], y)
<1>1. Dialing(sub[i].key) \in Local /\ Dialing(sub[i].key).phase = "dialing"
      /\ ~Dialing(sub[i].key).aborted
    BY DialingForm, LocalParts DEF TypeOK
<1>2. MoveAbandon(sub[i], Dialing(sub[i].key)) /\ GoesOn(i, Dialing(sub[i].key))
    BY <1>1 DEF Abandon, MoveAbandon
<1>. QED  BY <1>1, <1>2, Onward

LEMMA ReadMoves ==
    ASSUME TypeOK, NEW i \in Subs, Read(i)
    PROVE  \E y \in Local : /\ sub' = [sub EXCEPT ![i] = y]
                            /\ y = Gone \/ MoveRead(sub[i], y)
<1>1. sub[i] \in Local /\ sub[i].next \in Nat
    BY LocalParts DEF TypeOK
<1>2. PICK n \in sub[i].next .. sent :
          GoesOn(i, [sub[i] EXCEPT !.phase = "gate", !.token = n, !.next = n + 1])
    BY DEF Read
<1> DEFINE r == [sub[i] EXCEPT !.phase = "gate", !.token = n, !.next = n + 1]
<1>3. n \in Nat /\ n + 1 \in Nat
    BY <1>1, ClientAssumption DEF TypeOK
<1>4. r \in Local /\ SameTask(sub[i], r) /\ r.phase = "gate" /\ r.token = n /\ r.next = n + 1
    BY <1>1, <1>3, LocalParts DEF Local, SubPhase, Connected, SameTask
<1>5. GoesOn(i, r)
    BY <1>2
<1>. HIDE DEF r
<1>6. MoveRead(sub[i], r)
    BY <1>2, <1>4 DEF Read, MoveRead
<1>. QED  BY <1>4, <1>5, <1>6, Onward

LEMMA LinkEndsMoves ==
    ASSUME TypeOK, NEW i \in Subs, LinkEnds(i)
    PROVE  \E y \in Local : /\ sub' = [sub EXCEPT ![i] = y]
                            /\ y = Gone \/ MoveEnds(sub[i], y)
<1> DEFINE r == [Dialing(sub[i].key) EXCEPT !.aborted = sub[i].aborted]
<1>1. sub[i].key \in Keys \cup {None} /\ sub[i].aborted \in BOOLEAN
    BY LocalParts DEF TypeOK
<1>2. r \in Local /\ r.phase = "dialing" /\ r.aborted = sub[i].aborted
    BY <1>1, DialingForm
<1>3. GoesOn(i, r) /\ sub[i].phase = "linked"
    BY DEF LinkEnds
<1>. HIDE DEF r
<1>4. PICK y \in Local : /\ sub' = [sub EXCEPT ![i] = y]
                         /\ \/ y = Gone
                            \/ y = r /\ ~(r.aborted /\ r.phase \in Suspended)
    BY <1>2, <1>3, Onward
<1>. QED  BY <1>2, <1>3, <1>4 DEF MoveEnds, Suspended

LEMMA GateMoves ==
    ASSUME TypeOK, NEW i \in Subs, Gate(i)
    PROVE  \E y \in Local : /\ sub' = [sub EXCEPT ![i] = y]
                            /\ y = Gone \/ MoveGate(sub[i], y)
<1>1. sub[i] \in Local /\ sub[i].phase = "gate"
    BY DEF TypeOK, Gate
<1>2. CASE ReadsOn(i)
    BY <1>1, <1>2, ReadsOnMoves DEF MoveGate
<1>3. CASE GoesOn(i, [sub[i] EXCEPT !.phase = "history"])
    <2> DEFINE r == [sub[i] EXCEPT !.phase = "history"]
    <2>1. r \in Local /\ SameLink(sub[i], r) /\ r.phase = "history" /\ r.token = sub[i].token
        BY <1>1, PhaseForm DEF SubPhase, Connected
    <2>2. GoesOn(i, r)
        BY <1>3
    <2>. HIDE DEF r
    <2>3. PICK y \in Local : /\ sub' = [sub EXCEPT ![i] = y]
                             /\ \/ y = Gone
                                \/ y = r /\ ~(r.aborted /\ r.phase \in Suspended)
        BY <2>1, <2>2, Onward
    <2>. QED  BY <1>1, <2>1, <2>3 DEF MoveGate, Suspended, SameLink, SameTask
<1>. QED  BY <1>2, <1>3 DEF Gate

LEMMA HistoryMoves ==
    ASSUME TypeOK, NEW i \in Subs, History(i)
    PROVE  \E y \in Local : /\ sub' = [sub EXCEPT ![i] = y]
                            /\ y = Gone \/ MoveHistory(sub[i], y)
<1> DEFINE r == [sub[i] EXCEPT !.phase = "deciding"]
<1>1. sub[i] \in Local /\ sub[i].phase = "history" /\ ~sub[i].aborted
    BY DEF TypeOK, History
<1>2. r \in Local /\ SameLink(sub[i], r) /\ r.phase = "deciding" /\ r.token = sub[i].token
    BY <1>1, PhaseForm DEF SubPhase, Connected
<1>3. GoesOn(i, r)
    BY DEF History
<1>. HIDE DEF r
<1>4. MoveHistory(sub[i], r)
    BY <1>1, <1>2 DEF MoveHistory
<1>. QED  BY <1>2, <1>3, <1>4, Onward

LEMMA DecideMoves ==
    ASSUME TypeOK, NEW i \in Subs, Decide(i)
    PROVE  \E y \in Local : /\ sub' = [sub EXCEPT ![i] = y]
                            /\ y = Gone \/ MoveDecide(sub[i], y)
<1> DEFINE u == micro_price(params.priority_fee)
<1>1. sub[i] \in Local /\ sub[i].phase = "deciding"
    BY DEF TypeOK, Decide
<1>2. CASE ReadsOn(i)
    BY <1>1, <1>2, ReadsOnMoves DEF MoveDecide
<1>3. CASE active /\ GoesOn(i, [sub[i] EXCEPT !.phase = "quoting", !.order.unit_price = u])
    <2> DEFINE r == [sub[i] EXCEPT !.phase = "quoting", !.order.unit_price = u]
    <2>1. u \in U64
        BY UnitPrice
    <2>2. GoesOn(i, r)
        BY <1>3
    <2>. HIDE DEF u
    <2>3. /\ r \in Local /\ SameLink(sub[i], r) /\ r.phase = "quoting"
          /\ r.order.unit_price = u
        BY <1>1, <2>1, QuotingForm
    <2>. HIDE DEF r
    <2>4. PICK y \in Local : /\ sub' = [sub EXCEPT ![i] = y]
                             /\ \/ y = Gone
                                \/ y = r /\ ~(r.aborted /\ r.phase \in Suspended)
        BY <2>2, <2>3, Onward
    <2>. QED  BY <1>1, <1>3, <2>3, <2>4 DEF MoveDecide, Suspended, Buying, SameLink, SameTask, u
<1>. QED  BY <1>2, <1>3 DEF Decide

LEMMA QuoteMoves ==
    ASSUME TypeOK, NEW i \in Subs, Quote(i)
    PROVE  \E y \in Local : /\ sub' = [sub EXCEPT ![i] = y]
                            /\ y = Gone \/ MoveQuote(sub[i], y)
<1>1. sub[i] \in Local /\ sub[i].phase = "quoting" /\ ~sub[i].aborted /\ params \in Params
    BY ClientAssumption DEF TypeOK, Quote
<1>2. CASE ReadsOn(i)
    BY <1>1, <1>2, ReadsOnMoves DEF MoveQuote
<1>3. CASE GoesOn(i, Panicked(sub[i].key))
    <2>1. /\ Panicked(sub[i].key) \in Local /\ Panicked(sub[i].key).phase = "panicked"
          /\ ~Panicked(sub[i].key).aborted
        BY <1>1, LocalParts, DialingForm
    <2>2. MoveQuote(sub[i], Panicked(sub[i].key))
        BY <1>1, <2>1 DEF MoveQuote
    <2>. QED  BY <1>3, <2>1, <2>2, Onward
<1>4. ASSUME NEW c \in Curves, ~c.complete,
             GoesOn(i, [sub[i] EXCEPT !.phase = "signing",
                     !.order.token_amount = buy(c, params.lamport_amount),
                     !.order.max_cost = max_sol_cost(params.lamport_amount, params.slippage),
                     !.order.tip = params.bribe])
      PROVE  \E y \in Local : /\ sub' = [sub EXCEPT ![i] = y]
                              /\ y = Gone \/ MoveQuote(sub[i], y)
    <2> DEFINE t == buy(c, params.lamport_amount)
               m == max_sol_cost(params.lamport_amount, params.slippage)
               b == params.bribe
               r == [sub[i] EXCEPT !.phase = "signing", !.order.token_amount = t,
                              !.order.max_cost = m, !.order.tip = b]
    <2>1. c \in Curve
        BY ClientAssumption
    <2>2. t \in U64 /\ m \in U64 /\ b \in U64
        BY <1>1, <2>1, PartsAreU64
    <2>3. GoesOn(i, r)
        BY <1>4
    <2>. HIDE DEF t, m, b
    <2>4. /\ r \in Local /\ SameLink(sub[i], r) /\ r.phase = "signing"
          /\ r.order.unit_price = sub[i].order.unit_price
          /\ r.order.token_amount = t /\ r.order.max_cost = m /\ r.order.tip = b
        BY <1>1, <2>2, LocalParts
           DEF Local, SubPhase, Connected, Buying, Order, SameLink, SameTask
    <2>. HIDE DEF r
    <2>5. Priced(r.order, c, params)
        BY <2>4 DEF Priced, t, m, b
    <2>6. MoveQuote(sub[i], r)
        BY <1>1, <1>4, <2>4, <2>5 DEF MoveQuote
    <2>. QED  BY <2>3, <2>4, <2>6, Onward
<1>. QED  BY <1>2, <1>3, <1>4 DEF Quote

LEMMA SignMoves ==
    ASSUME TypeOK, NEW i \in Subs, Sign(i)
    PROVE  \E y \in Local : /\ sub' = [sub EXCEPT ![i] = y]
                            /\ y = Gone \/ MoveSign(sub[i], y)
<1>1. sub[i] \in Local /\ sub[i].phase = "signing" /\ ~sub[i].aborted
    BY DEF TypeOK, Sign
<1>2. CASE ReadsOn(i)
    BY <1>1, <1>2, ReadsOnMoves DEF MoveSign
<1>3. CASE GoesOn(i, [sub[i] EXCEPT !.phase = "sending"])
    <2> DEFINE r == [sub[i] EXCEPT !.phase = "sending"]
    <2>1. r \in Local /\ SameLink(sub[i], r) /\ r.phase = "sending" /\ r.order = sub[i].order
        BY <1>1, PhaseForm DEF SubPhase, Connected, Buying
    <2>2. GoesOn(i, r)
        BY <1>3
    <2>. HIDE DEF r
    <2>3. MoveSign(sub[i], r)
        BY <1>1, <2>1 DEF MoveSign
    <2>. QED  BY <2>1, <2>2, <2>3, Onward
<1>. QED  BY <1>2, <1>3 DEF Sign

LEMMA SendMoves ==
    ASSUME TypeOK, NEW i \in Subs, Send(i)
    PROVE  \E y \in Local : /\ sub' = [sub EXCEPT ![i] = y]
                            /\ y = Gone \/ MoveSend(sub[i], y)
BY ReadsOnMoves DEF Send, MoveSend

\* A request of an aborted task may outlive it.
Ending(x, y) ==
    \/ y = Gone
    \/ x.aborted /\ \E k \in Keys \cup {None} : y = Orphaned(k)

LEMMA EndingForm ==
    ASSUME NEW x, NEW y, Ending(x, y)
    PROVE  Over(y)
BY DEF Ending, Over

\* Every step of a subscription ends it or is one of the moves.
LEMMA SubscriptionMoves ==
    ASSUME TypeOK, NEW i \in Subs, Subscription(i)
    PROVE  \E y \in Local : /\ sub' = [sub EXCEPT ![i] = y]
                            /\ Ending(sub[i], y) \/ Move(sub[i], y)
<1>1. CASE Drop(i)
    <2>1. sub' = [sub EXCEPT ![i] = After(i)]
        BY <1>1 DEF Drop
    <2>2. Over(After(i)) /\ After(i) \in Local
        BY AfterForm, OverForm
    <2>3. sub[i].aborted
        BY <1>1 DEF Drop
    <2>. QED  BY <2>1, <2>2, <2>3 DEF Ending, Over
<1>2. CASE LateRequest(i)
    BY <1>2, LocalParts DEF LateRequest, Ending
<1>3. \A y : y = Gone => Ending(sub[i], y)
    BY DEF Ending
<1>. QED
    BY <1>1, <1>2, <1>3, RegisterMoves, UpgradeMoves, AbandonMoves, ReadMoves, LinkEndsMoves, GateMoves, HistoryMoves, DecideMoves,
       QuoteMoves, SignMoves, SendMoves DEF Subscription, Handle, Move

-----------------------------------------------------------------------------
(* The inductive invariant: logins and their subscriptions, tokens in hand. *)

Holding == {"gate", "history", "deciding"}

\* Every subscription answers a login: what is published and not yet seen, and
\* what is seen and not yet spawned, counts as well.
Versions ==
    /\ sup.seen <= chan.ver /\ chan.ver <= logins
    /\ started + (chan.ver - sup.seen) + (IF sup.pc = "reading" THEN 1 ELSE 0) <= logins

\* The last subscription alone is not aborted.
Slots ==
    \A i \in Subs :
        /\ i > started => sub[i] = Gone
        /\ sub[i].phase \notin {"orphaned", "gone"} /\ ~sub[i].aborted => i = started

\* A token in hand has been broadcast, and the link does not yield it again.
Sound(x, s) ==
    /\ x.phase \in Connected \cup {"admitted"} => x.next >= 1
    /\ x.phase \in Holding => x.token \in 1 .. s /\ x.token < x.next

InHand == \A i \in Subs : Sound(sub[i], sent)

\* Automatic purchases are possible after the server has enabled them only.
Permitted ==
    /\ enabled \/ active \/ bought => onceEnabled
    /\ \A i \in Subs : sub[i].phase \in Buying => onceEnabled

ClientInv == TypeOK /\ Versions /\ Slots /\ InHand /\ Permitted /\ LoggedInKeyIsSaved

LEMMA MoveSound ==
    ASSUME NEW x \in Local, NEW y \in Local, Move(x, y), Sound(x, sent), sent \in Nat
    PROVE  Sound(y, sent)
<1> USE DEF Sound, Connected, Holding, Buying, SameLink, ToLinked
<1>1. x.next \in Nat /\ y.next \in Nat /\ y.token \in Nat
    BY LocalParts
<1>2. CASE \/ MoveRegister(x, y) \/ MoveUpgrade(x, y) \/ MoveAbandon(x, y)
           \/ MoveRead(x, y) \/ MoveEnds(x, y)
    BY <1>1, <1>2 DEF MoveRegister, MoveUpgrade, MoveAbandon, MoveRead, MoveEnds
<1>3. CASE MoveGate(x, y) \/ MoveHistory(x, y) \/ MoveDecide(x, y)
    BY <1>1, <1>3 DEF MoveGate, MoveHistory, MoveDecide
<1>4. CASE MoveQuote(x, y) \/ MoveSign(x, y) \/ MoveSend(x, y)
    BY <1>1, <1>4 DEF MoveQuote, MoveSign, MoveSend
<1>. QED  BY <1>2, <1>3, <1>4 DEF Move

LEMMA MoveAlive ==
    ASSUME NEW x \in Local, NEW y \in Local, Move(x, y)
    PROVE  x.phase \notin {"orphaned", "gone"} /\ (~y.aborted => ~x.aborted)
<1> USE DEF SameLink, SameTask, ToLinked
<1>1. CASE \/ MoveRegister(x, y) \/ MoveUpgrade(x, y) \/ MoveAbandon(x, y)
           \/ MoveRead(x, y) \/ MoveEnds(x, y)
    BY <1>1 DEF MoveRegister, MoveUpgrade, MoveAbandon, MoveRead, MoveEnds
<1>2. CASE MoveGate(x, y) \/ MoveHistory(x, y) \/ MoveDecide(x, y)
    BY <1>2 DEF MoveGate, MoveHistory, MoveDecide
<1>3. CASE MoveQuote(x, y) \/ MoveSign(x, y) \/ MoveSend(x, y)
    BY <1>3 DEF MoveQuote, MoveSign, MoveSend
<1>. QED  BY <1>1, <1>2, <1>3 DEF Move

LEMMA SpawnParts ==
    ASSUME TypeOK, Slots, Spawn
    PROVE  /\ sub' \in [Subs -> Local]
           /\ started + 1 \in Subs => sub'[started + 1] = Dialing(chan.key)
           /\ \A i \in Subs \ {started + 1} :
                 \/ sub'[i] = sub[i] /\ (i = started => sub[i].phase \in {"orphaned", "gone"})
                 \/ /\ i = started /\ sub[i].phase \notin {"orphaned", "gone"}
                    /\ sub'[i] = [sub[i] EXCEPT !.aborted = TRUE]
<1>1. Dialing(chan.key) \in Local
    BY DialingForm DEF TypeOK
<1>2. \A i \in Subs : sub[i] \in Local /\ [sub[i] EXCEPT !.aborted = TRUE] \in Local
    BY AbortedForm DEF TypeOK
<1>. QED  BY <1>1, <1>2 DEF Spawn

LEMMA EntriesTyped ==
    ASSUME TypeOK, NEW S \in SUBSET Subs, LeaveEntries(S)
    PROVE  session' \in [Keys -> 0 .. MaxLogins] /\ stuck' \subseteq Keys
<1>1. UNION {Unanswered(i) : i \in S} \subseteq Keys
    BY DEF Unanswered
<1>2. PICK failed \in SUBSET Keys :
          /\ session' = [k \in Keys |-> IF k \in failed THEN 0 ELSE session[k]]
          /\ stuck' = stuck \cup failed
    BY <1>1 DEF LeaveEntries
<1>. QED  BY <1>2, ClientAssumption DEF TypeOK

LEMMA RelaunchParts ==
    ASSUME TypeOK, Relaunch
    PROVE  /\ \A i \in Subs : Over(sub'[i]) /\ (sub[i] = Gone => sub'[i] = Gone)
           /\ sub' \in [Subs -> Local]
           /\ session' \in [Keys -> 0 .. MaxLogins] /\ stuck' \subseteq Keys
<1>1. sub' = [i \in Subs |-> After(i)]
    BY DEF Relaunch
<1>2. \A i \in Subs : Over(sub'[i]) /\ (sub[i] = Gone => sub'[i] = Gone)
    BY <1>1, AfterForm
<1>3. \A i \in Subs : sub'[i] \in Local
    BY <1>2, OverForm
<1>4. session' \in [Keys -> 0 .. MaxLogins] /\ stuck' \subseteq Keys
    BY EntriesTyped DEF Relaunch
<1>. QED  BY <1>1, <1>2, <1>3, <1>4

LEMMA SubscriptionTyped ==
    ASSUME TypeOK, InHand, NEW i \in Subs, Subscription(i)
    PROVE  TypeOK'
<1> USE DEF guiVars, supVars, serverVars, automataVars, historyVars
<1>1. sub' \in [Subs -> Local]
    <2>1. PICK y \in Local : sub' = [sub EXCEPT ![i] = y]
        BY SubscriptionMoves
    <2>. QED  BY <2>1 DEF TypeOK
<1>2. sub[i] \in Local /\ i \in 0 .. MaxLogins
    BY ClientAssumption DEF TypeOK, Subs
<1>3. CASE Register(i) \/ Abandon(i) \/ Drop(i) \/ LateRequest(i)
    <2>1. session' \in [Keys -> 0 .. MaxLogins] /\ stuck' \subseteq Keys
        <3>1. CASE Abandon(i) \/ Drop(i)
            BY <3>1, EntriesTyped DEF Abandon, Drop
        <3>2. CASE Register(i)
            BY <1>2, <3>2 DEF Register, TypeOK
        <3>3. CASE LateRequest(i)
            <4>1. CASE UNCHANGED <<session, stuck>>
                BY <4>1 DEF TypeOK
            <4>2. ASSUME NEW k \in Keys,
                         \/ session' = [session EXCEPT ![k] = i] /\ stuck' = stuck
                         \/ session' = session /\ stuck' = stuck \cup {k}
                  PROVE  session' \in [Keys -> 0 .. MaxLogins] /\ stuck' \subseteq Keys
                BY <1>2, <4>2 DEF TypeOK
            <4>. QED  BY <3>3, <4>1, <4>2 DEF LateRequest
        <3>. QED  BY <1>3, <3>1, <3>2, <3>3
    <2>. QED  BY <1>1, <1>3, <2>1 DEF Register, Abandon, Drop, LateRequest, TypeOK
<1>4. CASE Upgrade(i) \/ Read(i) \/ LinkEnds(i) \/ History(i) \/ Quote(i) \/ Send(i)
    BY <1>1, <1>4 DEF Upgrade, Read, LinkEnds, History, Quote, Send, TypeOK
<1>5. CASE Gate(i)
    <2>1. sub[i].autobuy \in BOOLEAN
        BY <1>2 DEF Local
    <2>. QED  BY <1>1, <1>5, <2>1 DEF Gate, TypeOK
<1>6. CASE Decide(i)
    <2>1. sub[i].token \in 1 .. MaxSent
        BY <1>2, <1>6, ClientAssumption DEF Decide, InHand, Sound, Holding, TypeOK
    <2>2. decided' \subseteq Subs \X (1 .. MaxSent)
        BY <1>6, <2>1 DEF Decide, TypeOK
    <2>. QED  BY <1>1, <1>6, <2>2 DEF Decide, TypeOK
<1>7. CASE Sign(i)
    BY <1>1, <1>7 DEF Sign, TypeOK
<1>. QED
    BY <1>3, <1>4, <1>5, <1>6, <1>7 DEF Subscription, Handle

LEMMA StepTyped ==
    ASSUME TypeOK, Versions, Slots, InHand, [Next]_vars
    PROVE  TypeOK'
<1> USE DEF guiVars, supVars, serverVars, automataVars, historyVars
<1>1. /\ logins \in Nat /\ started \in Nat /\ chan.ver \in 0 .. MaxLogins
      /\ MaxLogins \in Nat \ {0} /\ MaxSent \in Nat /\ sup.seen \in 0 .. MaxLogins
      /\ logins <= MaxLogins /\ sent \in Nat
    BY ClientAssumption DEF TypeOK
<1>2. ASSUME NEW k \in Keys, Login(k) PROVE TypeOK'
    <2>1. CASE Publish(k)
        <3>1. /\ logins' \in 0 .. MaxLogins
              /\ chan' = [key |-> k, ver |-> chan.ver + 1] /\ chan.ver + 1 \in 0 .. MaxLogins
            BY <1>1, <2>1 DEF Publish, Versions
        <3>2. chan' \in [key : Keys \cup {None}, ver : 0 .. MaxLogins]
            BY <3>1
        <3>. QED  BY <1>2, <3>1, <3>2 DEF Login, TypeOK
    <2>2. CASE UNCHANGED <<loggedIn, logins, chan>>
        BY <1>2, <2>2 DEF Login, TypeOK
    <2>. QED  BY <1>2, <2>1, <2>2 DEF Login
<1>3. CASE Logout \/ Toggle \/ \E p \in ParamSet : EditParams(p)
    BY <1>3 DEF Logout, Toggle, EditParams, TypeOK
<1>4. CASE Changed
    BY <1>4, <1>1 DEF Changed, TypeOK
<1>5. CASE Spawn
    <2>1. started' \in 0 .. MaxLogins
        BY <1>1, <1>5 DEF Spawn, Versions
    <2>2. sup' \in [pc : {"waiting", "reading"}, seen : 0 .. MaxLogins]
        BY <1>5 DEF Spawn, TypeOK
    <2>3. sub' \in [Subs -> Local]
        BY <1>5, SpawnParts
    <2>. QED  BY <1>5, <2>1, <2>2, <2>3 DEF Spawn, TypeOK
<1>6. ASSUME NEW i \in Subs, Subscription(i) PROVE TypeOK'
    BY <1>6, SubscriptionTyped
<1>7. CASE Broadcast
    BY <1>1, <1>7 DEF Broadcast, TypeOK
<1>8. ASSUME NEW k \in Keys, Release(k) \/ Clear(k) PROVE TypeOK'
    BY <1>1, <1>8 DEF Release, Clear, TypeOK
<1>9. CASE Relaunch
    <2>1. loggedIn' \in BOOLEAN /\ logins' \in 0 .. MaxLogins
        BY <1>1, <1>9 DEF Relaunch, Launch, TypeOK
    <2>2. chan' \in [key : Keys \cup {None}, ver : 0 .. MaxLogins]
        BY <1>1, <1>9 DEF Relaunch, Launch, TypeOK
    <2>3. sup' \in [pc : {"waiting", "reading"}, seen : 0 .. MaxLogins]
        BY <1>1, <1>9 DEF Relaunch
    <2>4. /\ sub' \in [Subs -> Local]
          /\ session' \in [Keys -> 0 .. MaxLogins] /\ stuck' \subseteq Keys
        BY <1>9, RelaunchParts
    <2>. QED  BY <1>9, <2>1, <2>2, <2>3, <2>4 DEF Relaunch, TypeOK
<1>10. CASE UNCHANGED vars
    BY <1>10 DEF vars, TypeOK
<1>. QED
    BY <1>2, <1>3, <1>4, <1>5, <1>6, <1>7, <1>8, <1>9, <1>10 DEF Next, Gui, Supervisor

LEMMA StepVersions ==
    ASSUME TypeOK, Versions, [Next]_vars
    PROVE  Versions'
<1> USE DEF guiVars, supVars, serverVars, automataVars, historyVars, Versions
<1>1. /\ logins \in Nat /\ started \in Nat /\ chan.ver \in Nat /\ sup.seen \in Nat
      /\ sup.pc \in {"waiting", "reading"}
    BY ClientAssumption DEF TypeOK
<1>2. ASSUME NEW k \in Keys, Login(k) PROVE Versions'
    <2>1. CASE Publish(k)
        <3>1. logins' = logins + 1 /\ chan'.ver = chan.ver + 1 /\ sup' = sup /\ started' = started
            BY <1>2, <2>1 DEF Login, Publish
        <3>. QED  BY <1>1, <3>1
    <2>2. CASE UNCHANGED <<loggedIn, logins, chan>>
        BY <1>2, <2>2 DEF Login
    <2>. QED  BY <1>2, <2>1, <2>2 DEF Login
<1>3. CASE Changed
    <2>1. /\ sup'.pc = "reading" /\ sup'.seen = chan.ver /\ sup.pc = "waiting"
          /\ sup.seen # chan.ver
        BY <1>3 DEF Changed
    <2>2. UNCHANGED <<chan, logins, started>>
        BY <1>3 DEF Changed
    <2>. QED  BY <1>1, <2>1, <2>2
<1>4. CASE Spawn
    <2>1. sup'.pc = "waiting" /\ sup'.seen = sup.seen /\ sup.pc = "reading"
        BY <1>4 DEF Spawn, TypeOK
    <2>2. UNCHANGED <<chan, logins>> /\ started' = started + 1
        BY <1>4 DEF Spawn
    <2>. QED  BY <1>1, <2>1, <2>2
<1>5. CASE Relaunch
    <2>1. sup'.pc = "waiting" /\ sup'.seen = 0 /\ started' = started
        BY <1>5 DEF Relaunch
    <2>2. \/ logins' = logins /\ chan'.ver = 0
          \/ logins' = logins + 1 /\ chan'.ver = 1
        BY <1>1, <1>5 DEF Relaunch, Launch
    <2>. QED  BY <1>1, <2>1, <2>2
<1>6. CASE UNCHANGED <<logins, chan, sup, started>>
    BY <1>6
<1>7. ASSUME NEW i \in Subs, Subscription(i) PROVE UNCHANGED <<logins, chan, sup, started>>
    BY <1>7 DEF Subscription, Handle, Register, Upgrade, Abandon, LateRequest, Read, LinkEnds, Gate, History, Decide, Quote,
       Sign, Send, Drop
<1>8. CASE Logout \/ Toggle \/ (\E p \in ParamSet : EditParams(p)) \/ Broadcast
           \/ (\E k \in Keys : Release(k) \/ Clear(k)) \/ UNCHANGED vars
    BY <1>6, <1>8 DEF Logout, Toggle, EditParams, Broadcast, Release, Clear, vars
<1>. QED
    BY <1>2, <1>3, <1>4, <1>5, <1>6, <1>7, <1>8 DEF Next, Gui, Supervisor

\* The steps that leave every subscription alone.
Elsewhere ==
    \/ (\E k \in Keys : Login(k)) \/ Logout \/ Toggle \/ (\E p \in ParamSet : EditParams(p))
    \/ Changed \/ Broadcast \/ (\E k \in Keys : Release(k) \/ Clear(k)) \/ UNCHANGED vars

LEMMA ElsewhereParts ==
    ASSUME TypeOK, Elsewhere
    PROVE  /\ UNCHANGED <<sub, started, decided, bought, onceEnabled, enabled>>
           /\ sent' \in {sent, sent + 1}
           /\ active' # active => loggedIn /\ enabled
           /\ params' # params => ~AutomataHeld
BY DEF Elsewhere, Login, Logout, Toggle, EditParams, Changed, Broadcast, Release, Clear, vars,
       guiVars, supVars, serverVars, automataVars, historyVars

LEMMA NextParts ==
    ASSUME [Next]_vars
    PROVE  Elsewhere \/ Spawn \/ (\E i \in Subs : Subscription(i)) \/ Relaunch
BY DEF Next, Gui, Supervisor, Elsewhere

LEMMA SubscriptionFrame ==
    ASSUME NEW i \in Subs, Subscription(i)
    PROVE  /\ UNCHANGED <<started, sent, params, active, file, loggedIn, logins, chan>>
           /\ onceEnabled' = (onceEnabled \/ enabled') \/ UNCHANGED <<onceEnabled, enabled>>
           /\ bought' # bought => Sign(i)
           /\ decided' # decided => Decide(i)
BY DEF Subscription, Handle, Register, Upgrade, Abandon, LateRequest, Read, LinkEnds, Gate, History, Decide, Quote, Sign, Send,
       Drop, guiVars, supVars, serverVars, automataVars, historyVars

LEMMA StepSlots ==
    ASSUME TypeOK, Slots, [Next]_vars
    PROVE  Slots'
<1>1. CASE Elsewhere
    <2>1. UNCHANGED <<sub, started>>
        BY <1>1, ElsewhereParts
    <2>. QED  BY <2>1 DEF Slots
<1>2. CASE Spawn
    <2>1. started' = started + 1 /\ started \in Nat
        BY <1>2, ClientAssumption DEF Spawn, TypeOK
    <2> SUFFICES ASSUME NEW i \in Subs
                 PROVE  /\ i > started + 1 => sub'[i] = Gone
                        /\ sub'[i].phase \notin {"orphaned", "gone"} /\ ~sub'[i].aborted
                             => i = started + 1
        BY <2>1 DEF Slots
    <2>2. i \in Nat /\ sub[i] \in Local
        BY DEF Subs, TypeOK
    <2>3. CASE i = started + 1
        BY <2>1, <2>3
    <2>4. CASE i # started + 1
        <3>1. CASE i = started /\ sub'[i] = [sub[i] EXCEPT !.aborted = TRUE]
            <4>1. sub'[i].aborted
                BY <2>2, <3>1, AbortedForm
            <4>. QED  BY <2>1, <3>1, <4>1
        <3>2. CASE sub'[i] = sub[i] /\ (i = started => sub[i].phase \in {"orphaned", "gone"})
            BY <2>1, <2>2, <2>4, <3>2 DEF Slots
        <3>. QED  BY <1>2, <2>4, <3>1, <3>2, SpawnParts
    <2>. QED  BY <2>3, <2>4
<1>3. ASSUME NEW i \in Subs, Subscription(i) PROVE Slots'
    <2>1. PICK y \in Local : sub' = [sub EXCEPT ![i] = y] /\ (Ending(sub[i], y) \/ Move(sub[i], y))
        BY <1>3, SubscriptionMoves
    <2>2. started' = started
        BY <1>3, SubscriptionFrame
    <2>3. \A j \in Subs : sub'[j] = IF j = i THEN y ELSE sub[j]
        BY <2>1 DEF TypeOK
    <2>4. CASE Ending(sub[i], y)
        <3>1. y.phase \in {"orphaned", "gone"}
            BY <2>4, EndingForm, OverForm
        <3>2. i > started => y = Gone
            BY <2>4, LocalParts DEF Ending, Slots
        <3>. QED  BY <2>2, <2>3, <3>1, <3>2 DEF Slots
    <2>5. CASE Move(sub[i], y)
        <3>1. sub[i] \in Local
            BY DEF TypeOK
        <3>2. sub[i].phase \notin {"orphaned", "gone"} /\ (~y.aborted => ~sub[i].aborted)
            BY <2>5, <3>1, MoveAlive
        <3>3. ~(i > started)
            BY <3>2, LocalParts DEF Slots
        <3>. QED  BY <2>2, <2>3, <3>2, <3>3 DEF Slots
    <2>. QED  BY <2>1, <2>4, <2>5
<1>4. CASE Relaunch
    <2>1. started' = started
        BY <1>4 DEF Relaunch
    <2>. QED  BY <1>4, <2>1, RelaunchParts, OverForm DEF Slots
<1>. QED  BY <1>1, <1>2, <1>3, <1>4, NextParts

LEMMA SoundForms ==
    ASSUME NEW s \in Nat
    PROVE  /\ \A y : Over(y) => Sound(y, s)
           /\ \A k \in Keys \cup {None} : Sound(Dialing(k), s)
           /\ \A x \in Local : Sound(x, s) => /\ Sound(x, s + 1)
                                              /\ Sound([x EXCEPT !.aborted = TRUE], s)
<1>1. ASSUME NEW y, Over(y) PROVE Sound(y, s)
    BY <1>1, OverForm DEF Sound, Connected, Holding, Buying
<1>2. ASSUME NEW k \in Keys \cup {None} PROVE Sound(Dialing(k), s)
    BY DialingForm DEF Sound, Connected, Holding, Buying
<1>3. ASSUME NEW x \in Local, Sound(x, s)
      PROVE  Sound(x, s + 1) /\ Sound([x EXCEPT !.aborted = TRUE], s)
    <2>1. Sound(x, s + 1)
        BY <1>3, LocalParts DEF Sound
    <2>2. Sound([x EXCEPT !.aborted = TRUE], s)
        BY <1>3, AbortedForm DEF Sound
    <2>. QED  BY <2>1, <2>2
<1>. QED  BY <1>1, <1>2, <1>3

LEMMA StepInHand ==
    ASSUME TypeOK, Slots, InHand, [Next]_vars
    PROVE  InHand'
<1>1. sent \in Nat /\ \A i \in Subs : sub[i] \in Local /\ Sound(sub[i], sent)
    BY ClientAssumption DEF TypeOK, InHand
<1>2. CASE Elsewhere
    <2>1. sub' = sub /\ sent' \in {sent, sent + 1}
        BY <1>2, ElsewhereParts
    <2>2. ASSUME NEW i \in Subs PROVE Sound(sub'[i], sent')
        BY <1>1, <2>1, SoundForms
    <2>. QED  BY <2>2 DEF InHand, Sound
<1>3. CASE Spawn
    <2>1. sent' = sent /\ chan.key \in Keys \cup {None}
        BY <1>3 DEF Spawn, serverVars, TypeOK
    <2>2. ASSUME NEW i \in Subs PROVE Sound(sub'[i], sent)
        <3>1. CASE i = started + 1
            BY <1>1, <1>3, <2>1, <3>1, SpawnParts, SoundForms
        <3>2. CASE i # started + 1
            BY <1>1, <1>3, <3>2, SpawnParts, SoundForms
        <3>. QED  BY <3>1, <3>2
    <2>. QED  BY <2>1, <2>2 DEF InHand, Sound
<1>4. ASSUME NEW i \in Subs, Subscription(i) PROVE InHand'
    <2>1. PICK y \in Local : sub' = [sub EXCEPT ![i] = y] /\ (Ending(sub[i], y) \/ Move(sub[i], y))
        BY <1>4, SubscriptionMoves
    <2>2. sent' = sent
        BY <1>4, SubscriptionFrame
    <2>3. \A j \in Subs : sub'[j] = IF j = i THEN y ELSE sub[j]
        BY <2>1 DEF TypeOK
    <2>4. Sound(y, sent)
        BY <1>1, <2>1, SoundForms, MoveSound, EndingForm
    <2>5. \A j \in Subs : Sound(sub'[j], sent)
        BY <1>1, <2>3, <2>4
    <2>. QED  BY <2>2, <2>5 DEF InHand, Sound
<1>5. CASE Relaunch
    <2>1. \A i \in Subs : Over(sub'[i])
        BY <1>5, RelaunchParts
    <2>2. sent' = sent
        BY <1>5 DEF Relaunch
    <2>. QED  BY <1>1, <2>1, <2>2, SoundForms DEF InHand, Sound
<1>. QED  BY <1>2, <1>3, <1>4, <1>5, NextParts

\* A purchase begins where the switch is on, and goes on from there.
LEMMA MoveBuying ==
    ASSUME NEW x \in Local, NEW y \in Local, Move(x, y), y.phase \in Buying
    PROVE  x.phase \in Buying \/ (MoveDecide(x, y) /\ active)
<1>1. CASE \/ MoveRegister(x, y) \/ MoveUpgrade(x, y) \/ MoveAbandon(x, y)
           \/ MoveRead(x, y) \/ MoveEnds(x, y)
    BY <1>1 DEF MoveRegister, MoveUpgrade, MoveAbandon, MoveRead, MoveEnds, Buying
<1>2. CASE MoveGate(x, y) \/ MoveHistory(x, y) \/ MoveDecide(x, y)
    BY <1>2 DEF MoveGate, MoveHistory, MoveDecide, ToLinked, Buying
<1>3. CASE MoveQuote(x, y) \/ MoveSign(x, y) \/ MoveSend(x, y)
    <2>1. x.phase \in {"quoting", "signing", "sending"}
        BY <1>3 DEF MoveQuote, MoveSign, MoveSend
    <2>2. x.phase \in Buying
        BY <2>1, Zenon DEF Buying
    <2>. QED  BY <2>2, Zenon
<1>. QED  BY <1>1, <1>2, <1>3 DEF Move

LEMMA StepPermitted ==
    ASSUME TypeOK, Slots, Permitted, [Next]_vars
    PROVE  Permitted'
<1>1. CASE Elsewhere
    <2>1. /\ UNCHANGED <<sub, bought, onceEnabled, enabled>>
          /\ active' # active => enabled
        BY <1>1, ElsewhereParts
    <2>. QED  BY <2>1 DEF Permitted
<1>2. CASE Spawn
    <2>1. UNCHANGED <<enabled, active, bought, onceEnabled>>
        BY <1>2 DEF Spawn, automataVars, historyVars
    <2>2. ASSUME NEW i \in Subs, sub'[i].phase \in Buying PROVE onceEnabled
        <3>1. sub[i].phase \in Buying
            <4>1. sub[i] \in Local /\ chan.key \in Keys \cup {None}
                BY DEF TypeOK
            <4>2. CASE i = started + 1
                <5>1. sub'[i] = Dialing(chan.key)
                    BY <1>2, <4>2, SpawnParts
                <5>2. Dialing(chan.key).phase = "dialing"
                    BY <4>1, DialingForm
                <5>. QED  BY <2>2, <5>1, <5>2 DEF Buying
            <4>3. CASE i # started + 1
                <5>1. sub'[i] = sub[i] \/ sub'[i] = [sub[i] EXCEPT !.aborted = TRUE]
                    BY <1>2, <4>3, SpawnParts
                <5>2. sub'[i].phase = sub[i].phase
                    BY <4>1, <5>1, AbortedForm
                <5>. QED  BY <2>2, <5>2
            <4>. QED  BY <4>2, <4>3
        <3>. QED  BY <3>1 DEF Permitted
    <2>. QED  BY <2>1, <2>2 DEF Permitted
<1>3. ASSUME NEW i \in Subs, Subscription(i) PROVE Permitted'
    <2>1. PICK y \in Local : sub' = [sub EXCEPT ![i] = y] /\ (Ending(sub[i], y) \/ Move(sub[i], y))
        BY <1>3, SubscriptionMoves
    <2>2. \A j \in Subs : sub'[j] = IF j = i THEN y ELSE sub[j]
        BY <2>1 DEF TypeOK
    <2>3. /\ active' = active
          /\ onceEnabled' = (onceEnabled \/ enabled') \/ UNCHANGED <<onceEnabled, enabled>>
          /\ bought' # bought => Sign(i)
        BY <1>3, SubscriptionFrame
    <2>4. Sign(i) => onceEnabled
        BY DEF Sign, Permitted, Buying
    <2>5. onceEnabled => onceEnabled'
        BY <2>3
    <2>6. enabled' \/ active' \/ bought' => onceEnabled'
        BY <2>3, <2>4, <2>5 DEF Permitted
    <2>7. ASSUME NEW j \in Subs, sub'[j].phase \in Buying PROVE onceEnabled
        <3>1. CASE j # i
            BY <2>2, <2>7, <3>1 DEF Permitted
        <3>2. CASE j = i
            <4>1. y.phase \in Buying /\ Move(sub[i], y) /\ sub[i] \in Local
                BY <2>1, <2>2, <2>7, <3>2, EndingForm, OverForm DEF Buying, TypeOK
            <4>. QED  BY <4>1, MoveBuying DEF Permitted
        <3>. QED  BY <3>1, <3>2
    <2>. QED  BY <2>5, <2>6, <2>7 DEF Permitted
<1>4. CASE Relaunch
    <2>1. \A i \in Subs : Over(sub'[i])
        BY <1>4, RelaunchParts
    <2>2. ~enabled' /\ ~active' /\ ~bought'
        BY <1>4 DEF Relaunch
    <2>. QED  BY <2>1, <2>2, OverForm DEF Permitted, Buying
<1>. QED  BY <1>1, <1>2, <1>3, <1>4, NextParts

LEMMA StepSaved ==
    ASSUME TypeOK, LoggedInKeyIsSaved, [Next]_vars
    PROVE  LoggedInKeyIsSaved'
<1> USE DEF LoggedInKeyIsSaved, guiVars
<1>1. ASSUME NEW k \in Keys, Login(k) PROVE LoggedInKeyIsSaved'
    <2>1. CASE file' = k /\ Publish(k)
        <3>1. chan'.key = k
            BY <2>1 DEF Publish
        <3>. QED  BY <2>1, <3>1
    <2>2. CASE ~loggedIn /\ UNCHANGED loggedIn
        BY <2>2
    <2>. QED  BY <1>1, <2>1, <2>2 DEF Login
<1>2. ASSUME NEW i \in Subs, Subscription(i) PROVE LoggedInKeyIsSaved'
    BY <1>2, SubscriptionFrame
<1>3. CASE Relaunch
    BY <1>3 DEF Relaunch, Launch
<1>4. CASE Logout \/ Toggle \/ (\E p \in ParamSet : EditParams(p)) \/ Changed \/ Spawn
           \/ Broadcast \/ (\E k \in Keys : Release(k) \/ Clear(k)) \/ UNCHANGED vars
    BY <1>4 DEF Logout, Toggle, EditParams, Changed, Spawn, Broadcast, Release, Clear, vars
<1>. QED  BY <1>1, <1>2, <1>3, <1>4 DEF Next, Gui, Supervisor

LEMMA ClientInvariant == Spec => []ClientInv
<1>1. Init => ClientInv
    <2> SUFFICES ASSUME Init PROVE ClientInv
        OBVIOUS
    <2>1. TypeOK
        <3>1. /\ loggedIn \in BOOLEAN /\ logins \in 0 .. MaxLogins
              /\ chan \in [key : Keys \cup {None}, ver : 0 .. MaxLogins]
            BY ClientAssumption DEF Init
        <3>2. /\ sup \in [pc : {"waiting", "reading"}, seen : 0 .. MaxLogins]
              /\ started \in 0 .. MaxLogins /\ sent \in 0 .. MaxSent
              /\ session \in [Keys -> 0 .. MaxLogins]
            BY ClientAssumption DEF Init
        <3>3. sub \in [Subs -> Local]
            BY LocalParts DEF Init
        <3>. QED  BY <3>1, <3>2, <3>3 DEF Init, TypeOK
    <2>2. Versions
        BY DEF Init, Versions
    <2>3. \A i \in Subs : sub[i] = Gone
        BY DEF Init
    <2>4. Slots /\ InHand /\ Permitted
        BY <2>3, LocalParts
           DEF Init, Slots, InHand, Permitted, Sound, Connected, Holding, Buying
    <2>. QED  BY <2>1, <2>2, <2>4 DEF ClientInv, LoggedInKeyIsSaved, Init
<1>2. ClientInv /\ [Next]_vars => ClientInv'
    BY StepTyped, StepVersions, StepSlots, StepInHand, StepPermitted, StepSaved DEF ClientInv
<1>. QED  BY <1>1, <1>2, PTL DEF Spec

\* The client is well formed, and while somebody is logged in a restart would
\* log in the same key (Launcher).
THEOREM LoginIsSaved == Spec => []LoginInv
<1>1. ClientInv => LoginInv
    BY DEF ClientInv, LoginInv
<1>. QED  BY <1>1, ClientInvariant, PTL

\* Nothing is bought before the server has enabled automatic purchases for the
\* account, in any run of the program (MyApp::update, BuyAutomata::with_config).
THEOREM BuyingNeedsPermission == Spec => []BuysWereEnabled
<1>1. ClientInv => BuysWereEnabled
    BY DEF ClientInv, Permitted, BuysWereEnabled
<1>. QED  BY <1>1, ClientInvariant, PTL

-----------------------------------------------------------------------------
(* Purchases: one at a time, with one configuration, for no more than that. *)

LEMMA SpawnPhases ==
    ASSUME TypeOK, Slots, Spawn, NEW i \in Subs, sub'[i].phase \in Buying
    PROVE  /\ sub'[i].phase = sub[i].phase /\ sub'[i].order = sub[i].order
           /\ sub[i].phase \in Buying
<1>1. sub[i] \in Local /\ chan.key \in Keys \cup {None}
    BY DEF TypeOK
<1>2. CASE i = started + 1
    <2>1. sub'[i] = Dialing(chan.key)
        BY <1>2, SpawnParts
    <2>2. Dialing(chan.key).phase = "dialing"
        BY <1>1, DialingForm
    <2>. QED  BY <2>1, <2>2 DEF Buying
<1>3. CASE i # started + 1
    <2>1. sub'[i] = sub[i] \/ sub'[i] = [sub[i] EXCEPT !.aborted = TRUE]
        BY <1>3, SpawnParts
    <2>2. sub'[i].phase = sub[i].phase /\ sub'[i].order = sub[i].order
        BY <1>1, <2>1, AbortedForm
    <2>. QED  BY <2>2
<1>. QED  BY <1>2, <1>3

\* No step of a subscription begins a purchase while another one runs.
LEMMA StepOneBuyer ==
    ASSUME TypeOK, Slots, OneBuyer, [Next]_vars
    PROVE  OneBuyer'
<1>1. CASE Elsewhere
    BY <1>1, ElsewhereParts DEF OneBuyer
<1>2. CASE Spawn
    BY <1>2, SpawnPhases DEF OneBuyer
<1>3. ASSUME NEW k \in Subs, Subscription(k) PROVE OneBuyer'
    <2>1. PICK y \in Local : sub' = [sub EXCEPT ![k] = y] /\ (Ending(sub[k], y) \/ Move(sub[k], y))
        BY <1>3, SubscriptionMoves
    <2>2. \A j \in Subs : sub'[j] = IF j = k THEN y ELSE sub[j]
        BY <2>1 DEF TypeOK
    <2>3. CASE y.phase \notin Buying \/ sub[k].phase \in Buying
        BY <2>2, <2>3 DEF OneBuyer
    <2>4. CASE y.phase \in Buying /\ sub[k].phase \notin Buying
        <3>1. sub[k] \in Local /\ Move(sub[k], y)
            BY <2>1, <2>4, EndingForm, OverForm DEF TypeOK, Buying
        <3>2. sub[k].phase = "deciding" /\ y.phase = "quoting"
            BY <2>4, <3>1, MoveBuying DEF MoveDecide, ToLinked, Buying
        <3>3. Decide(k)
            <4>1. sub'[k].phase = "quoting"
                BY <2>2, <3>2
            <4>2. ~Drop(k)
                BY <4>1, AfterForm, OverForm DEF Drop, TypeOK
            <4>. QED
                BY <1>3, <3>2, <4>1, <4>2
                   DEF Subscription, Handle, Register, Upgrade, Abandon, LateRequest, Read, LinkEnds, Gate, History, Quote, Sign, Send
        <3>4. ~AutomataHeld
            BY <3>3 DEF Decide
        <3>. QED  BY <2>2, <3>4 DEF OneBuyer, AutomataHeld
    <2>. QED  BY <2>3, <2>4
<1>4. CASE Relaunch
    <2>1. \A i \in Subs : Over(sub'[i])
        BY <1>4, RelaunchParts
    <2>. QED  BY <2>1, OverForm DEF OneBuyer, Buying
<1>. QED  BY <1>1, <1>2, <1>3, <1>4, NextParts

\* Two purchases never run beside each other, even when an aborted subscription
\* is still in the middle of one (the lock of the automata).
THEOREM OneBuyerAtATime == Spec => []OneBuyer
<1>1. Init => OneBuyer
    BY LocalParts DEF Init, OneBuyer, Buying
<1>2. TypeOK /\ Slots /\ OneBuyer /\ [Next]_vars => OneBuyer'
    BY StepOneBuyer
<1>3. ClientInv => TypeOK /\ Slots
    BY DEF ClientInv
<1>. QED  BY <1>1, <1>2, <1>3, ClientInvariant, PTL DEF Spec

\* What a purchase consists of, given the parameters.
Configured(x, p) ==
    /\ x.phase \in Buying => x.order.unit_price = micro_price(p.priority_fee)
    /\ x.phase \in {"signing", "sending"} =>
          \E c \in Curves : ~c.complete /\ Priced(x.order, c, p)

OrdersInv == \A i \in Subs : Configured(sub[i], params)

LEMMA MoveConfigured ==
    ASSUME NEW x \in Local, NEW y \in Local, Move(x, y), Configured(x, params)
    PROVE  Configured(y, params)
<1>1. CASE y.phase \notin Buying
    BY <1>1, Zenon DEF Configured, Buying
<1>2. CASE y.phase \in Buying
    <2>1. CASE MoveDecide(x, y)
        <3>1. y.phase = "quoting" /\ y.order.unit_price = micro_price(params.priority_fee)
            BY <1>2, <2>1 DEF MoveDecide, ToLinked, Buying
        <3>. QED  BY <3>1 DEF Configured
    <2>2. CASE MoveQuote(x, y)
        <3>1. /\ x.phase = "quoting" /\ y.phase = "signing"
              /\ y.order.unit_price = x.order.unit_price
              /\ \E c \in Curves : ~c.complete /\ Priced(y.order, c, params)
            BY <1>2, <2>2 DEF MoveQuote, ToLinked, Buying
        <3>. QED  BY <3>1 DEF Configured, Buying
    <2>3. CASE MoveSign(x, y)
        <3>1. x.phase = "signing" /\ y.phase = "sending" /\ y.order = x.order
            BY <1>2, <2>3 DEF MoveSign, ToLinked, Buying
        <3>. QED  BY <3>1 DEF Configured, Buying
    <2>4. CASE \/ MoveRegister(x, y) \/ MoveUpgrade(x, y) \/ MoveAbandon(x, y)
               \/ MoveRead(x, y) \/ MoveEnds(x, y) \/ MoveGate(x, y)
               \/ MoveHistory(x, y) \/ MoveSend(x, y)
        BY <1>2, <2>4
           DEF MoveRegister, MoveUpgrade, MoveAbandon, MoveRead, MoveEnds, MoveGate, MoveHistory, MoveSend, ToLinked, Buying
    <2>. QED  BY <2>1, <2>2, <2>3, <2>4 DEF Move
<1>. QED  BY <1>1, <1>2

LEMMA StepOrders ==
    ASSUME TypeOK, Slots, OrdersInv, [Next]_vars
    PROVE  OrdersInv'
<1>1. CASE Elsewhere
    <2>1. sub' = sub /\ (params' # params => ~AutomataHeld)
        BY <1>1, ElsewhereParts
    <2>2. CASE params' = params
        BY <2>1, <2>2 DEF OrdersInv
    <2>3. CASE ~AutomataHeld
        BY <2>1, <2>3 DEF OrdersInv, Configured, AutomataHeld, Buying
    <2>. QED  BY <2>1, <2>2, <2>3
<1>2. CASE Spawn
    <2>1. params' = params
        BY <1>2 DEF Spawn, automataVars
    <2>2. ASSUME NEW i \in Subs PROVE Configured(sub'[i], params)
        <3>1. CASE sub'[i].phase \in Buying
            BY <1>2, <3>1, SpawnPhases DEF OrdersInv, Configured
        <3>2. CASE sub'[i].phase \notin Buying
            BY <3>2, Zenon DEF Configured, Buying
        <3>. QED  BY <3>1, <3>2
    <2>. QED  BY <2>1, <2>2 DEF OrdersInv
<1>3. ASSUME NEW k \in Subs, Subscription(k) PROVE OrdersInv'
    <2>1. PICK y \in Local : sub' = [sub EXCEPT ![k] = y] /\ (Ending(sub[k], y) \/ Move(sub[k], y))
        BY <1>3, SubscriptionMoves
    <2>2. \A j \in Subs : sub'[j] = IF j = k THEN y ELSE sub[j]
        BY <2>1 DEF TypeOK
    <2>3. params' = params
        BY <1>3, SubscriptionFrame
    <2>4. Over(y) => Configured(y, params)
        BY OverForm DEF Configured, Buying
    <2>5. Configured(y, params)
        BY <2>1, <2>4, EndingForm, MoveConfigured DEF OrdersInv, TypeOK
    <2>. QED  BY <2>2, <2>3, <2>5 DEF OrdersInv
<1>4. CASE Relaunch
    <2>1. \A i \in Subs : Over(sub'[i])
        BY <1>4, RelaunchParts
    <2>. QED  BY <2>1, OverForm DEF OrdersInv, Configured, Buying
<1>. QED  BY <1>1, <1>2, <1>3, <1>4, NextParts

LEMMA OrdersInvariant == Spec => []OrdersInv
<1>1. Init => OrdersInv
    BY LocalParts DEF Init, OrdersInv, Configured, Buying
<1>2. TypeOK /\ Slots /\ OrdersInv /\ [Next]_vars => OrdersInv'
    BY StepOrders
<1>3. ClientInv => TypeOK /\ Slots
    BY DEF ClientInv
<1>. QED  BY <1>1, <1>2, <1>3, ClientInvariant, PTL DEF Spec

\* All parts of a purchase come from the configuration on the screen when it is
\* sent (handle_perf's lock, MyApp::update's try_lock).
THEOREM OneConfigPerOrder == Spec => []OrderOfOneConfig
<1>1. OrdersInv => OrderOfOneConfig
    BY DEF OrdersInv, Configured, Priced, OrderOfOneConfig
<1>. QED  BY <1>1, OrdersInvariant, PTL

\* What is ordered is on sale, and on a curve that has not moved since costs no
\* more than the amount entered (BondingCurve::buy): for accounts that hold
\* virtual tokens while they are on sale, whatever the user enters.
THEOREM OrdersAreAffordable ==
    ASSUME \A c \in Curves : ~c.complete => c.virtual_token > 0
    PROVE  Spec => []QuoteAffordable
<1>1. TypeOK /\ OrdersInv => QuoteAffordable
    <2> SUFFICES ASSUME TypeOK, OrdersInv, NEW i \in Subs,
                        sub[i].phase \in {"signing", "sending"},
                        sub[i].order.token_amount > 0
                 PROVE  \E c \in Curves :
                           /\ sub[i].order.token_amount <= c.real_token
                           /\ Cost(c, sub[i].order.token_amount) <= params.lamport_amount
        BY DEF QuoteAffordable
    <2>1. PICK c \in Curves : ~c.complete /\ Priced(sub[i].order, c, params)
        BY DEF OrdersInv, Configured
    <2> DEFINE a == params.lamport_amount
    <2>2. c \in Curve /\ c.virtual_token > 0 /\ a \in U64 /\ a \in Nat
        BY <2>1, ClientAssumption, WordAssumption DEF TypeOK, Params, U64
    <2>3. sub[i].order.token_amount = buy(c, a)
        BY <2>1 DEF Priced
    <2>4. a > 0
        BY <2>2, <2>3 DEF buy
    <2>5. buy(c, a) <= c.real_token
        BY <2>2, Bought
    <2>6. Cost(c, buy(c, a)) <= a
        BY <2>2, <2>4, AmountSuffices
    <2>. QED  BY <2>3, <2>5, <2>6
<1>2. ClientInv => TypeOK
    BY DEF ClientInv
<1>. QED  BY <1>1, <1>2, ClientInvariant, OrdersInvariant, PTL

-----------------------------------------------------------------------------
(* A token is decided about once. *)

\* The tokens that a subscription may still decide about: the one in hand, and,
\* unless it is aborted, all that its link has not yielded.
Coming(x) ==
    {n \in Nat : \/ /\ ~x.aborted /\ x.phase \in Connected \cup {"admitted"}
                    /\ n >= x.next
                 \/ /\ x.phase \in Holding /\ n = x.token
                    /\ x.aborted => x.phase = "deciding"}

OnceInv ==
    /\ DecidedOnce
    /\ \A p \in decided : p[2] <= sent
    /\ \A p \in decided, i \in Subs : p[2] \notin Coming(sub[i])
    /\ \A i, j \in Subs : i # j => Coming(sub[i]) \cap Coming(sub[j]) = {}

LEMMA NothingComing ==
    ASSUME NEW x, x.phase \notin Connected \cup {"admitted"}
    PROVE  Coming(x) = {}
BY DEF Coming, Connected, Holding

\* All of the tokens of a link that begins are new.
LEMMA RegisterComing ==
    ASSUME NEW x, NEW y \in Local, MoveRegister(x, y), sent \in Nat
    PROVE  \A n \in Coming(y) : n > sent
BY LocalParts DEF Coming, MoveRegister, Holding, Connected, Buying

\* No other move makes a token come again; a token decided about is gone.
LEMMA MoveComing ==
    ASSUME NEW x \in Local, NEW y \in Local, Move(x, y), ~MoveRegister(x, y), Sound(x, sent)
    PROVE  /\ Coming(y) \subseteq Coming(x)
           /\ MoveDecide(x, y) => x.token \in Coming(x) /\ x.token \notin Coming(y)
<1>1. /\ x.next \in Nat /\ y.next \in Nat /\ x.token \in Nat /\ y.token \in Nat
      /\ x.aborted \in BOOLEAN /\ y.aborted \in BOOLEAN
    BY LocalParts
<1>0. CASE MoveUpgrade(x, y)
    <2>1. /\ x.phase = "admitted" /\ ~x.aborted /\ y.phase = "linked" /\ y.next = x.next
        BY <1>0 DEF MoveUpgrade
    <2>. QED  BY <1>1, <2>1 DEF Coming, Holding, Connected, Buying, MoveDecide
<1>2. CASE MoveRead(x, y)
    <2>1. /\ x.phase = "linked" /\ y.phase = "gate" /\ y.aborted = x.aborted
          /\ y.token >= x.next /\ y.next > x.next
        BY <1>1, <1>2 DEF MoveRead, SameTask
    <2>. QED  BY <1>1, <2>1 DEF Coming, Holding, Connected, MoveDecide
<1>3. CASE MoveEnds(x, y) \/ MoveAbandon(x, y)
    <2>1. y.phase = "dialing" /\ x.phase \in {"linked", "admitted"}
        BY <1>3 DEF MoveEnds, MoveAbandon
    <2>. QED  BY <2>1, NothingComing DEF MoveDecide, Connected, Buying
<1>4. CASE MoveGate(x, y) \/ MoveHistory(x, y)
    <2>1. /\ x.phase \in {"gate", "history"} /\ y.aborted = x.aborted /\ y.next = x.next
          /\ y.phase = "linked" \/ (y.phase \in {"history", "deciding"} /\ y.token = x.token
                                    /\ ~x.aborted)
        BY <1>4 DEF MoveGate, MoveHistory, ToLinked, SameLink, SameTask
    <2>. QED  BY <1>1, <2>1 DEF Coming, Holding, Connected, MoveDecide
<1>5. CASE MoveDecide(x, y)
    <2>1. /\ x.phase = "deciding" /\ y.aborted = x.aborted /\ y.next = x.next
          /\ y.phase \in {"linked", "quoting"}
        BY <1>5 DEF MoveDecide, ToLinked, SameLink, SameTask
    <2>2. x.token < x.next
        BY <2>1 DEF Sound, Holding
    <2>. QED  BY <1>1, <2>1, <2>2 DEF Coming, Holding, Connected, Buying
<1>6. CASE MoveQuote(x, y) \/ MoveSign(x, y) \/ MoveSend(x, y)
    <2>1. /\ x.phase \in Buying /\ ~x.aborted
          /\ \/ y.phase = "panicked"
             \/ y.next = x.next /\ y.phase \in {"linked", "signing", "sending"}
        BY <1>6 DEF MoveQuote, MoveSign, MoveSend, ToLinked, SameLink, Buying
    <2>2. Coming(x) = {n \in Nat : n >= x.next}
        BY <2>1 DEF Coming, Holding, Connected, Buying
    <2>3. Coming(y) \subseteq {n \in Nat : n >= x.next}
        BY <2>1 DEF Coming, Holding, Connected, Buying
    <2>. QED  BY <2>1, <2>2, <2>3 DEF MoveDecide, Buying
<1>. QED  BY <1>0, <1>2, <1>3, <1>4, <1>5, <1>6 DEF Move

\* A step that decides about nothing and makes no token come.
LEMMA Shrinking ==
    ASSUME OnceInv, sent' >= sent, sent \in Nat, sent' \in Nat, decided' = decided,
           decided \subseteq Subs \X Nat,
           \A i \in Subs : Coming(sub'[i]) \subseteq Coming(sub[i])
    PROVE  OnceInv'
<1>1. DecidedOnce'
    BY DEF OnceInv, DecidedOnce
<1>2. \A p \in decided : p[2] <= sent'
    BY DEF OnceInv
<1>. QED  BY <1>1, <1>2 DEF OnceInv, Coming

LEMMA StepOnce ==
    ASSUME TypeOK, Slots, InHand, OnceInv, [Next]_vars
    PROVE  OnceInv'
<1>1. sent \in Nat /\ decided \subseteq Subs \X Nat /\ \A i \in Subs : sub[i] \in Local
    BY ClientAssumption DEF TypeOK
<1>2. CASE Elsewhere
    <2>1. sub' = sub /\ decided' = decided /\ sent' \in {sent, sent + 1}
        BY <1>2, ElsewhereParts
    <2>. QED  BY <1>1, <2>1, Shrinking
<1>3. CASE Spawn
    <2>1. decided' = decided /\ sent' = sent
        BY <1>3 DEF Spawn, historyVars, serverVars
    <2>2. ASSUME NEW i \in Subs PROVE Coming(sub'[i]) \subseteq Coming(sub[i])
        <3>1. CASE i = started + 1
            <4>1. sub'[i] = Dialing(chan.key)
                BY <1>3, <3>1, SpawnParts
            <4>2. Dialing(chan.key).phase = "dialing"
                BY DialingForm DEF TypeOK
            <4>. QED  BY <4>1, <4>2, NothingComing DEF Connected, Buying
        <3>2. CASE i # started + 1
            <4>1. CASE sub'[i] = sub[i]
                BY <4>1
            <4>2. CASE sub'[i] = [sub[i] EXCEPT !.aborted = TRUE]
                <5>1. /\ sub'[i].aborted /\ sub'[i].phase = sub[i].phase
                      /\ sub'[i].token = sub[i].token
                    BY <1>1, <4>2, AbortedForm
                <5>. QED  BY <5>1 DEF Coming
            <4>. QED  BY <1>3, <3>2, <4>1, <4>2, SpawnParts
        <3>. QED  BY <3>1, <3>2
    <2>. QED  BY <1>1, <2>1, <2>2, Shrinking
<1>4. ASSUME NEW k \in Subs, Subscription(k) PROVE OnceInv'
    <2>1. PICK y \in Local : sub' = [sub EXCEPT ![k] = y] /\ (Ending(sub[k], y) \/ Move(sub[k], y))
        BY <1>4, SubscriptionMoves
    <2>2. \A j \in Subs : sub'[j] = IF j = k THEN y ELSE sub[j]
        BY <2>1 DEF TypeOK
    <2>3. sent' = sent /\ (decided' # decided => Decide(k))
        BY <1>4, SubscriptionFrame
    <2>4. Sound(sub[k], sent)
        BY DEF InHand
    <2>5. CASE Decide(k)
        <3>1. /\ sub[k].phase = "deciding" /\ decided' = decided \cup {<<k, sub[k].token>>}
            BY <2>5 DEF Decide
        <3>2. sub[k].token \in Coming(sub[k]) /\ sub[k].token <= sent
            BY <1>1, <2>4, <3>1, LocalParts DEF Coming, Sound, Holding
        <3>3. Coming(y) \subseteq Coming(sub[k]) /\ sub[k].token \notin Coming(y)
            <4>1. CASE Ending(sub[k], y)
                BY <4>1, EndingForm, OverForm, NothingComing DEF Connected, Buying
            <4>2. CASE Move(sub[k], y)
                <5>1. MoveDecide(sub[k], y) /\ ~MoveRegister(sub[k], y)
                    BY <3>1, <4>2 DEF Move, MoveRegister, MoveUpgrade, MoveAbandon, MoveRead, MoveEnds, MoveGate, MoveHistory,
                       MoveQuote, MoveSign, MoveSend
                <5>. QED  BY <1>1, <2>4, <4>2, <5>1, MoveComing
            <4>. QED  BY <2>1, <4>1, <4>2
        <3>4. DecidedOnce'
            <4>1. \A q \in decided : q[2] # sub[k].token
                BY <3>2 DEF OnceInv
            <4>. QED  BY <3>1, <4>1 DEF DecidedOnce, OnceInv
        <3>5. \A i \in Subs : Coming(sub'[i]) \subseteq Coming(sub[i])
            BY <2>2, <3>3
        <3>6. \A i \in Subs : sub[k].token \notin Coming(sub'[i])
            <4>1. \A i \in Subs : i # k => sub[k].token \notin Coming(sub[i])
                BY <3>2 DEF OnceInv
            <4>. QED  BY <2>2, <3>3, <4>1
        <3>7. \A p \in decided' : p[2] <= sent' /\ \A i \in Subs : p[2] \notin Coming(sub'[i])
            BY <2>3, <3>1, <3>2, <3>5, <3>6 DEF OnceInv
        <3>8. \A i, j \in Subs : i # j => Coming(sub'[i]) \cap Coming(sub'[j]) = {}
            BY <3>5 DEF OnceInv
        <3>. QED  BY <3>4, <3>7, <3>8 DEF OnceInv, Coming
    <2>6. CASE MoveRegister(sub[k], y) /\ ~sub[k].aborted /\ ~Decide(k)
        <3>1. \A n \in Coming(y) : n > sent
            BY <1>1, <2>6, RegisterComing
        <3>2. ASSUME NEW j \in Subs, j # k PROVE \A n \in Coming(sub[j]) : n <= sent
            <4>1. k = started
                BY <2>6 DEF MoveRegister, Slots
            <4>2. sub[j].phase \in {"orphaned", "gone"} \/ sub[j].aborted
                BY <3>2, <4>1 DEF Slots
            <4>3. Sound(sub[j], sent)
                BY DEF InHand
            <4>. QED
                BY <1>1, <4>2, <4>3 DEF Coming, Sound, Holding, Connected, Buying
        <3>3. Coming(y) \subseteq Nat /\ \A j \in Subs : Coming(sub[j]) \subseteq Nat
            BY DEF Coming
        <3>4. \A i, j \in Subs : i # j => Coming(sub'[i]) \cap Coming(sub'[j]) = {}
            BY <1>1, <2>2, <3>1, <3>2, <3>3 DEF OnceInv
        <3>5. \A p \in decided, i \in Subs : p[2] \notin Coming(sub'[i])
            <4>1. \A p \in decided : p[2] \in Nat /\ p[2] <= sent
                BY <1>1 DEF OnceInv
            <4>. QED  BY <1>1, <2>2, <3>1, <3>3, <4>1 DEF OnceInv
        <3>6. DecidedOnce'
            BY <2>3, <2>6 DEF OnceInv, DecidedOnce
        <3>. QED  BY <2>3, <2>6, <3>4, <3>5, <3>6 DEF OnceInv, Coming
    <2>7. CASE ~(MoveRegister(sub[k], y) /\ ~sub[k].aborted) /\ ~Decide(k)
        <3>1. Coming(y) \subseteq Coming(sub[k])
            <4>1. CASE Ending(sub[k], y)
                BY <4>1, EndingForm, OverForm, NothingComing DEF Connected, Buying
            <4>2. CASE MoveRegister(sub[k], y)
                <5>1. y.aborted /\ y.phase = "admitted"
                    BY <2>7, <4>2 DEF MoveRegister, SameTask
                <5>. QED  BY <5>1 DEF Coming, Holding
            <4>3. CASE Move(sub[k], y) /\ ~MoveRegister(sub[k], y)
                BY <1>1, <2>1, <2>4, <4>3, MoveComing
            <4>. QED  BY <2>1, <4>1, <4>2, <4>3
        <3>. QED  BY <1>1, <2>2, <2>3, <2>7, <3>1, Shrinking
    <2>. QED  BY <2>5, <2>6, <2>7
<1>5. CASE Relaunch
    <2>1. \A i \in Subs : Over(sub'[i])
        BY <1>5, RelaunchParts
    <2>2. decided' = decided /\ sent' = sent
        BY <1>5 DEF Relaunch
    <2>3. \A y : Over(y) => Coming(y) = {}
        BY OverForm, NothingComing DEF Connected, Buying
    <2>. QED  BY <1>1, <2>1, <2>2, <2>3, Shrinking
<1>. QED  BY <1>2, <1>3, <1>4, <1>5, NextParts

\* However the user logs out and in again, however links break and the program
\* is restarted, one subscription at most decides about a token: an aborted one
\* finishes no more than what is older than the new link (main's supervisor,
\* run_subscription).
THEOREM TokensAreDecidedOnce == Spec => []DecidedOnce
<1>1. Init => OnceInv
    <2> SUFFICES ASSUME Init PROVE OnceInv
        OBVIOUS
    <2>1. \A i \in Subs : Coming(sub[i]) = {}
        BY LocalParts, NothingComing DEF Init, Connected, Buying
    <2>. QED  BY <2>1 DEF Init, OnceInv, DecidedOnce
<1>2. TypeOK /\ Slots /\ InHand /\ OnceInv /\ [Next]_vars => OnceInv'
    BY StepOnce
<1>3. ClientInv => TypeOK /\ Slots /\ InHand
    BY DEF ClientInv
<1>4. OnceInv => DecidedOnce
    BY DEF OnceInv
<1>. QED  BY <1>1, <1>2, <1>3, <1>4, ClientInvariant, PTL DEF Spec
=============================================================================
