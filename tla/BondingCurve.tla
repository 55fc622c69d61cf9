---------------------------- MODULE BondingCurve ----------------------------
(***************************************************************************)
(* What a purchase offers (tokenir_ui/src/pump_interaction/accounts/       *)
(* bonding_curve.rs and autobuy.rs).  u64 is 0 .. Word - 1 and u128 counts *)
(* modulo Word * Word; the release build wraps.                            *)
(***************************************************************************)
EXTENDS Integers

CONSTANT Word  \* 2^64

ASSUME WordAssumption == Word \in Nat /\ Word >= 2

U64 == 0 .. Word - 1
u128(x) == x % (Word * Word)

\* The fields that a purchase depends on.
Curve == [virtual_token : U64, virtual_sol : U64, real_token : U64,
          complete : BOOLEAN]

\* Mutated form of Left: rounded down.
LeftBelow(c, amount) ==
    u128(u128(c.virtual_sol * c.virtual_token) \div u128(c.virtual_sol + amount))

\* The virtual tokens that are to be left after a purchase for amount.
Left(c, amount) ==
    u128(u128(c.virtual_sol * c.virtual_token) \div u128(c.virtual_sol + amount) + 1)

\* The tokens a purchase asks for; the curve is not complete.
buy(c, amount) ==
    IF amount = 0 THEN 0
    ELSE LET s == u128(c.virtual_token - Left(c, amount)) % Word
         IN IF s < c.real_token THEN s ELSE c.real_token

\* The most it may cost, slippage in per cent.  (The code multiplies in f32.)
max_sol_cost(amount, slippage) == (amount + (amount * slippage) \div 100) % Word

\* The price of a compute unit, in millionths: fee * 1000000 / 120000.
micro_price(fee) == ((fee * 25) \div 3) % Word

\* What the program on the chain takes for tokens, its fee aside.
Cost(c, tokens) == (tokens * c.virtual_sol) \div (c.virtual_token - tokens) + 1
=============================================================================
