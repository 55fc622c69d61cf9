------------------------- MODULE TokenDecisionProofs -------------------------
(***************************************************************************)
(* Theorems about TokenDecision, for every set of tokens, of creators and  *)
(* of edits.                                                               *)
(***************************************************************************)
EXTENDS TokenDecision, TLAPS

LEMMA FilterSets ==
  /\ NoFilters \in FilterSet
  /\ \A fs \in FilterSet, tag \in Tag, range \in Range : add_filter(fs, tag, range) \in FilterSet
BY DEF NoFilters, FilterSet, add_filter

LEMMA IdleIsHandler == Idle \in Handler
BY DEF Idle, Handler, HandlerPhase

\* The handler keeps its type when it moves on.
LEMMA GoToIsHandler ==
  ASSUME handler \in Handler, handler # Idle, handler.token \in Tokens,
         NEW p \in HandlerPhase, GoTo(p)
  PROVE  handler' \in Handler /\ handler'.token \in Tokens
BY DEF Handler, GoTo

\* Every variable keeps its type.
THEOREM TypeCorrect == Spec => []TypeOK
<1> USE DecisionAssumption, FilterSets, IdleIsHandler DEF TypeOK
<1>1. Init => TypeOK
  BY DEF Init
<1>2. TypeOK /\ [Next]_vars => TypeOK'
  <2> SUFFICES ASSUME TypeOK, [Next]_vars PROVE TypeOK'
    OBVIOUS
  <2> USE DEF screenVars, fileVars, poolVars, automataVars, banVars, handlerVars, flags
  <2>1. CASE Start
    BY <2>1 DEF Start, Show
  <2>2. CASE Login
    BY <2>2 DEF Login, Show
  <2>3. CASE Logout
    BY <2>3 DEF Logout, Hide
  <2>4. CASE Close
    BY <2>4 DEF Close, Hide
  <2>5. CASE Exit
    BY <2>5 DEF Exit, Stop, Idle
  <2>6. CASE Kill
    BY <2>6 DEF Kill, Stop, Idle
  <2>7. ASSUME NEW e \in ViewEdits, EditView(e[1], e[2]) PROVE TypeOK'
    <3>1. e[1] \in Tag /\ e[2] \in Range
      OBVIOUS
    <3>2. QED
      <4>1. shown' \in FilterSet
        BY <2>7, <3>1 DEF EditView
      <4>2. QED
        BY <2>7, <4>1 DEF EditView
  <2>8. ASSUME NEW e \in BuyEdits, EditBuy(e[1], e[2]) PROVE TypeOK'
    <3>1. e[1] \in Tag /\ e[2] \in Range
      OBVIOUS
    <3>2. QED
      BY <2>8, <3>1 DEF EditBuy, BuySection
  <2>9. CASE Toggle
    BY <2>9 DEF Toggle, BuySection
  <2>10. ASSUME NEW t \in Tokens, Ban(t) PROVE TypeOK'
    <3>1. Attr[t].creator \in Creators
      BY <2>10 DEF Ban, Token
    <3>2. QED
      BY <2>10, <3>1 DEF Ban
  <2>11. CASE Clear
    BY <2>11 DEF Clear
  <2>12. ASSUME NEW t \in Tokens, Receive(t) PROVE TypeOK'
    <3>1. handler' = Idle \/ (handler' \in Handler /\ handler'.token \in Tokens)
      BY <2>12 DEF Receive, Handler, HandlerPhase
    <3>2. QED
      BY <2>12, <3>1 DEF Receive
  <2>13. CASE Whitelist
    <3>1. handler # Idle /\ handler.token \in Tokens
      BY <2>13 DEF Whitelist, Idle
    <3>2. handler' \in Handler /\ handler'.token \in Tokens
      <4>1. CASE \E p \in {"migrated", "filters"} : GoTo(p)
        BY <4>1, <3>1, GoToIsHandler DEF HandlerPhase
      <4>2. CASE handler' = [handler EXCEPT !.pc = "whitelisted", !.white = TRUE]
        BY <4>2, <3>1 DEF Handler, HandlerPhase
      <4>3. QED
        BY <2>13, <4>1, <4>2 DEF Whitelist
    <3>3. QED
      BY <2>13, <3>1, <3>2 DEF Whitelist, HandlerStep
  <2>14. CASE WhiteLock
    <3>1. handler # Idle /\ handler.token \in Tokens
      BY <2>14 DEF WhiteLock, Idle
    <3>2. handler' = Idle \/ (handler' \in Handler /\ handler'.token \in Tokens)
      BY <2>14, <3>1, GoToIsHandler DEF WhiteLock, Finish, HandlerPhase
    <3>3. QED
      BY <2>14, <3>1, <3>2, IdleIsHandler DEF WhiteLock, HandlerStep
  <2>15. CASE Migrated
    <3>1. handler # Idle /\ handler.token \in Tokens
      BY <2>15 DEF Migrated, Idle
    <3>2. handler' = Idle \/ (handler' \in Handler /\ handler'.token \in Tokens)
      BY <2>15, <3>1, GoToIsHandler DEF Migrated, Finish, HandlerPhase
    <3>3. QED
      BY <2>15, <3>1, <3>2, IdleIsHandler DEF Migrated, HandlerStep
  <2>16. CASE ViewFilter
    <3>1. handler # Idle /\ handler.token \in Tokens
      BY <2>16 DEF ViewFilter, Idle
    <3>2. handler' = Idle \/ (handler' \in Handler /\ handler'.token \in Tokens)
      BY <2>16, <3>1, GoToIsHandler DEF ViewFilter, Finish, HandlerPhase
    <3>3. QED
      BY <2>16, <3>1, <3>2, IdleIsHandler DEF ViewFilter, HandlerStep
  <2>17. CASE CheckBan
    <3>1. handler # Idle /\ handler.token \in Tokens
      BY <2>17 DEF CheckBan, Idle
    <3>2. handler' = Idle \/ (handler' \in Handler /\ handler'.token \in Tokens)
      BY <2>17, <3>1, GoToIsHandler DEF CheckBan, Finish, HandlerPhase
    <3>3. QED
      BY <2>17, <3>1, <3>2, IdleIsHandler DEF CheckBan, HandlerStep
  <2>18. CASE BuyFilter
    <3>1. handler # Idle /\ handler.token \in Tokens
      BY <2>18 DEF BuyFilter, Idle
    <3>2. handler' = Idle \/ (handler' \in Handler /\ handler'.token \in Tokens)
      BY <2>18, <3>1, GoToIsHandler DEF BuyFilter, Finish, HandlerPhase
    <3>3. QED
      BY <2>18, <3>1, <3>2, IdleIsHandler DEF BuyFilter, HandlerStep
  <2>19. CASE Switch
    <3>1. handler # Idle /\ handler.token \in Tokens
      BY <2>19 DEF Switch, Idle
    <3>2. handler' = Idle \/ (handler' \in Handler /\ handler'.token \in Tokens)
      BY <2>19, <3>1, GoToIsHandler DEF Switch, Finish, HandlerPhase
    <3>3. QED
      BY <2>19, <3>1, <3>2, IdleIsHandler DEF Switch, HandlerStep
  <2>20. CASE Buy
    <3>1. handler # Idle /\ handler.token \in Tokens
      BY <2>20 DEF Buy, Idle
    <3>2. handler' = Idle \/ (handler' \in Handler /\ handler'.token \in Tokens)
      BY <2>20, <3>1, GoToIsHandler DEF Buy, Finish, HandlerPhase
    <3>3. QED
      BY <2>20, <3>1, <3>2, IdleIsHandler DEF Buy, HandlerStep
  <2>21. CASE Abort
    BY <2>21 DEF Abort, HandlerStep, Finish, Idle
  <2>22. ASSUME NEW t \in Tokens, Add(t) PROVE TypeOK'
    BY <2>22 DEF Add, HandlerStep
  <2>23. CASE UNCHANGED vars
    BY <2>23 DEF vars
  <2>24. QED
    BY <2>1, <2>2, <2>3, <2>4, <2>5, <2>6, <2>7, <2>8, <2>9, <2>10, <2>11,
       <2>12, <2>13, <2>14, <2>15, <2>16, <2>17, <2>18, <2>19, <2>20,
       <2>21, <2>22, <2>23
    DEF Next, Program, Gui, Handle
<1>3. QED
  BY <1>1, <1>2, PTL DEF Spec

-----------------------------------------------------------------------------
(***************************************************************************)
(* The filters on the screen, in the memory of the tasks and in the files. *)
(***************************************************************************)

\* What FilesInvariant says beyond the types.
FileFacts ==
    /\ screen \in {"login", "closing"} /\ ~dropped => viewFile = poolFilters
    /\ ShownFiltersApply
    /\ screen = "off" /\ ~torn => buyFile = configFile
    /\ screen \in {"login", "closing"} /\ ~torn => buyFile = config
    /\ ShownBuyFiltersApply

\* The screen, the pool, the automata and the files agree about the filters, as
\* far as no edit was dropped and no kill came between two files.
THEOREM FilesAgree == Spec => []FilesInvariant
<1> USE DEF FileFacts, ShownFiltersApply, ShownBuyFiltersApply
<1>1. Init => FileFacts
  BY DEF Init
<1>2. TypeOK /\ FileFacts /\ [Next]_vars => FileFacts'
  <2> SUFFICES ASSUME TypeOK, FileFacts, [Next]_vars PROVE FileFacts'
    OBVIOUS
  <2> USE DEF screenVars, fileVars, poolVars, automataVars, banVars, handlerVars, flags
  <2>1. CASE Start
    BY <2>1 DEF Start, Show
  <2>2. CASE Login
    BY <2>2 DEF Login, Show
  <2>3. CASE Logout
    BY <2>3 DEF Logout, Hide
  <2>4. CASE Close
    BY <2>4 DEF Close, Hide
  <2>5. CASE Exit
    BY <2>5 DEF Exit, Stop, Idle
  <2>6. CASE Kill
    BY <2>6 DEF Kill, Stop, Idle
  <2>7. ASSUME NEW e \in ViewEdits, EditView(e[1], e[2]) PROVE FileFacts'
    BY <2>7 DEF EditView, add_filter
  <2>8. ASSUME NEW e \in BuyEdits, EditBuy(e[1], e[2]) PROVE FileFacts'
    BY <2>8 DEF EditBuy, BuySection, add_filter
  <2>9. CASE Toggle
    BY <2>9 DEF Toggle, BuySection
  <2>10. ASSUME NEW t \in Tokens, Ban(t) PROVE FileFacts'
    BY <2>10 DEF Ban
  <2>11. CASE Clear
    BY <2>11 DEF Clear
  <2>12. ASSUME NEW t \in Tokens, Receive(t) PROVE FileFacts'
    BY <2>12 DEF Receive, Idle
  <2>13. CASE Whitelist
    BY <2>13 DEF Whitelist, HandlerStep, GoTo
  <2>14. CASE WhiteLock
    BY <2>14 DEF WhiteLock, HandlerStep, GoTo
  <2>15. CASE Migrated
    BY <2>15 DEF Migrated, HandlerStep, Finish, Idle
  <2>16. CASE ViewFilter
    BY <2>16 DEF ViewFilter, HandlerStep, GoTo, Finish, Idle
  <2>17. CASE CheckBan
    BY <2>17 DEF CheckBan, HandlerStep, GoTo, Finish, Idle
  <2>18. CASE BuyFilter
    BY <2>18 DEF BuyFilter, HandlerStep, GoTo, Finish, Idle
  <2>19. CASE Switch
    BY <2>19 DEF Switch, HandlerStep, GoTo, Finish, Idle
  <2>20. CASE Buy
    BY <2>20 DEF Buy, HandlerStep, Finish, Idle
  <2>21. CASE Abort
    BY <2>21 DEF Abort, HandlerStep, Finish, Idle
  <2>22. ASSUME NEW t \in Tokens, Add(t) PROVE FileFacts'
    BY <2>22 DEF Add, HandlerStep
  <2>23. CASE UNCHANGED vars
    BY <2>23 DEF vars
  <2>24. QED
    BY <2>1, <2>2, <2>3, <2>4, <2>5, <2>6, <2>7, <2>8, <2>9, <2>10, <2>11,
       <2>12, <2>13, <2>14, <2>15, <2>16, <2>17, <2>18, <2>19, <2>20,
       <2>21, <2>22, <2>23
    DEF Next, Program, Gui, Handle
<1>3. TypeOK /\ FileFacts => FilesInvariant
  BY DEF FilesInvariant
<1>4. QED
  BY <1>1, <1>2, <1>3, TypeCorrect, PTL DEF Spec

\* The filters on the screen are those of the feed.
THEOREM ShownFilters == Spec => []ShownFiltersApply
BY FilesAgree, PTL DEF FilesInvariant

\* The purchase filters on the screen are those of the purchases.
THEOREM ShownBuyFilters == Spec => []ShownBuyFiltersApply
BY FilesAgree, PTL DEF FilesInvariant

-----------------------------------------------------------------------------
(***************************************************************************)
(* The handler.  Bans are known to the list in memory and to the file; the *)
(* whitelist's purchases are marked as such from their first step on.      *)
(***************************************************************************)

HandlerFacts ==
    /\ banFile = bans
    /\ screen # "off" => banned = bans
    /\ handler.bans \subseteq bans
    /\ screen = "off" => handler = Idle
    /\ handler.pc = "whitelisted" => handler.white
    /\ BansHold
    /\ BoughtWhileOn

LEMMA HandlerFactsHold == Spec => []HandlerFacts
<1> USE DecisionAssumption DEF HandlerFacts, BansHold, BoughtWhileOn
<1>1. Init => HandlerFacts
  BY DEF Init, Idle
<1>2. TypeOK /\ HandlerFacts /\ [Next]_vars => HandlerFacts'
  <2> SUFFICES ASSUME TypeOK, HandlerFacts, [Next]_vars PROVE HandlerFacts'
    OBVIOUS
  <2> USE DEF TypeOK, Handler, screenVars, fileVars, poolVars, automataVars,
              banVars, handlerVars, flags, AutomataHeld
  <2>1. CASE Start
    BY <2>1 DEF Start, Show
  <2>2. CASE Login
    BY <2>2 DEF Login, Show
  <2>3. CASE Logout
    BY <2>3 DEF Logout, Hide
  <2>4. CASE Close
    BY <2>4 DEF Close, Hide
  <2>5. CASE Exit
    BY <2>5 DEF Exit, Stop, Idle
  <2>6. CASE Kill
    BY <2>6 DEF Kill, Stop, Idle
  <2>7. ASSUME NEW e \in ViewEdits, EditView(e[1], e[2]) PROVE HandlerFacts'
    BY <2>7 DEF EditView, add_filter
  <2>8. ASSUME NEW e \in BuyEdits, EditBuy(e[1], e[2]) PROVE HandlerFacts'
    BY <2>8 DEF EditBuy, BuySection, add_filter
  <2>9. CASE Toggle
    BY <2>9 DEF Toggle, BuySection
  <2>10. ASSUME NEW t \in Tokens, Ban(t) PROVE HandlerFacts'
    BY <2>10 DEF Ban
  <2>11. CASE Clear
    BY <2>11 DEF Clear
  <2>12. ASSUME NEW t \in Tokens, Receive(t) PROVE HandlerFacts'
    BY <2>12 DEF Receive, Idle
  <2>13. CASE Whitelist
    <3>1. /\ handler'.bans = handler.bans
          /\ handler'.pc \in {"whitelisted", "migrated", "filters"}
          /\ handler'.pc = "whitelisted" => handler'.white
      BY <2>13 DEF Whitelist, GoTo
    <3>2. UNCHANGED <<screen, banFile, banned, bans>> /\ screen # "off"
      BY <2>13 DEF Whitelist, HandlerStep, Idle
    <3>3. QED
      BY <3>1, <3>2
  <2>14. CASE WhiteLock
    <3>1. /\ handler'.bans = handler.bans
          /\ handler'.pc = "buying" /\ handler'.white
      BY <2>14 DEF WhiteLock, GoTo
    <3>2. UNCHANGED <<screen, banFile, banned, bans>> /\ screen # "off"
      BY <2>14 DEF WhiteLock, HandlerStep, Idle
    <3>3. QED
      BY <3>1, <3>2
  <2>15. CASE Migrated
    BY <2>15 DEF Migrated, HandlerStep, Finish, Idle
  <2>16. CASE ViewFilter
    BY <2>16 DEF ViewFilter, HandlerStep, GoTo, Finish, Idle
  <2>17. CASE CheckBan
    BY <2>17 DEF CheckBan, HandlerStep, GoTo, Finish, Idle
  <2>18. CASE BuyFilter
    BY <2>18 DEF BuyFilter, HandlerStep, GoTo, Finish, Idle
  <2>19. CASE Switch
    BY <2>19 DEF Switch, HandlerStep, GoTo, Finish, Idle
  <2>20. CASE Buy
    BY <2>20 DEF Buy, HandlerStep, Finish, Idle
  <2>21. CASE Abort
    BY <2>21 DEF Abort, HandlerStep, Finish, Idle
  <2>22. ASSUME NEW t \in Tokens, Add(t) PROVE HandlerFacts'
    BY <2>22 DEF Add, HandlerStep
  <2>23. CASE UNCHANGED vars
    BY <2>23 DEF vars
  <2>24. QED
    BY <2>1, <2>2, <2>3, <2>4, <2>5, <2>6, <2>7, <2>8, <2>9, <2>10, <2>11,
       <2>12, <2>13, <2>14, <2>15, <2>16, <2>17, <2>18, <2>19, <2>20,
       <2>21, <2>22, <2>23
    DEF Next, Program, Gui, Handle
<1>3. QED
  BY <1>1, <1>2, TypeCorrect, PTL DEF Spec

\* A ban holds for every token that comes after it.
THEOREM BansLast == Spec => []BansHold
BY HandlerFactsHold, PTL DEF HandlerFacts

\* No purchase of the filters goes on with its switch off.
THEOREM SwitchHolds == Spec => []BoughtWhileOn
BY HandlerFactsHold, PTL DEF HandlerFacts
=============================================================================
