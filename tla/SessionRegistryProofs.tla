------------------------ MODULE SessionRegistryProofs ------------------------
(***************************************************************************)
(* Theorems about SessionRegistry, and about AdminPanel which extends it,  *)
(* for every set of keys, of connection attempts, of removers and of       *)
(* requests of the panel, and for every bound.                             *)
(***************************************************************************)
EXTENDS AdminPanel, TLAPS

\* No step of the registry takes a variable out of its type.
LEMMA TypeStep == TypeOK /\ [Next]_vars => TypeOK'
<1> USE RootAssumption, BoundsAssumption, NoneAssumption
    DEF TypeOK, Row, Phase, Pending, Open, Holding, Over, RemoverPhase
<1> SUFFICES ASSUME TypeOK, [Next]_vars PROVE TypeOK'
  OBVIOUS
<1> USE DEF serverVars, dbVars, mapVars, connVars, removerVars
<1>1. ASSUME NEW k \in Keys, AddUser(k) PROVE TypeOK'
  <2>1. [id |-> nextUser, key |-> k, admin |-> FALSE] \in Row
    BY <1>1
  <2>2. users' \subseteq Row
    BY <1>1, <2>1 DEF AddUser
  <2>3. QED
    BY <1>1, <2>2 DEF AddUser
<1>2. ASSUME NEW c \in Conns, NEW k \in Keys, Connect(c, k) PROVE TypeOK'
  BY <1>2 DEF Connect
<1>3. ASSUME NEW c \in Conns, HangUp(c) PROVE TypeOK'
  BY <1>3 DEF HangUp
<1>4. ASSUME NEW c \in Conns, Validate(c) PROVE TypeOK'
  BY <1>4 DEF Validate
<1>5. ASSUME NEW c \in Conns, TakeId(c) PROVE TypeOK'
  BY <1>5 DEF TakeId
<1>6. ASSUME NEW c \in Conns, Register(c) PROVE TypeOK'
  BY <1>6 DEF Register
<1>7. ASSUME NEW c \in Conns, Reject(c) PROVE TypeOK'
  BY <1>7 DEF Reject
<1>8. ASSUME NEW c \in Conns, Cancel(c) PROVE TypeOK'
  BY <1>8 DEF Cancel
<1>9. ASSUME NEW c \in Conns, Upgrade(c) PROVE TypeOK'
  BY <1>9 DEF Upgrade
<1>10. ASSUME NEW c \in Conns, UpgradeFails(c) PROVE TypeOK'
  BY <1>10 DEF UpgradeFails
<1>11. ASSUME NEW c \in Conns, StartTasks(c) PROVE TypeOK'
  BY <1>11 DEF StartTasks
<1>12. ASSUME NEW c \in Conns, SelectReturns(c) PROVE TypeOK'
  BY <1>12 DEF SelectReturns
<1>13. ASSUME NEW c \in Conns, Cleanup(c) PROVE TypeOK'
  BY <1>13 DEF Cleanup
<1>14. ASSUME NEW c \in Conns, RecvEnds(c) PROVE TypeOK'
  BY <1>14 DEF RecvEnds
<1>15. ASSUME NEW c \in Conns, SendFails(c) PROVE TypeOK'
  BY <1>15 DEF SendFails
<1>16. ASSUME NEW a \in Removers, NEW i \in 0 .. nextUser - 1, LookUp(a, i)
       PROVE TypeOK'
  BY <1>16 DEF LookUp
<1>17. ASSUME NEW a \in Removers, CheckTarget(a) PROVE TypeOK'
  BY <1>17 DEF CheckTarget
<1>18. ASSUME NEW a \in Removers, DeleteRow(a) PROVE TypeOK'
  BY <1>18 DEF DeleteRow
<1>19. ASSUME NEW a \in Removers, Revoke(a) PROVE TypeOK'
  BY <1>19 DEF Revoke, Return
<1>20. ASSUME NEW a \in Removers, StopRemoving(a) PROVE TypeOK'
  BY <1>20 DEF StopRemoving, Return
<1>21. CASE RequestRestart
  BY <1>21 DEF RequestRestart
<1>22. CASE Stop
  BY <1>22 DEF Stop
<1>23. CASE Boot
  BY <1>23 DEF Boot
<1>24. CASE UNCHANGED vars
  BY <1>24 DEF vars
<1>25. QED
  BY <1>1, <1>2, <1>3, <1>4, <1>5, <1>6, <1>7, <1>8, <1>9, <1>10, <1>11, <1>12,
     <1>13, <1>14, <1>15, <1>16, <1>17, <1>18, <1>19, <1>20, <1>21, <1>22,
     <1>23, <1>24
  DEF Next, Client, Handler, Remover, Exit, Crash

\* The registry's variables have their types in every reachable state.
THEOREM TypeCorrect == Spec => []TypeOK
<1>1. Init => TypeOK
  BY RootAssumption, NoneAssumption
  DEF Init, Fresh, Root, TypeOK, Row, Phase, RemoverPhase
<1>2. QED
  BY <1>1, TypeStep, PTL DEF Spec

-----------------------------------------------------------------------------
(***************************************************************************)
(* The inductive invariant.  Most actions leave the map, the keys, the ids *)
(* and the set of holders alone: one lemma deals with them all.            *)
(***************************************************************************)

\* What RegistryInv says beyond the types.
RegistryFacts ==
    /\ IdsBelowCounter
    /\ IdsUnique
    /\ HandlersIdentified
    /\ EvictedHeld
    /\ HoldersInMap
    /\ EntriesHaveHolder

\* A step that moves one handler from p to q without touching the map.
Moves(c, q) ==
    /\ pc' = [pc EXCEPT ![c] = q]
    /\ UNCHANGED <<active, nextSession, key, sid, evicted>>

\* Moving between two holding phases, or from a pending phase to one that
\* is over, preserves the invariant.
LEMMA MovePreserves ==
  ASSUME TypeOK, RegistryFacts,
         NEW c \in Conns, NEW q \in Phase, Moves(c, q),
         \/ pc[c] \in Holding /\ q \in Holding
         \/ pc[c] \in Pending /\ q \in Over
         \/ pc[c] = "requested" /\ q = "validated"
  PROVE  RegistryFacts'
<1> USE DEF TypeOK, Phase, Pending, Open, Holding, Over, Moves
<1>1. \A d \in Conns : pc'[d] = IF d = c THEN q ELSE pc[d]
  OBVIOUS
<1>2. \A d \in Conns : (pc'[d] \in Holding) <=> (pc[d] \in Holding)
  BY <1>1
<1>3. IdsBelowCounter'
  BY DEF RegistryFacts, IdsBelowCounter
<1>4. IdsUnique'
  BY DEF RegistryFacts, IdsUnique
<1>5. HandlersIdentified'
  BY <1>1 DEF RegistryFacts, HandlersIdentified
<1>6. HoldersInMap'
  BY <1>2 DEF RegistryFacts, HoldersInMap, Holds
<1>7. EntriesHaveHolder'
  BY <1>2 DEF RegistryFacts, EntriesHaveHolder, Holds
<1>8. EvictedHeld'
  BY <1>1 DEF RegistryFacts, EvictedHeld
<1>9. QED
  BY <1>3, <1>4, <1>5, <1>6, <1>7, <1>8 DEF RegistryFacts

\* A step that changes neither the map nor any handler preserves it.
LEMMA QuietPreserves ==
  ASSUME RegistryFacts,
         UNCHANGED <<active, nextSession, pc, key, sid, evicted>>
  PROVE  RegistryFacts'
BY DEF RegistryFacts, IdsBelowCounter, IdsUnique, HandlersIdentified,
       EvictedHeld, HoldersInMap, EntriesHaveHolder, Holds

LEMMA ConnectPreserves ==
  ASSUME TypeOK, RegistryFacts, NEW c \in Conns, NEW k \in Keys, Connect(c, k)
  PROVE  RegistryFacts'
<1> USE NoneAssumption DEF TypeOK, Phase, Pending, Open, Holding, Over, Connect, mapVars
<1>1. pc[c] = "idle" /\ pc' = [pc EXCEPT ![c] = "requested"]
      /\ key' = [key EXCEPT ![c] = k]
      /\ UNCHANGED <<active, nextSession, sid, evicted>>
  OBVIOUS
<1>2. \A d \in Conns : pc'[d] \in Holding => pc[d] \in Holding /\ d # c
  BY <1>1
<1>3. IdsBelowCounter'
  BY DEF RegistryFacts, IdsBelowCounter
<1>4. IdsUnique'
  BY DEF RegistryFacts, IdsUnique
<1>5. HandlersIdentified'
  BY <1>1 DEF RegistryFacts, HandlersIdentified
<1>6. HoldersInMap'
  BY <1>1, <1>2 DEF RegistryFacts, HoldersInMap, Holds
<1>7. EntriesHaveHolder'
  BY <1>1 DEF RegistryFacts, EntriesHaveHolder, Holds
<1>8. EvictedHeld'
  BY <1>1 DEF RegistryFacts, EvictedHeld
<1>9. QED
  BY <1>3, <1>4, <1>5, <1>6, <1>7, <1>8 DEF RegistryFacts

LEMMA TakeIdPreserves ==
  ASSUME TypeOK, RegistryFacts, NEW c \in Conns, TakeId(c)
  PROVE  RegistryFacts'
<1> USE NoneAssumption DEF TypeOK, Phase, Pending, Open, Holding, Over, TakeId
<1>1. pc[c] = "validated" /\ pc' = [pc EXCEPT ![c] = "numbered"]
      /\ sid' = [sid EXCEPT ![c] = nextSession] /\ nextSession' = nextSession + 1
      /\ UNCHANGED <<active, key, evicted>>
  OBVIOUS
<1>2. \A d \in Conns : pc'[d] \in Holding => pc[d] \in Holding /\ d # c
  BY <1>1
<1>3. IdsBelowCounter'
  BY <1>1 DEF RegistryFacts, IdsBelowCounter
<1>4. IdsUnique'
  BY <1>1 DEF RegistryFacts, IdsBelowCounter, IdsUnique
<1>5. HandlersIdentified'
  BY <1>1 DEF RegistryFacts, HandlersIdentified
<1>6. HoldersInMap'
  BY <1>1, <1>2 DEF RegistryFacts, HoldersInMap, Holds
<1>7. EntriesHaveHolder'
  BY <1>1 DEF RegistryFacts, EntriesHaveHolder, Holds
<1>8. EvictedHeld'
  BY <1>1 DEF RegistryFacts, EvictedHeld
<1>9. QED
  BY <1>3, <1>4, <1>5, <1>6, <1>7, <1>8 DEF RegistryFacts

\* The key was free, so no handler outside evicted held it.
LEMMA RegisterPreserves ==
  ASSUME TypeOK, RegistryFacts, NEW c \in Conns, Register(c)
  PROVE  RegistryFacts'
<1> USE NoneAssumption DEF TypeOK, Phase, Pending, Open, Holding, Over, Register
<1>1. pc[c] = "numbered" /\ pc' = [pc EXCEPT ![c] = "upgrading"]
      /\ active[key[c]] = None /\ active' = [active EXCEPT ![key[c]] = sid[c]]
      /\ UNCHANGED <<nextSession, key, sid, evicted>>
  OBVIOUS
<1>2. key[c] \in Keys /\ sid[c] \in Nat
  BY <1>1 DEF RegistryFacts, HandlersIdentified
<1>3. IdsBelowCounter'
  BY <1>1 DEF RegistryFacts, IdsBelowCounter
<1>4. IdsUnique'
  BY <1>1 DEF RegistryFacts, IdsUnique
<1>5. HandlersIdentified'
  BY <1>1 DEF RegistryFacts, HandlersIdentified
<1>6. HoldersInMap'
  <2> SUFFICES ASSUME NEW d \in Conns, Holds(d)', d \notin evicted
               PROVE  active'[key[d]] = sid[d]
    BY <1>1 DEF HoldersInMap
  <2>1. CASE d = c
    BY <1>1, <1>2, <2>1
  <2>2. CASE d # c
    <3>1. Holds(d) /\ key[d] \in Keys /\ sid[d] # None /\ active[key[d]] = sid[d]
      BY <1>1, <2>2 DEF Holds, RegistryFacts, HandlersIdentified, HoldersInMap
    <3>2. QED
      BY <1>1, <1>2, <3>1
  <2>3. QED
    BY <2>1, <2>2
<1>7. c \notin evicted
  BY <1>1 DEF RegistryFacts, EvictedHeld
<1>8. EntriesHaveHolder'
  BY <1>1, <1>2, <1>7 DEF RegistryFacts, EntriesHaveHolder, Holds
<1>9. EvictedHeld'
  BY <1>1 DEF RegistryFacts, EvictedHeld
<1>10. QED
  BY <1>3, <1>4, <1>5, <1>6, <1>8, <1>9 DEF RegistryFacts

\* The cleanup removes the handler's own entry, or nothing.
LEMMA CleanupPreserves ==
  ASSUME TypeOK, RegistryFacts, NEW c \in Conns, Cleanup(c)
  PROVE  RegistryFacts'
<1> USE NoneAssumption DEF TypeOK, Phase, Pending, Open, Holding, Over
<1>1. /\ pc[c] = "cleaning" /\ pc' = [pc EXCEPT ![c] = "ended"]
      /\ active' = IF active[key[c]] = sid[c]
                   THEN [active EXCEPT ![key[c]] = None] ELSE active
      /\ UNCHANGED <<nextSession, key, sid, evicted>>
  BY DEF Cleanup
<1>2. key[c] \in Keys /\ sid[c] \in Nat
  BY <1>1 DEF RegistryFacts, HandlersIdentified
<1>3. IdsBelowCounter'
  BY <1>1 DEF RegistryFacts, IdsBelowCounter
<1>4. IdsUnique'
  BY <1>1 DEF RegistryFacts, IdsUnique
<1>5. HandlersIdentified'
  BY <1>1 DEF RegistryFacts, HandlersIdentified
<1>6. HoldersInMap'
  <2> SUFFICES ASSUME NEW d \in Conns, Holds(d)', d \notin evicted
               PROVE  active'[key[d]] = sid[d]
    BY <1>1 DEF HoldersInMap
  <2>1. d # c /\ Holds(d) /\ key[d] \in Keys /\ sid[d] # None
        /\ active[key[d]] = sid[d]
    BY <1>1 DEF Holds, RegistryFacts, HandlersIdentified, HoldersInMap
  <2>2. sid[d] # sid[c]
    BY <2>1 DEF RegistryFacts, IdsUnique
  <2>3. QED
    BY <1>1, <1>2, <2>1, <2>2
<1>7. EntriesHaveHolder'
  <2> SUFFICES ASSUME NEW k \in Keys, active'[k] # None
               PROVE  \E d \in Conns : /\ Holds(d)' /\ d \notin evicted
                                       /\ key[d] = k /\ sid[d] = active'[k]
    BY <1>1 DEF EntriesHaveHolder
  <2>1. active'[k] = active[k] /\ ~(k = key[c] /\ active[k] = sid[c])
    BY <1>1, <1>2
  <2>2. PICK d \in Conns : /\ Holds(d) /\ d \notin evicted
                           /\ key[d] = k /\ sid[d] = active[k]
    BY <2>1 DEF RegistryFacts, EntriesHaveHolder
  <2>3. d # c
    BY <2>1, <2>2
  <2>4. Holds(d)'
    BY <1>1, <2>2, <2>3 DEF Holds
  <2>5. QED
    BY <2>1, <2>2, <2>4
<1>8. EvictedHeld'
  BY <1>1 DEF RegistryFacts, EvictedHeld
<1>9. QED
  BY <1>3, <1>4, <1>5, <1>6, <1>7, <1>8 DEF RegistryFacts

\* The revocation removes an entry and records its holder as evicted.
LEMMA RevokePreserves ==
  ASSUME TypeOK, RegistryFacts, NEW a \in Removers, Revoke(a)
  PROVE  RegistryFacts'
<1> USE NoneAssumption DEF TypeOK, Phase, Pending, Open, Holding, Over
<1>1. /\ active' = [k \in Keys |-> IF k = targetKey[a] THEN None ELSE active[k]]
      /\ evicted' = evicted \cup {c \in Conns : /\ Holds(c)
                                                /\ key[c] = targetKey[a]
                                                /\ active[key[c]] = sid[c]}
      /\ UNCHANGED <<pc, nextSession, key, sid>>
  BY DEF Revoke, connVars
<1>2. IdsBelowCounter'
  BY <1>1 DEF RegistryFacts, IdsBelowCounter
<1>3. IdsUnique'
  BY <1>1 DEF RegistryFacts, IdsUnique
<1>4. HandlersIdentified'
  BY <1>1 DEF RegistryFacts, HandlersIdentified
<1>5. EvictedHeld'
  BY <1>1 DEF RegistryFacts, EvictedHeld, Holds
<1>6. HoldersInMap'
  <2> SUFFICES ASSUME NEW d \in Conns, Holds(d)', d \notin evicted'
               PROVE  active'[key[d]] = sid[d]
    BY <1>1 DEF HoldersInMap
  <2>1. Holds(d) /\ d \notin evicted /\ key[d] \in Keys /\ active[key[d]] = sid[d]
    BY <1>1 DEF Holds, RegistryFacts, HandlersIdentified, HoldersInMap
  <2>2. key[d] # targetKey[a]
    BY <1>1, <2>1
  <2>3. QED
    BY <1>1, <2>1, <2>2
<1>7. EntriesHaveHolder'
  <2> SUFFICES ASSUME NEW k \in Keys, active'[k] # None
               PROVE  \E d \in Conns : /\ Holds(d)' /\ d \notin evicted'
                                       /\ key[d] = k /\ sid[d] = active'[k]
    BY <1>1 DEF EntriesHaveHolder
  <2>1. active'[k] = active[k] /\ k # targetKey[a]
    BY <1>1
  <2>2. PICK d \in Conns : /\ Holds(d) /\ d \notin evicted
                           /\ key[d] = k /\ sid[d] = active[k]
    BY <2>1 DEF RegistryFacts, EntriesHaveHolder
  <2>3. Holds(d)' /\ d \notin evicted'
    BY <1>1, <2>1, <2>2 DEF Holds
  <2>4. QED
    BY <2>1, <2>2, <2>3
<1>8. QED
  BY <1>2, <1>3, <1>4, <1>5, <1>6, <1>7 DEF RegistryFacts

\* Stopping the process empties the map and ends every handler.
LEMMA StopPreserves ==
  ASSUME TypeOK, RegistryFacts, Stop
  PROVE  RegistryFacts'
BY NoneAssumption
DEF RegistryFacts, Stop, IdsBelowCounter, IdsUnique, HandlersIdentified,
    EvictedHeld, HoldersInMap, EntriesHaveHolder, Holds, Pending, Open, Holding

\* No step of the registry breaks the facts.
LEMMA FactsStep == TypeOK /\ RegistryFacts /\ [Next]_vars => RegistryFacts'
<1> SUFFICES ASSUME TypeOK, RegistryFacts, [Next]_vars PROVE RegistryFacts'
  OBVIOUS
<1> USE DEF serverVars, dbVars, mapVars, connVars, removerVars
<1>1. ASSUME NEW k \in Keys, AddUser(k) PROVE RegistryFacts'
  BY <1>1, QuietPreserves DEF AddUser
<1>2. ASSUME NEW c \in Conns, NEW k \in Keys, Connect(c, k) PROVE RegistryFacts'
  BY <1>2, ConnectPreserves
<1>3. ASSUME NEW c \in Conns, HangUp(c) PROVE RegistryFacts'
  BY <1>3, QuietPreserves DEF HangUp
<1>4. ASSUME NEW c \in Conns, NEW q \in Phase, Moves(c, q),
             \/ pc[c] \in Holding /\ q \in Holding
             \/ pc[c] \in Pending /\ q \in Over
             \/ pc[c] = "requested" /\ q = "validated"
      PROVE RegistryFacts'
  BY <1>4, MovePreserves
<1> DEFINE Quick(c) == \E q \in Phase :
             /\ Moves(c, q)
             /\ \/ pc[c] \in Holding /\ q \in Holding
                \/ pc[c] \in Pending /\ q \in Over
                \/ pc[c] = "requested" /\ q = "validated"
<1>5. ASSUME NEW c \in Conns, Quick(c) PROVE RegistryFacts'
  BY <1>4, <1>5
<1>6. ASSUME NEW c \in Conns,
             Validate(c) \/ Reject(c) \/ Cancel(c) \/ Upgrade(c)
             \/ UpgradeFails(c) \/ StartTasks(c) \/ SelectReturns(c)
      PROVE RegistryFacts'
  <2> USE DEF Moves, Phase, Pending, Open, Holding, Over
  <2>1. CASE Validate(c)
    <3>1. Quick(c)
      BY <2>1 DEF Validate
    <3>2. QED
      BY <3>1, <1>5
  <2>2. CASE Reject(c)
    <3>1. Quick(c)
      BY <2>2 DEF Reject
    <3>2. QED
      BY <3>1, <1>5
  <2>3. CASE Cancel(c)
    <3>1. Quick(c)
      BY <2>3 DEF Cancel
    <3>2. QED
      BY <3>1, <1>5
  <2>4. CASE Upgrade(c)
    <3>1. Quick(c)
      BY <2>4 DEF Upgrade
    <3>2. QED
      BY <3>1, <1>5
  <2>5. CASE UpgradeFails(c)
    <3>1. Quick(c)
      BY <2>5 DEF UpgradeFails
    <3>2. QED
      BY <3>1, <1>5
  <2>6. CASE StartTasks(c)
    <3>1. Quick(c)
      BY <2>6 DEF StartTasks
    <3>2. QED
      BY <3>1, <1>5
  <2>7. CASE SelectReturns(c)
    <3>1. Quick(c)
      BY <2>7 DEF SelectReturns
    <3>2. QED
      BY <3>1, <1>5
  <2>8. QED
    BY <1>6, <2>1, <2>2, <2>3, <2>4, <2>5, <2>6, <2>7
<1>7. ASSUME NEW c \in Conns, TakeId(c) PROVE RegistryFacts'
  BY <1>7, TakeIdPreserves
<1>8. ASSUME NEW c \in Conns, Register(c) PROVE RegistryFacts'
  BY <1>8, RegisterPreserves
<1>9. ASSUME NEW c \in Conns, Cleanup(c) PROVE RegistryFacts'
  BY <1>9, CleanupPreserves
<1>10. ASSUME NEW c \in Conns, RecvEnds(c) \/ SendFails(c) PROVE RegistryFacts'
  BY <1>10, QuietPreserves DEF RecvEnds, SendFails
<1>11. ASSUME NEW a \in Removers,
              \/ \E i \in 0 .. nextUser - 1 : LookUp(a, i)
              \/ CheckTarget(a) \/ DeleteRow(a) \/ StopRemoving(a)
       PROVE RegistryFacts'
  BY <1>11, QuietPreserves DEF LookUp, CheckTarget, DeleteRow, StopRemoving, Return
<1>12. ASSUME NEW a \in Removers, Revoke(a) PROVE RegistryFacts'
  BY <1>12, RevokePreserves
<1>13. CASE RequestRestart \/ Boot
  BY <1>13, QuietPreserves DEF RequestRestart, Boot
<1>14. CASE Stop
  BY <1>14, StopPreserves
<1>15. CASE UNCHANGED vars
  BY <1>15, QuietPreserves DEF vars
<1>16. QED
  BY <1>1, <1>2, <1>3, <1>6, <1>7, <1>8, <1>9, <1>10, <1>11, <1>12, <1>13,
     <1>14, <1>15
  DEF Next, Client, Handler, Remover, Exit, Crash

\* The inductive invariant of the registry holds in every reachable state.
THEOREM RegistryInvariant == Spec => []RegistryInv
<1>1. Init => RegistryFacts
  BY NoneAssumption
  DEF Init, Fresh, Root, RegistryFacts, IdsBelowCounter, IdsUnique, HandlersIdentified,
      EvictedHeld, HoldersInMap, EntriesHaveHolder, Holds, Pending, Open, Holding
<1>2. TypeOK /\ RegistryFacts => RegistryInv
  BY DEF RegistryFacts, RegistryInv
<1>3. QED
  BY <1>1, <1>2, FactsStep, TypeCorrect, PTL DEF Spec

\* At most one handler holds a key that no administrator has taken away.
THEOREM OneHolder == Spec => []OneHolderPerKey
<1>1. RegistryInv => OneHolderPerKey
  <2> SUFFICES ASSUME RegistryInv, NEW c \in Conns, NEW d \in Conns,
                      Holds(c), Holds(d), c \notin evicted, d \notin evicted,
                      key[c] = key[d]
               PROVE  c = d
    BY DEF OneHolderPerKey
  <2>1. sid[c] = sid[d]
    BY DEF RegistryInv, HoldersInMap
  <2>2. sid[c] # None
    BY DEF RegistryInv, HandlersIdentified, Holds
  <2>3. QED
    BY <2>1, <2>2 DEF RegistryInv, IdsUnique
<1>2. QED
  BY <1>1, RegistryInvariant, PTL

-----------------------------------------------------------------------------
(* What a single step may do to the map, and whom the server serves. *)

\* Four actions write active_connections.
LEMMA MapSteps ==
  ASSUME [Next]_vars
  PROVE  \/ UNCHANGED active
         \/ \E c \in Conns : Register(c) \/ Cleanup(c)
         \/ \E a \in Removers : Revoke(a)
         \/ Stop
<1> USE DEF mapVars
<1>1. ASSUME NEW c \in Conns, Client(c) \/ RecvEnds(c) \/ SendFails(c)
      PROVE  UNCHANGED active
  BY <1>1 DEF Client, HangUp, Connect, RecvEnds, SendFails
<1>2. ASSUME NEW c \in Conns, Handler(c)
      PROVE  UNCHANGED active \/ Register(c) \/ Cleanup(c)
  BY <1>2 DEF Handler, Validate, TakeId, Reject, Cancel, Upgrade, UpgradeFails,
              StartTasks, SelectReturns
<1>3. ASSUME NEW a \in Removers, Remover(a)
      PROVE  UNCHANGED active \/ Revoke(a)
  BY <1>3 DEF Remover, LookUp, CheckTarget, DeleteRow, StopRemoving
<1>4. ASSUME NEW k \in Keys, AddUser(k) PROVE UNCHANGED active
  BY <1>4 DEF AddUser
<1>5. ASSUME RequestRestart \/ Boot PROVE UNCHANGED active
  BY <1>5 DEF RequestRestart, Boot
<1>6. CASE UNCHANGED vars
  BY <1>6 DEF vars
<1>7. CASE Next
  BY <1>1, <1>2, <1>3, <1>4, <1>5, <1>7 DEF Next, Exit, Crash
<1>8. QED
  BY <1>6, <1>7

\* An entry is removed before its key is registered again.
THEOREM NoTakeoverHolds == Spec => NoTakeover
<1>1. TypeOK /\ [Next]_vars =>
        [\A k \in Keys : active[k] # None => active'[k] \in {active[k], None}]_vars
  <2> SUFFICES ASSUME TypeOK, [Next]_vars, NEW k \in Keys, active[k] # None
               PROVE  active'[k] \in {active[k], None}
    OBVIOUS
  <2>1. CASE UNCHANGED active
    BY <2>1
  <2>2. ASSUME NEW c \in Conns, Register(c) PROVE active'[k] \in {active[k], None}
    BY <2>2 DEF Register, TypeOK
  <2>3. ASSUME NEW c \in Conns, Cleanup(c) PROVE active'[k] \in {active[k], None}
    BY <2>3 DEF Cleanup, TypeOK
  <2>4. ASSUME NEW a \in Removers, Revoke(a) PROVE active'[k] \in {active[k], None}
    BY <2>4 DEF Revoke
  <2>5. CASE Stop
    BY <2>5 DEF Stop
  <2>6. QED
    BY <2>1, <2>2, <2>3, <2>4, <2>5, MapSteps
<1>2. QED
  BY <1>1, TypeCorrect, PTL DEF Spec, NoTakeover

\* A session removes only its own entry, an administrator only that of the key
\* of the row deleted.
THEOREM OnlyOwnCleanupHolds == Spec => OnlyOwnCleanup
<1> DEFINE Cause(k) ==
      \/ \E c \in Conns : /\ pc[c] = "cleaning" /\ pc'[c] = "ended"
                          /\ key[c] = k /\ sid[c] = active[k]
      \/ \E a \in Removers : rpc[a] = "deleted" /\ targetKey[a] = k
<1>1. TypeOK /\ [Next]_vars =>
        [\A k \in Keys :
           active[k] # None /\ active'[k] = None /\ server' # "down" => Cause(k)]_vars
  <2> SUFFICES ASSUME TypeOK, [Next]_vars, NEW k \in Keys,
                      active[k] # None, active'[k] = None, server' # "down"
               PROVE  Cause(k)
    OBVIOUS
  <2>1. CASE UNCHANGED active
    BY <2>1
  <2>2. ASSUME NEW c \in Conns, Register(c) PROVE Cause(k)
    <3>1. active' = [active EXCEPT ![key[c]] = sid[c]] /\ active[key[c]] = None
      BY <2>2 DEF Register
    <3>2. k # key[c]
      BY <3>1
    <3>3. QED
      BY <3>1, <3>2 DEF TypeOK
  <2>3. ASSUME NEW c \in Conns, Cleanup(c) PROVE Cause(k)
    <3>1. pc[c] = "cleaning" /\ pc'[c] = "ended"
      BY <2>3 DEF Cleanup, TypeOK
    <3>2. key[c] = k /\ sid[c] = active[k]
      BY <2>3 DEF Cleanup, TypeOK
    <3>3. QED
      BY <3>1, <3>2
  <2>4. ASSUME NEW a \in Removers, Revoke(a) PROVE Cause(k)
    BY <2>4 DEF Revoke
  <2>5. CASE Stop
    BY <2>5 DEF Stop
  <2>6. QED
    BY <2>1, <2>2, <2>3, <2>4, <2>5, MapSteps
<1>2. QED
  BY <1>1, TypeCorrect, PTL DEF Spec, OnlyOwnCleanup

\* Only a session that has been opened has tasks.
TasksOpened == \A c \in Conns : tasks[c] # {} => pc[c] \in {"live", "cleaning", "ended"}

LEMMA TasksInvariant == Spec => []TasksOpened
<1>1. Init => TasksOpened
  BY DEF Init, Fresh, TasksOpened
<1>2. TypeOK /\ TasksOpened /\ [Next]_vars => TasksOpened'
  <2> SUFFICES ASSUME TypeOK, TasksOpened, [Next]_vars PROVE TasksOpened'
    OBVIOUS
  <2> USE DEF TasksOpened, TypeOK, connVars
  <2>1. ASSUME NEW c \in Conns, Handler(c) PROVE TasksOpened'
    BY <2>1 DEF Handler, Validate, TakeId, Register, Reject, Cancel, Upgrade,
                UpgradeFails, StartTasks, SelectReturns, Cleanup, Pending
  <2>2. ASSUME NEW c \in Conns, Client(c) \/ RecvEnds(c) \/ SendFails(c)
        PROVE  TasksOpened'
    BY <2>2 DEF Client, HangUp, Connect, RecvEnds, SendFails
  <2>3. ASSUME NEW a \in Removers, Remover(a) PROVE TasksOpened'
    BY <2>3 DEF Remover, LookUp, CheckTarget, DeleteRow, Revoke, StopRemoving
  <2>4. ASSUME NEW k \in Keys, AddUser(k) PROVE TasksOpened'
    BY <2>4 DEF AddUser
  <2>5. CASE RequestRestart \/ Boot
    BY <2>5 DEF RequestRestart, Boot
  <2>6. CASE Stop
    BY <2>6 DEF Stop
  <2>7. CASE UNCHANGED vars
    BY <2>7 DEF vars
  <2>8. QED
    BY <2>1, <2>2, <2>3, <2>4, <2>5, <2>6, <2>7 DEF Next, Exit, Crash
<1>3. QED
  BY <1>1, <1>2, TypeCorrect, PTL DEF Spec

\* Two clients of one key are served only after a revocation or beside a task
\* that its session has left behind.
THEOREM OneServed == Spec => []OneServedUnlessRevoked
<1>1. TasksOpened /\ OneHolderPerKey => OneServedUnlessRevoked
  <2> SUFFICES ASSUME TasksOpened, OneHolderPerKey,
                      NEW c \in Conns, NEW d \in Conns,
                      Served(c), Served(d), key[c] = key[d], c # d,
                      c \notin evicted, d \notin evicted,
                      pc[c] # "ended", pc[d] # "ended"
               PROVE  FALSE
    BY DEF OneServedUnlessRevoked
  <2>1. pc[c] \in {"live", "cleaning"} /\ pc[d] \in {"live", "cleaning"}
    BY DEF TasksOpened, Served
  <2>2. Holds(c) /\ Holds(d)
    BY <2>1 DEF Holds, Holding, Open
  <2>3. QED
    BY <2>2 DEF OneHolderPerKey
<1>2. QED
  BY <1>1, TasksInvariant, OneHolder, PTL

-----------------------------------------------------------------------------
(* The registry implements SessionLease. *)

\* The handler that an entry names is the holder of the lease.
HolderNamed ==
    \A k \in Keys :
        /\ active[k] = None => Holder[k] = None
        /\ \A c \in Conns :
              /\ Holds(c) /\ c \notin evicted
              /\ key[c] = k /\ active[k] # None /\ sid[c] = active[k]
              => Holder[k] = c

LEMMA NamesHolder == RegistryInv => HolderNamed
<1> SUFFICES ASSUME RegistryInv, NEW k \in Keys, active[k] # None, NEW c \in Conns,
                    Holds(c), c \notin evicted, key[c] = k, sid[c] = active[k]
             PROVE  Holder[k] = c
  BY DEF HolderNamed, Holder
<1> DEFINE Named(d) == Holds(d) /\ d \notin evicted /\ key[d] = k /\ sid[d] = active[k]
<1>1. \A d \in Conns : Named(d) => d = c
  BY DEF RegistryInv, IdsUnique
<1>2. Holder[k] = CHOOSE d \in Conns : Named(d)
  BY DEF Holder
<1>3. (CHOOSE d \in Conns : Named(d)) \in Conns /\ Named(CHOOSE d \in Conns : Named(d))
  OBVIOUS
<1>4. QED
  BY <1>1, <1>2, <1>3

LEMMA NamesHolderNext == (RegistryInv => HolderNamed)'
BY NamesHolder, PTL

\* While a handler holds its registration, its key and its id are its own.
LEMMA HandlersKeep ==
  ASSUME TypeOK, [Next]_vars, NEW c \in Conns, Holds(c)
  PROVE  (key'[c] = key[c] /\ sid'[c] = sid[c]) \/ Stop
<1> USE DEF TypeOK, Holds, Holding, Open, connVars
<1>1. ASSUME NEW d \in Conns, Handler(d) PROVE key'[c] = key[c] /\ sid'[c] = sid[c]
  BY <1>1 DEF Handler, Validate, TakeId, Register, Reject, Cancel, Upgrade, UpgradeFails,
              StartTasks, SelectReturns, Cleanup
<1>2. ASSUME NEW d \in Conns, Client(d) \/ RecvEnds(d) \/ SendFails(d)
      PROVE  key'[c] = key[c] /\ sid'[c] = sid[c]
  BY <1>2 DEF Client, HangUp, Connect, RecvEnds, SendFails
<1>3. ASSUME NEW a \in Removers, Remover(a) PROVE UNCHANGED <<key, sid>>
  BY <1>3 DEF Remover, LookUp, CheckTarget, DeleteRow, Revoke, StopRemoving
<1>4. ASSUME NEW k \in Keys, AddUser(k) PROVE UNCHANGED <<key, sid>>
  BY <1>4 DEF AddUser
<1>5. CASE RequestRestart \/ Boot \/ UNCHANGED vars
  BY <1>5 DEF RequestRestart, Boot, vars
<1>6. QED
  BY <1>1, <1>2, <1>3, <1>4, <1>5 DEF Next, Exit, Crash

\* A lease begins with Register; nothing else but the end of the process puts a
\* handler among those that have had one.
LEMMA PastSteps ==
  ASSUME TypeOK, [Next]_vars
  PROVE  \/ Past' = Past
         \/ \E c \in Conns : Register(c) /\ c \notin Past /\ Past' = Past \cup {c}
         \/ Stop /\ Past \subseteq Past' /\ Past' \subseteq Conns
<1> USE DEF TypeOK, Past, Pending, Holding, Open, connVars
<1>1. ASSUME NEW c \in Conns, Register(c)
      PROVE  c \notin Past /\ Past' = Past \cup {c}
  BY <1>1 DEF Register
<1>2. ASSUME NEW c \in Conns, Handler(c), ~Register(c) PROVE Past' = Past
  <2>1. CASE Validate(c) \/ TakeId(c) \/ Reject(c) \/ Cancel(c)
    BY <2>1 DEF Validate, TakeId, Reject, Cancel
  <2>2. CASE Upgrade(c) \/ UpgradeFails(c) \/ StartTasks(c) \/ SelectReturns(c) \/ Cleanup(c)
    BY <2>2 DEF Upgrade, UpgradeFails, StartTasks, SelectReturns, Cleanup
  <2>3. QED
    BY <1>2, <2>1, <2>2 DEF Handler
<1>3. ASSUME NEW c \in Conns, Client(c) \/ RecvEnds(c) \/ SendFails(c) PROVE Past' = Past
  BY <1>3 DEF Client, HangUp, Connect, RecvEnds, SendFails
<1>4. CASE \/ \E a \in Removers : Remover(a)
           \/ \E k \in Keys : AddUser(k)
           \/ RequestRestart \/ Boot \/ UNCHANGED vars
  <2>1. pc' = pc
    BY <1>4 DEF Remover, LookUp, CheckTarget, DeleteRow, Revoke, StopRemoving, AddUser,
                RequestRestart, Boot, vars
  <2>2. QED
    BY <2>1
<1>5. CASE Stop
  BY <1>5 DEF Stop
<1>6. QED
  BY <1>1, <1>2, <1>3, <1>4, <1>5 DEF Next, Exit, Crash

\* An entry that stays keeps its holder.
LEMMA HolderStays ==
  ASSUME RegistryInv, RegistryInv', [Next]_vars, NEW k \in Keys, active'[k] = active[k],
         ~Stop
  PROVE  Holder'[k] = Holder[k]
<1>1. HolderNamed /\ HolderNamed'
  BY NamesHolder, NamesHolderNext
<1>2. CASE active[k] = None
  BY <1>1, <1>2 DEF HolderNamed
<1>3. CASE active[k] # None
  <2>1. PICK c \in Conns : Holds(c) /\ c \notin evicted /\ key[c] = k /\ sid[c] = active[k]
    BY <1>3 DEF RegistryInv, EntriesHaveHolder
  <2>2. PICK d \in Conns : /\ Holds(d)' /\ d \notin evicted'
                           /\ key'[d] = k /\ sid'[d] = active'[k]
    BY <1>3 DEF RegistryInv, EntriesHaveHolder
  <2>3. sid'[c] = sid[c]
    BY <2>1, HandlersKeep DEF RegistryInv
  <2>4. c = d
    BY <1>3, <2>1, <2>2, <2>3 DEF RegistryInv, IdsUnique
  <2>5. QED
    BY <1>1, <1>3, <2>1, <2>2, <2>4 DEF HolderNamed
<1>4. QED
  BY <1>2, <1>3

\* The registry implements the lease: a key is leased to one session at a time,
\* and an attempt that was rejected or has finished never gets it.
THEOREM RegistryImplementsLease == Spec => LeaseSpec
<1>1. Init => Lease!Init
  BY DEF Init, Fresh, Lease!Init, Holder, Past, Holding, Open
<1>2. RegistryInv /\ RegistryInv' /\ [Next]_vars => [Lease!Next]_Lease!vars
  <2> SUFFICES ASSUME RegistryInv, RegistryInv', [Next]_vars
               PROVE  Lease!Next \/ UNCHANGED <<Holder, Past>>
    BY DEF Lease!vars
  <2> USE NoneAssumption
  <2>1. TypeOK /\ HolderNamed /\ HolderNamed'
    BY NamesHolder, NamesHolderNext DEF RegistryInv
  <2>2. /\ Holder = [k \in Keys |-> Holder[k]]
        /\ Holder' = [k \in Keys |-> Holder'[k]]
    BY DEF Holder
  <2>3. ASSUME ~Stop, Past' = Past, UNCHANGED active PROVE UNCHANGED <<Holder, Past>>
    <3>1. \A k \in Keys : Holder'[k] = Holder[k]
      BY <2>3, HolderStays
    <3>2. QED
      BY <2>2, <2>3, <3>1
  <2>4. ASSUME ~Stop, Past' = Past, NEW k \in Keys, active' = [active EXCEPT ![k] = None]
        PROVE  Lease!Next \/ UNCHANGED <<Holder, Past>>
    <3>1. CASE active[k] = None
      <4>1. active' = active
        BY <2>1, <2>4, <3>1 DEF TypeOK
      <4>2. QED
        BY <2>3, <2>4, <4>1
    <3>2. CASE active[k] # None
      <4>1. active'[k] = None /\ \A l \in Keys : l # k => active'[l] = active[l]
        BY <2>1, <2>4 DEF TypeOK
      <4>2. Holder'[k] = None /\ \A l \in Keys : l # k => Holder'[l] = Holder[l]
        BY <2>1, <2>4, <4>1, HolderStays DEF HolderNamed
      <4>3. Holder' = [Holder EXCEPT ![k] = None]
        BY <2>2, <4>2
      <4>4. Holder[k] # None
        BY <2>1, <3>2 DEF HolderNamed, RegistryInv, EntriesHaveHolder
      <4>5. Lease!Release(k)
        BY <2>4, <4>3, <4>4 DEF Lease!Release
      <4>6. QED
        BY <4>5 DEF Lease!Next
    <3>3. QED
      BY <3>1, <3>2
  <2>5. ASSUME NEW c \in Conns, Register(c), c \notin Past, Past' = Past \cup {c}
        PROVE  Lease!Next
    <3>1. /\ pc[c] = "numbered" /\ pc'[c] = "upgrading" /\ active[key[c]] = None
          /\ active' = [active EXCEPT ![key[c]] = sid[c]]
          /\ UNCHANGED <<key, sid, evicted>>
      BY <2>1, <2>5 DEF Register, TypeOK
    <3>2. key[c] \in Keys /\ sid[c] \in Nat
      BY <2>1, <3>1 DEF RegistryInv, HandlersIdentified, Pending, TypeOK
    <3>3. c \notin evicted
      BY <3>1 DEF RegistryInv, EvictedHeld, Holding, Open
    <3>4. active'[key[c]] = sid[c] /\ \A l \in Keys : l # key[c] => active'[l] = active[l]
      BY <2>1, <3>1, <3>2 DEF TypeOK
    <3>5. Holds(c)'
      BY <3>1 DEF Holds, Holding
    <3>6. Holder'[key[c]] = c
      BY <2>1, <3>1, <3>2, <3>3, <3>4, <3>5 DEF HolderNamed
    <3>7. ~Stop
      BY <3>2, <3>4 DEF Stop
    <3>8. \A l \in Keys : l # key[c] => Holder'[l] = Holder[l]
      BY <3>4, <3>7, HolderStays
    <3>9. Holder' = [Holder EXCEPT ![key[c]] = c]
      BY <2>2, <3>6, <3>8
    <3>10. Holder[key[c]] = None
      BY <2>1, <3>1, <3>2 DEF HolderNamed
    <3>11. Lease!Acquire(key[c], c)
      BY <2>5, <3>9, <3>10 DEF Lease!Acquire
    <3>12. QED
      BY <3>2, <3>11 DEF Lease!Next
  <2>6. CASE Stop
    <3>1. Holder' = [k \in Keys |-> None]
      BY <2>6 DEF Stop, Holder
    <3>2. Past \subseteq Past' /\ Past' \subseteq Conns
      BY <2>1, <2>6 DEF Past, Stop, TypeOK, Holding, Open
    <3>3. Lease!Reset
      BY <3>1, <3>2 DEF Lease!Reset
    <3>4. QED
      BY <3>3 DEF Lease!Next
  <2>7. ASSUME ~Stop, NEW c \in Conns, Register(c) PROVE Lease!Next
    <3>1. c \notin Past /\ Past' = Past \cup {c}
      BY <2>1, <2>7 DEF Register, Past, TypeOK, Holding, Open
    <3>2. QED
      BY <2>5, <2>7, <3>1
  <2>8. ASSUME ~Stop, \A c \in Conns : ~Register(c)
        PROVE  Lease!Next \/ UNCHANGED <<Holder, Past>>
    <3>1. Past' = Past
      BY <2>1, <2>8, PastSteps
    <3>2. ASSUME NEW c \in Conns, Cleanup(c) PROVE Lease!Next \/ UNCHANGED <<Holder, Past>>
      <4>1. key[c] \in Keys
        BY <2>1, <3>2 DEF Cleanup, RegistryInv, HandlersIdentified, Holding, TypeOK
      <4>2. active' = active \/ active' = [active EXCEPT ![key[c]] = None]
        BY <3>2 DEF Cleanup
      <4>3. QED
        BY <2>3, <2>4, <2>8, <3>1, <4>1, <4>2
    <3>3. ASSUME NEW a \in Removers, Revoke(a) PROVE Lease!Next \/ UNCHANGED <<Holder, Past>>
      <4>1. active' = [k \in Keys |-> IF k = targetKey[a] THEN None ELSE active[k]]
        BY <3>3 DEF Revoke
      <4>2. active' = active \/ \E k \in Keys : active' = [active EXCEPT ![k] = None]
        <5>1. CASE targetKey[a] \in Keys
          BY <2>1, <4>1, <5>1 DEF TypeOK
        <5>2. CASE targetKey[a] \notin Keys
          BY <2>1, <4>1, <5>2 DEF TypeOK
        <5>3. QED
          BY <5>1, <5>2
      <4>3. QED
        BY <2>3, <2>4, <2>8, <3>1, <4>2
    <3>4. QED
      BY <2>3, <2>8, <3>1, <3>2, <3>3, MapSteps
  <2>9. QED
    BY <2>6, <2>7, <2>8
<1>3. QED
  BY <1>1, <1>2, RegistryInvariant, PTL DEF Spec, LeaseSpec, Lease!Spec

-----------------------------------------------------------------------------
(***************************************************************************)
(* The panel.  OnlyClickedRemoved holds because an id never comes to name  *)
(* another row: of all rows in the table, on the screen, in answers and    *)
(* behind clicked buttons, no two have the same id, and every id that is   *)
(* on its way to the DELETE is that of a clicked row.                      *)
(***************************************************************************)
Rows == users \cup shown \cup doomed \cup UNION {request[r].rows : r \in Slots}

RowsAreOne ==
    /\ nextUser \in Nat
    /\ \A u \in Rows : u \in Row /\ u.id < nextUser
    /\ \A u, v \in Rows : u.id = v.id => u = v

Clicked(i) == \E u \in doomed : u.id = i /\ ~u.admin

Asked(q) ==
    /\ q.kind = "add" /\ q.stage = "sent" => q.key \in Keys
    /\ q.kind = "remove" /\ q.stage \in {"sent", "handling"} => Clicked(q.id)

PanelInv ==
    /\ RowsAreOne
    /\ request \in [Slots -> Request]
    /\ \A r \in Slots : Asked(request[r])
    /\ rpc \in [Removers -> RemoverPhase]
    /\ target \in [Removers -> Nat]
    /\ \A a \in Removers : rpc[a] # "idle" => Clicked(target[a])

\* A step that shows or forgets rows and inserts none keeps them apart.
LEMMA RowsStay ==
    RowsAreOne /\ Rows' \subseteq Rows /\ nextUser' = nextUser => RowsAreOne'
BY DEF RowsAreOne

\* A click is never taken back.
LEMMA ClicksStay ==
    ASSUME NEW i, Clicked(i), doomed \subseteq doomed'
    PROVE  Clicked(i)'
BY DEF Clicked

\* Nothing comes to be asked for without a click.
LEMMA AskingKeeps ==
    ASSUME PanelInv, RowsAreOne', doomed \subseteq doomed',
           request' \in [Slots -> Request],
           \A r \in Slots : request'[r] = request[r] \/ Asked(request[r])',
           rpc' \in [Removers -> RemoverPhase], target' \in [Removers -> Nat],
           \A a \in Removers : rpc'[a] # "idle" =>
              (rpc[a] # "idle" /\ target'[a] = target[a]) \/ Clicked(target[a])'
    PROVE  PanelInv'
<1>1. ASSUME NEW r \in Slots PROVE Asked(request[r])'
  <2>1. CASE request'[r] = request[r]
    <3>1. Asked(request[r])
      BY DEF PanelInv
    <3>2. QED
      BY <2>1, <3>1 DEF Asked, Clicked
  <2>2. QED
    BY <2>1
<1>2. ASSUME NEW a \in Removers, rpc'[a] # "idle" PROVE Clicked(target[a])'
  <2>1. CASE rpc[a] # "idle" /\ target'[a] = target[a]
    <3>1. Clicked(target[a])
      BY <2>1 DEF PanelInv
    <3>2. QED
      BY <2>1, <3>1 DEF Clicked
  <2>2. QED
    BY <1>2, <2>1
<1>3. QED
  BY <1>1, <1>2 DEF PanelInv

\* One request changes, to one that asks for something asked for.
LEMMA RequestKeeps ==
    ASSUME PanelInv, NEW r \in Slots, NEW q \in Request,
           request' = [request EXCEPT ![r] = q],
           RowsAreOne', Asked(q)', doomed \subseteq doomed', UNCHANGED removerVars
    PROVE  PanelInv'
<1>1. \A s \in Slots : request'[s] = request[s] \/ request'[s] = q
  BY DEF PanelInv
<1>2. \A s \in Slots : request'[s] = request[s] \/ Asked(request[s])'
  BY <1>1 DEF Asked
<1>3. request' \in [Slots -> Request]
  BY DEF PanelInv
<1>4. rpc' \in [Removers -> RemoverPhase] /\ target' \in [Removers -> Nat]
      /\ \A a \in Removers : rpc'[a] = rpc[a] /\ target'[a] = target[a]
  BY DEF PanelInv, removerVars
<1>5. QED
  BY <1>2, <1>3, <1>4, AskingKeeps

\* ... whose rows are seen already.
LEMMA RowsOfRequest ==
    ASSUME PanelInv, NEW r \in Slots, NEW q \in Request,
           request' = [request EXCEPT ![r] = q],
           q.rows \subseteq Rows, users' \subseteq Rows, shown' \subseteq Rows,
           doomed' \subseteq Rows, nextUser' = nextUser
    PROVE  RowsAreOne'
<1>1. ASSUME NEW s \in Slots PROVE request'[s].rows \subseteq Rows
  BY DEF PanelInv, Rows
<1>2. Rows' \subseteq Rows
  BY <1>1 DEF Rows
<1>3. QED
  BY <1>2, RowsStay DEF PanelInv

LEMMA ClickKeeps ==
    ASSUME PanelInv, NEW r \in Slots, NEW q \in Request, q.rows = {}, Click(r, q),
           doomed \subseteq doomed', doomed' \subseteq doomed \cup shown, Asked(q)'
    PROVE  PanelInv'
<1> USE DEF vars, dbVars, removerVars
<1>1. request' = [request EXCEPT ![r] = q]
  BY DEF Click
<1>2. users' \subseteq Rows /\ shown' \subseteq Rows /\ doomed' \subseteq Rows
      /\ nextUser' = nextUser
  BY DEF Click, Rows
<1>3. RowsAreOne'
  BY <1>1, <1>2, RowsOfRequest
<1>4. QED
  BY <1>1, <1>3, RequestKeeps DEF Click

LEMMA ButtonsKeep ==
    ASSUME PanelInv, NEW r \in Slots, Buttons(r) PROVE PanelInv'
<1> USE NoneAssumption, PanelAssumption DEF Sent, NoRequest, Kind, Stage
<1>1. CASE fetch_users(r)
  <2>1. Sent("list") \in Request /\ Sent("list").rows = {} /\ Asked(Sent("list"))'
    BY DEF Request, Asked
  <2>2. QED
    BY <1>1, <2>1, ClickKeeps DEF fetch_users
<1>2. CASE restart_server(r)
  <2>1. Sent("restart") \in Request /\ Sent("restart").rows = {} /\ Asked(Sent("restart"))'
    BY DEF Request, Asked
  <2>2. QED
    BY <1>2, <2>1, ClickKeeps DEF restart_server
<1>3. ASSUME NEW k \in TypedKeys, add_user(r, k) PROVE PanelInv'
  <2> DEFINE q == [Sent("add") EXCEPT !.key = k]
  <2>1. k \in Keys
    OBVIOUS
  <2>2. q \in Request /\ q.rows = {}
    BY <2>1 DEF Request
  <2>3. Asked(q)'
    BY <2>1 DEF Asked
  <2> HIDE DEF q
  <2>4. Click(r, q) /\ UNCHANGED doomed
    BY <1>3 DEF add_user, q
  <2>5. QED
    BY <2>2, <2>3, <2>4, ClickKeeps
<1>4. ASSUME NEW u \in shown, remove_user(r, u) PROVE PanelInv'
  <2> DEFINE q == [Sent("remove") EXCEPT !.id = u.id]
  <2>1. u \in Row
    BY DEF PanelInv, RowsAreOne, Rows
  <2>2. q \in Request /\ q.rows = {}
    BY <2>1 DEF Request, Row
  <2>3. q.id = u.id /\ q.kind = "remove"
    OBVIOUS
  <2> HIDE DEF q
  <2>4. Click(r, q) /\ doomed' = doomed \cup {u} /\ ~u.admin
    BY <1>4 DEF remove_user, q
  <2>5. Asked(q)'
    BY <2>3, <2>4 DEF Asked, Clicked
  <2>6. QED
    BY <2>2, <2>4, <2>5, ClickKeeps
<1>5. QED
  BY <1>1, <1>2, <1>3, <1>4 DEF Buttons

\* A request only goes on, with the rows it has or with others that are seen.
LEMMA AnswerKeeps ==
    ASSUME PanelInv, NEW r \in Slots, NEW q \in Request,
           request' = [request EXCEPT ![r] = q],
           q.rows \subseteq Rows, q.stage \notin {"sent", "handling"},
           UNCHANGED <<users, nextUser, doomed, removerVars>>, shown' \subseteq Rows
    PROVE  PanelInv'
<1>1. users' \subseteq Rows /\ doomed' \subseteq Rows
  BY DEF Rows
<1>2. RowsAreOne'
  BY <1>1, RowsOfRequest
<1>3. Asked(q)'
  BY DEF Asked
<1>4. QED
  BY <1>2, <1>3, RequestKeeps

LEMMA StagesKeep ==
    ASSUME PanelInv, NEW r \in Slots, NEW s \in Stage \ {"sent", "handling"},
           GoesTo(r, s), UNCHANGED <<users, nextUser, removerVars>>, PanelRests
    PROVE  PanelInv'
<1> DEFINE q == [request[r] EXCEPT !.stage = s]
<1>1. request[r] \in Request /\ request[r].rows \subseteq Rows
  BY DEF PanelInv, Rows
<1>2. q \in Request /\ q.rows \subseteq Rows /\ q.stage \notin {"sent", "handling"}
  BY <1>1 DEF Request
<1>3. request' = [request EXCEPT ![r] = q]
  BY DEF GoesTo, PanelInv
<1>4. shown' \subseteq Rows
  BY DEF PanelRests, Rows
<1> HIDE DEF q
<1>5. QED
  BY <1>2, <1>3, <1>4, AnswerKeeps DEF PanelRests

\* The server's handlers.
LEMMA AddKeeps ==
    ASSUME PanelInv, NEW r \in Slots, add_user_handler(r) PROVE PanelInv'
<1> DEFINE k == request[r].key
           new == [id |-> nextUser, key |-> k, admin |-> FALSE]
<1>1. request[r] \in Request /\ k \in Keys
  BY DEF add_user_handler, At, PanelInv, Asked
<1>2. users' = users \cup {new} /\ nextUser' = nextUser + 1 /\ UNCHANGED removerVars
      /\ shown' = shown /\ doomed' = doomed
  BY DEF add_user_handler, AddUser, PanelRests
<1>3. PICK q \in Request : q = [request[r] EXCEPT !.stage = "answered"]
  BY <1>1 DEF Request, Stage
<1>4. /\ q.rows = request[r].rows /\ q.stage = "answered"
      /\ request' = [request EXCEPT ![r] = q]
  BY <1>1, <1>3 DEF add_user_handler, GoesTo, PanelInv, Request
<1>5. \A s \in Slots : request'[s].rows = request[s].rows
  BY <1>4 DEF PanelInv
<1>6. Rows' \subseteq Rows \cup {new}
  BY <1>2, <1>5 DEF Rows
<1>7. new \in Row /\ new.id = nextUser /\ nextUser \in Nat
  BY <1>1 DEF Row, PanelInv, RowsAreOne
<1>8. \A u \in Rows : u \in Row /\ u.id \in Nat /\ u.id < nextUser
  BY DEF PanelInv, RowsAreOne, Row
<1> HIDE DEF new
<1>9. RowsAreOne'
  <2>1. nextUser' \in Nat
    BY <1>2, <1>7
  <2>2. ASSUME NEW u \in Rows' PROVE u \in Row /\ u.id < nextUser'
    BY <1>2, <1>6, <1>7, <1>8
  <2>3. ASSUME NEW u \in Rows', NEW v \in Rows', u.id = v.id PROVE u = v
    <3>1. u \in Rows <=> u.id # nextUser
      BY <1>6, <1>7, <1>8
    <3>2. v \in Rows <=> v.id # nextUser
      BY <1>6, <1>7, <1>8
    <3>3. CASE u \in Rows /\ v \in Rows
      BY <2>3, <3>3 DEF PanelInv, RowsAreOne
    <3>4. CASE u = new /\ v = new
      BY <3>4
    <3>5. QED
      BY <1>6, <2>3, <3>1, <3>2, <3>3, <3>4
  <2>4. QED
    BY <2>1, <2>2, <2>3 DEF RowsAreOne, Row
<1>10. Asked(q)'
  BY <1>4 DEF Asked
<1>11. QED
  BY <1>2, <1>4, <1>9, <1>10, RequestKeeps

LEMMA BeginKeeps ==
    ASSUME PanelInv, NEW r \in Slots, NEW a \in Removers, remove_user_begins(r, a)
    PROVE  PanelInv'
<1>1. PICK i \in Nat : i = request[r].id /\ Clicked(i)
  BY DEF remove_user_begins, At, PanelInv, Asked, Request
<1>2. PICK q \in Request : q = [request[r] EXCEPT !.stage = "handling"]
  BY DEF PanelInv, Request, Stage
<1>3. /\ q.rows = request[r].rows /\ q.kind = "remove" /\ q.id = i
      /\ request' = [request EXCEPT ![r] = q]
  BY <1>1, <1>2 DEF remove_user_begins, At, GoesTo, PanelInv, Request
<1>4. UNCHANGED <<users, nextUser, shown, doomed>>
  BY DEF remove_user_begins, LookUp, PanelRests, dbVars
<1>5. rpc' = [rpc EXCEPT ![a] = "looked"] /\ target' = [target EXCEPT ![a] = i]
  BY <1>1 DEF remove_user_begins, LookUp
<1>6. q.rows \subseteq Rows /\ users' \subseteq Rows /\ shown' \subseteq Rows
      /\ doomed' \subseteq Rows
  BY <1>3, <1>4 DEF Rows
<1>7. RowsAreOne'
  BY <1>3, <1>4, <1>6, RowsOfRequest
<1>8. Clicked(i)'
  BY <1>1, <1>4 DEF Clicked
<1>9. \A s \in Slots : request'[s] = request[s] \/ Asked(request[s])'
  BY <1>3, <1>8 DEF PanelInv, Asked
<1>10. \A b \in Removers : rpc'[b] # "idle" =>
          (rpc[b] # "idle" /\ target'[b] = target[b]) \/ Clicked(target[b])'
  BY <1>5, <1>8 DEF PanelInv, Clicked
<1>11. rpc' \in [Removers -> RemoverPhase] /\ target' \in [Removers -> Nat]
       /\ request' \in [Slots -> Request]
  BY <1>3, <1>5 DEF PanelInv, RemoverPhase
<1>12. QED
  BY <1>4, <1>7, <1>9, <1>10, <1>11, AskingKeeps

LEMMA GoOnKeeps ==
    ASSUME PanelInv, NEW a \in Removers, remove_user_goes_on(a) PROVE PanelInv'
<1> USE DEF panelVars, removerVars, dbVars, RemoverPhase
<1>1. UNCHANGED panelVars /\ users' \subseteq users /\ nextUser' = nextUser
  BY DEF remove_user_goes_on, CheckTarget, DeleteRow
<1>2. Rows' \subseteq Rows
  BY <1>1 DEF Rows
<1>3. RowsAreOne'
  BY <1>1, <1>2, RowsStay DEF PanelInv
<1>4. target' = target /\ rpc[a] # "idle" /\ rpc' \in [Removers -> RemoverPhase]
      /\ \A b \in Removers : b # a => rpc'[b] = rpc[b]
  BY DEF remove_user_goes_on, CheckTarget, DeleteRow, PanelInv
<1>5. QED
  BY <1>1, <1>3, <1>4, AskingKeeps DEF PanelInv

LEMMA EndKeeps ==
    ASSUME PanelInv, NEW r \in Slots, NEW a \in Removers, remove_user_ends(r, a)
    PROVE  PanelInv'
<1> USE DEF dbVars, RemoverPhase
<1>1. UNCHANGED <<users, nextUser, shown, doomed>> /\ Return(a)
  BY DEF remove_user_ends, Revoke, StopRemoving, PanelRests
<1>2. PICK s \in {"answered", "failed"} : GoesTo(r, s)
  BY DEF remove_user_ends
<1>3. PICK q \in Request : q = [request[r] EXCEPT !.stage = s]
  BY DEF PanelInv, Request, Stage
<1>4. /\ q.rows = request[r].rows /\ q.stage = s
      /\ request' = [request EXCEPT ![r] = q]
  BY <1>2, <1>3 DEF GoesTo, PanelInv, Request
<1>5. q.rows \subseteq Rows /\ users' \subseteq Rows /\ shown' \subseteq Rows
      /\ doomed' \subseteq Rows
  BY <1>1, <1>4 DEF Rows
<1>6. RowsAreOne'
  BY <1>1, <1>4, <1>5, RowsOfRequest
<1>7. \A t \in Slots : request'[t] = request[t] \/ Asked(request[t])'
  BY <1>2, <1>4 DEF PanelInv, Asked
<1>8. /\ rpc' \in [Removers -> RemoverPhase] /\ target' \in [Removers -> Nat]
      /\ \A b \in Removers :
            rpc'[b] # "idle" => rpc[b] # "idle" /\ target'[b] = target[b]
  BY <1>1 DEF Return, PanelInv
<1>9. request' \in [Slots -> Request]
  BY <1>4 DEF PanelInv
<1>10. QED
  BY <1>1, <1>6, <1>7, <1>8, <1>9, AskingKeeps

LEMMA ServeKeeps ==
    ASSUME PanelInv, NEW r \in Slots, Serve(r) PROVE PanelInv'
<1> USE DEF vars, dbVars
<1>1. CASE get_users_handler(r)
  <2>1. PICK q \in Request : q = [request[r] EXCEPT !.stage = "answered", !.rows = users]
    <3>1. users \in SUBSET Row
      BY DEF PanelInv, RowsAreOne, Rows
    <3>2. request[r] \in Request
      BY DEF PanelInv
    <3>3. [request[r] EXCEPT !.stage = "answered", !.rows = users] \in Request
      BY <3>1, <3>2 DEF Request, Stage
    <3>4. QED
      BY <3>3
  <2>2. q.rows = users /\ q.stage = "answered" /\ request' = [request EXCEPT ![r] = q]
    BY <1>1, <2>1 DEF get_users_handler, PanelInv, Request
  <2>3. q.rows \subseteq Rows /\ shown' \subseteq Rows
    BY <1>1, <2>2 DEF Rows, get_users_handler, PanelRests
  <2>4. UNCHANGED <<users, nextUser, doomed, removerVars>>
    BY <1>1 DEF get_users_handler, PanelRests
  <2>5. QED
    BY <2>2, <2>3, <2>4, AnswerKeeps
<1>2. CASE restart_handler(r)
  <2>1. UNCHANGED <<users, nextUser, removerVars>> /\ GoesTo(r, "answered") /\ PanelRests
    BY <1>2 DEF restart_handler, RequestRestart
  <2>2. QED
    BY <2>1, StagesKeep DEF Stage
<1>3. QED
  BY <1>1, <1>2, AddKeeps, BeginKeeps, EndKeeps DEF Serve

\* The panel's end of a request.
LEMMA EventsKeep ==
    ASSUME PanelInv, NEW r \in Slots, Fails(r) \/ BreaksOff(r) \/ Update(r) PROVE PanelInv'
<1> USE DEF vars, dbVars
<1>1. UNCHANGED <<users, nextUser, doomed, removerVars>> /\ shown' \subseteq Rows
  BY DEF Fails, BreaksOff, Update, PanelRests, Rows
<1>2. ASSUME NEW s \in {"failed", "cut"},
             request' = [request EXCEPT ![r].stage = s, ![r].rows = {}]
      PROVE  PanelInv'
  <2>1. PICK q \in Request : q = [request[r] EXCEPT !.stage = s, !.rows = {}]
    BY DEF PanelInv, Request, Stage
  <2>2. q.rows = {} /\ q.stage = s /\ request' = [request EXCEPT ![r] = q]
    BY <1>2, <2>1 DEF PanelInv, Request
  <2>3. QED
    BY <1>1, <2>2, AnswerKeeps
<1>3. CASE Update(r)
  <2>1. PICK q \in {Sent("list"), NoRequest} : request' = [request EXCEPT ![r] = q]
    BY <1>3 DEF Update
  <2>2. q \in Request /\ q.rows = {} /\ q.kind = "list"
    <3>1. NoRequest \in Request /\ NoRequest.rows = {} /\ NoRequest.kind = "list"
      BY DEF NoRequest, Request, Kind, Stage
    <3>2. Sent("list") \in Request /\ Sent("list").rows = {} /\ Sent("list").kind = "list"
      BY DEF Sent, NoRequest, Request, Kind, Stage
    <3>3. QED
      BY <3>1, <3>2
  <2>3. users' \subseteq Rows /\ doomed' \subseteq Rows
    BY <1>1 DEF Rows
  <2>4. RowsAreOne'
    BY <1>1, <2>1, <2>2, <2>3, RowsOfRequest
  <2>5. Asked(q)'
    BY <2>2 DEF Asked
  <2>6. QED
    BY <1>1, <2>1, <2>2, <2>4, <2>5, RequestKeeps
<1>4. QED
  BY <1>2, <1>3 DEF Fails, BreaksOff

\* The server's steps that no request of the panel takes.
LEMMA ServerKeeps ==
    ASSUME PanelInv, Sessions \/ ServerCrashes PROVE PanelInv'
<1> USE DEF dbVars, removerVars, panelVars, RemoverPhase
<1>1. UNCHANGED <<users, nextUser, shown, doomed>>
  BY DEF Sessions, ServerCrashes, Connect, HangUp, Handler, Validate, TakeId, Register,
         Reject, Cancel, Upgrade, UpgradeFails, StartTasks, SelectReturns, Cleanup,
         RecvEnds, SendFails, Exit, Crash, Stop, Boot, PanelRests
<1>2. (rpc' = rpc /\ target' = target) \/ Stop
  BY DEF Sessions, ServerCrashes, Connect, HangUp, Handler, Validate, TakeId, Register,
         Reject, Cancel, Upgrade, UpgradeFails, StartTasks, SelectReturns, Cleanup,
         RecvEnds, SendFails, Exit, Crash, Boot
<1>3. /\ rpc' \in [Removers -> RemoverPhase] /\ target' \in [Removers -> Nat]
      /\ \A b \in Removers :
            rpc'[b] # "idle" => rpc[b] # "idle" /\ target'[b] = target[b]
  BY <1>2 DEF PanelInv, Stop
<1>4. \A s \in Slots : request'[s] = request[s]
         \/ request'[s] = [request[s] EXCEPT !.stage = "failed"]
  BY DEF Sessions, ServerCrashes, PanelInv
<1>5. ASSUME NEW s \in Slots
      PROVE  /\ request'[s] \in Request /\ request'[s].rows = request[s].rows
             /\ request'[s] = request[s] \/ request'[s].stage = "failed"
  <2>1. request[s] \in Request
    BY DEF PanelInv
  <2>2. CASE request'[s] = request[s]
    BY <2>1, <2>2
  <2>3. CASE request'[s] = [request[s] EXCEPT !.stage = "failed"]
    BY <2>1, <2>3 DEF Request, Stage
  <2>4. QED
    BY <1>4, <2>2, <2>3
<1>6. request' \in [Slots -> Request]
  <2>1. request' = [s \in Slots |-> request'[s]]
    BY DEF Sessions, ServerCrashes, PanelInv
  <2>2. QED
    BY <1>5, <2>1
<1>7. Rows' \subseteq Rows
  BY <1>1, <1>5 DEF Rows
<1>8. RowsAreOne'
  BY <1>1, <1>7, RowsStay DEF PanelInv
<1>9. \A s \in Slots : request'[s] = request[s] \/ Asked(request[s])'
  BY <1>5 DEF Asked
<1>10. QED
  BY <1>1, <1>3, <1>6, <1>8, <1>9, AskingKeeps

LEMMA PanelInvariant == PanelSpec => []PanelInv
<1>1. PanelInit => PanelInv
  <2> SUFFICES ASSUME PanelInit PROVE PanelInv
    OBVIOUS
  <2> USE RootAssumption, PanelAssumption, NoneAssumption
      DEF PanelInit, Fresh, Root, User, NoRequest
  <2>1. NoRequest \in Request
    BY DEF Request, Kind, Stage
  <2>2. Rows = {Root, User(1, UserKey), User(2, GoneKey)}
    BY DEF Rows
  <2>3. RowsAreOne
    BY <2>2 DEF RowsAreOne, Row
  <2>4. \A r \in Slots : Asked(request[r])
    BY DEF Asked
  <2>5. QED
    BY <2>1, <2>3, <2>4 DEF PanelInv, RemoverPhase
<1>2. PanelInv /\ [PanelNext]_allVars => PanelInv'
  <2> SUFFICES ASSUME PanelInv, [PanelNext]_allVars PROVE PanelInv'
    OBVIOUS
  <2>1. CASE UNCHANGED allVars
    BY <2>1 DEF allVars, vars, panelVars, dbVars, removerVars, PanelInv, RowsAreOne, Rows,
                Asked, Clicked
  <2>2. QED
    BY <2>1, ButtonsKeep, ServeKeeps, EventsKeep, GoOnKeeps, ServerKeeps DEF PanelNext
<1>3. QED
  BY <1>1, <1>2, PTL DEF PanelSpec

\* Nobody but a user whose own button was clicked is deleted, for any number of
\* requests, lists and administrators (remove_user of the panel and
\* remove_user_handler of the server).
THEOREM OnlyClickedAreRemoved == PanelSpec => OnlyClickedRemoved
<1>1. PanelInv /\ [PanelNext]_allVars =>
         [users \ users' \subseteq {u \in doomed : ~u.admin}]_allVars
  <2> SUFFICES ASSUME PanelInv, PanelNext, NEW u \in users \ users'
               PROVE  u \in doomed /\ ~u.admin
    OBVIOUS
  <2>1. ASSUME NEW a \in Removers, DeleteRow(a) PROVE u \in doomed /\ ~u.admin
    <3>1. u.id = target[a] /\ rpc[a] # "idle"
      BY <2>1 DEF DeleteRow
    <3>2. PICK v \in doomed : v.id = target[a] /\ ~v.admin
      BY <3>1 DEF PanelInv, Clicked
    <3>3. u = v
      BY <3>1, <3>2 DEF PanelInv, RowsAreOne, Rows
    <3>4. QED
      BY <3>2, <3>3
  <2>2. ASSUME NEW r \in Slots, Buttons(r) \/ Fails(r) \/ BreaksOff(r) \/ Update(r)
        PROVE  FALSE
    BY <2>2 DEF Buttons, fetch_users, restart_server, add_user, remove_user, Click, Fails,
                BreaksOff, Update, vars, dbVars
  <2>3. ASSUME NEW r \in Slots, Serve(r) PROVE FALSE
    BY <2>3 DEF Serve, get_users_handler, add_user_handler, AddUser, restart_handler,
                RequestRestart, remove_user_begins, LookUp, remove_user_ends, Revoke,
                StopRemoving, vars, dbVars
  <2>4. ASSUME Sessions \/ ServerCrashes PROVE FALSE
    BY <2>4 DEF Sessions, ServerCrashes, Connect, HangUp, Handler, Validate, TakeId,
                Register, Reject, Cancel, Upgrade, UpgradeFails, StartTasks,
                SelectReturns, Cleanup, RecvEnds, SendFails, Exit, Crash, Stop, Boot,
                dbVars
  <2>5. ASSUME NEW a \in Removers, CheckTarget(a) PROVE FALSE
    BY <2>5 DEF CheckTarget, dbVars
  <2>6. QED
    BY <2>1, <2>2, <2>3, <2>4, <2>5 DEF PanelNext, remove_user_goes_on
<1>2. QED
  BY <1>1, PanelInvariant, PTL DEF PanelSpec, OnlyClickedRemoved

\* What the panel makes the server do is what Next of SessionRegistry allows:
\* the panel asks for no row that was never inserted.
LEMMA PanelAsksRegistry == PanelInv /\ [PanelNext]_allVars => [Next]_vars
<1> SUFFICES ASSUME PanelInv, [PanelNext]_allVars PROVE [Next]_vars
  OBVIOUS
<1> USE DEF allVars
<1>1. ASSUME NEW r \in Slots, Buttons(r) \/ Fails(r) \/ BreaksOff(r) \/ Update(r)
      PROVE  UNCHANGED vars
  BY <1>1 DEF Buttons, fetch_users, restart_server, add_user, remove_user, Click, Fails,
              BreaksOff, Update
<1>2. ASSUME NEW r \in Slots, Serve(r) PROVE [Next]_vars
  <2>1. CASE get_users_handler(r)
    BY <2>1 DEF get_users_handler
  <2>2. CASE add_user_handler(r)
    <3>1. request[r].key \in Keys
      BY <2>2 DEF add_user_handler, At, PanelInv, Asked
    <3>2. QED
      BY <2>2, <3>1 DEF add_user_handler, Next
  <2>3. CASE restart_handler(r)
    BY <2>3 DEF restart_handler, Next
  <2>4. ASSUME NEW a \in Removers, remove_user_begins(r, a) PROVE [Next]_vars
    <3>1. Clicked(request[r].id)
      BY <2>4 DEF remove_user_begins, At, PanelInv, Asked
    <3>2. request[r].id \in 0 .. nextUser - 1
      BY <3>1 DEF Clicked, PanelInv, RowsAreOne, Rows, Row
    <3>3. QED
      BY <2>4, <3>2 DEF remove_user_begins, Remover, Next
  <2>5. ASSUME NEW a \in Removers, remove_user_ends(r, a) PROVE [Next]_vars
    BY <2>5 DEF remove_user_ends, Remover, Next
  <2>6. QED
    BY <1>2, <2>1, <2>2, <2>3, <2>4, <2>5 DEF Serve
<1>3. ASSUME NEW a \in Removers, remove_user_goes_on(a) PROVE Next
  BY <1>3 DEF remove_user_goes_on, Remover, Next
<1>4. CASE Sessions \/ ServerCrashes
  BY <1>4, PanelAssumption DEF Sessions, ServerCrashes, Client, Next
<1>5. QED
  BY <1>1, <1>2, <1>3, <1>4 DEF PanelNext

\* The invariant of the registry holds whatever the panel does to it, although
\* the panel starts with other rows and its requests are cut by a crash.
THEOREM PanelKeepsRegistry == PanelSpec => []RegistryInv
<1>1. PanelInit => TypeOK /\ RegistryFacts
  <2> SUFFICES ASSUME PanelInit PROVE TypeOK /\ RegistryFacts
    OBVIOUS
  <2> USE RootAssumption, PanelAssumption, NoneAssumption DEF PanelInit, Fresh
  <2>1. users \subseteq Row
    BY DEF Root, User, Row
  <2>2. TypeOK
    BY <2>1 DEF TypeOK, Phase, RemoverPhase
  <2>3. RegistryFacts
    BY DEF RegistryFacts, IdsBelowCounter, IdsUnique, HandlersIdentified, EvictedHeld,
           HoldersInMap, EntriesHaveHolder, Holds, Pending, Open, Holding
  <2>4. QED
    BY <2>2, <2>3
<1>2. TypeOK /\ RegistryFacts => RegistryInv
  BY DEF RegistryFacts, RegistryInv
<1>3. QED
  BY <1>1, <1>2, PanelInvariant, PanelAsksRegistry, TypeStep, FactsStep, PTL DEF PanelSpec
=============================================================================
