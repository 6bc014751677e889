---------------------- MODULE ModManagerStore_proofs ----------------------
(***************************************************************************)
(* Proofs about ModManagerStore, for any mods, values and numbers of edits. *)
(***************************************************************************)
EXTENDS ModManagerStore, TLAPS

(* Every action keeps the types.                                            *)
LEMMA TypeStep ==
  TypeOK /\ PlacesAgree /\ [Next]_vars => TypeOK'
<1> SUFFICES ASSUME TypeOK, PlacesAgree, [Next]_vars
             PROVE  TypeOK'
  OBVIOUS
<1>1. CASE CopyStore
  BY <1>1, ValuesAssumption DEF CopyStore, TypeOK, storeVars, guiVars, luaVars, gameVars
<1>2. CASE PressButton
  <2> DEFINE e == [id |-> asked + 1, mod |-> None, value |-> None]
  <2>1. e \in Edit
    BY <1>2 DEF PressButton, Edit, TypeOK, PlacesAgree
  <2>2. pending' = Append(pending, e) /\ asked' = asked + 1
    BY <1>2 DEF PressButton, Enqueue
  <2> HIDE DEF e
  <2>3. pending' \in Seq(Edit) /\ asked' \in Nat
    BY <2>1, <2>2 DEF TypeOK
  <2> QED BY <1>2, <2>3 DEF PressButton, Enqueue, TypeOK, storeVars, guiVars, luaVars, gameVars
<1>3. CASE LeaveRow
  BY <1>3, ValuesAssumption DEF LeaveRow, TypeOK, storeVars, guiVars, luaVars, gameVars
<1>4. CASE LetGo
  BY <1>4, ValuesAssumption DEF LetGo, TypeOK, storeVars, guiVars, luaVars, gameVars
<1>5. CASE Submit
  <2> DEFINE e == [id |-> asked + 1, mod |-> row, value |-> uiEdits[row]]
  <2>1. e \in Edit
    BY <1>5 DEF Submit, Edit, TypeOK, PlacesAgree
  <2>2. pending' = Append(pending, e) /\ asked' = asked + 1
    BY <1>5 DEF Submit, Enqueue
  <2> HIDE DEF e
  <2>3. pending' \in Seq(Edit) /\ asked' \in Nat
    BY <2>1, <2>2 DEF TypeOK
  <2> QED BY <1>5, <2>3 DEF Submit, Enqueue, TypeOK, storeVars, guiVars, luaVars, gameVars
<1>6. CASE FrameOver
  BY <1>6, ValuesAssumption DEF FrameOver, TypeOK, storeVars, guiVars, luaVars, gameVars
<1>7. CASE PushNativeValue
  BY <1>7, ValuesAssumption DEF PushNativeValue, Mirror, TypeOK, storeVars, guiVars, luaVars,
      gameVars
<1>8. CASE RegisterDescriptor
  BY <1>8, ValuesAssumption DEF RegisterDescriptor, Registers, TypeOK, storeVars, guiVars,
      luaVars, gameVars
<1>9. CASE ClearWidgets
  BY <1>9, ValuesAssumption DEF ClearWidgets, WidgetsHeld, Nothing, TypeOK, storeVars, guiVars,
      luaVars, gameVars
<1>10. CASE TakeBatch
  BY <1>10, ValuesAssumption DEF TakeBatch, TypeOK, storeVars, guiVars, luaVars, gameVars
<1>11. CASE RunChunk
  <2> DEFINE edit == Head(batch)
  <2>1. edit \in Edit
    BY <1>11 DEF RunChunk, TypeOK, PlacesAgree
  <2> HIDE DEF edit
  <2>2. Hits(edit) => (edit.value \in Values /\ target \in Mods)
    BY <2>1 DEF Edit, Hits, TypeOK
  <2>3. CASE Hits(edit)
    <3>1. /\ owned' = [owned EXCEPT ![target] = Coerce(edit.value)] /\ gamePc' = "push"
          /\ crossed' = IF life[target] = "main" THEN crossed \cup {target} ELSE crossed
      BY <1>11, <2>3 DEF RunChunk, edit
    <3>2. Coerce(edit.value) \in Values
      BY <2>2, <2>3, ValuesAssumption DEF Coerce
    <3>3. owned' \in [Mods -> Values \cup {None}] /\ crossed' \subseteq Mods
      BY <2>2, <2>3, <3>1, <3>2 DEF TypeOK
    <3> QED BY <1>11, <3>1, <3>3 DEF RunChunk, TypeOK, storeVars, guiVars, luaVars, gameVars
  <2>4. CASE ~Hits(edit)
    <3>1. UNCHANGED <<owned, crossed>> /\ gamePc' = "edit"
      BY <1>11, <2>4 DEF RunChunk, edit
    <3> QED BY <1>11, <3>1 DEF RunChunk, TypeOK, storeVars, guiVars, luaVars, gameVars
  <2> QED BY <2>3, <2>4
<1>12. CASE PushEcho
  BY <1>12, ValuesAssumption DEF PushEcho, Mirror, TypeOK, storeVars, guiVars, luaVars, gameVars
<1>13. CASE EditOver
  <2>1. batch' \in Seq(Edit) /\ served' \in Nat
    BY <1>13 DEF EditOver, TypeOK, PlacesAgree
  <2> QED BY <1>13, <2>1 DEF EditOver, TypeOK, storeVars, guiVars, luaVars, gameVars
<1>14. ASSUME NEW m \in Mods, EnterRow(m) PROVE TypeOK'
  BY <1>14, ValuesAssumption DEF EnterRow, TypeOK, storeVars, guiVars, luaVars, gameVars
<1>15. ASSUME NEW v \in Values, Drag(v) PROVE TypeOK'
  BY <1>15, ValuesAssumption DEF Drag, TypeOK, storeVars, guiVars, luaVars, gameVars
<1>16. ASSUME NEW v \in Values, Choose(v) PROVE TypeOK'
  BY <1>16, ValuesAssumption DEF Choose, TypeOK, storeVars, guiVars, luaVars, gameVars
<1>17. ASSUME NEW m \in Mods, NEW v \in Values, ChangeValue(m, v) PROVE TypeOK'
  BY <1>17, ValuesAssumption DEF ChangeValue, LuaMoves, TypeOK, storeVars, guiVars, luaVars,
      gameVars
<1>18. ASSUME NEW m \in Mods, NEW v \in Values \cup {None}, StartMod(m, v) PROVE TypeOK'
  BY <1>18, ValuesAssumption DEF StartMod, LuaMoves, TypeOK, storeVars, guiVars, luaVars, gameVars
<1>19. ASSUME NEW m \in Mods, RegisterAgain(m) PROVE TypeOK'
  BY <1>19, ValuesAssumption DEF RegisterAgain, LuaMoves, TypeOK, storeVars, guiVars, luaVars,
      gameVars
<1>20. ASSUME NEW m \in Mods, CloseMod(m) PROVE TypeOK'
  BY <1>20, ValuesAssumption DEF CloseMod, LuaMoves, TypeOK, storeVars, guiVars, luaVars, gameVars
<1>21. ASSUME NEW m \in Mods, DeleteMod(m) PROVE TypeOK'
  BY <1>21, ValuesAssumption DEF DeleteMod, TypeOK, storeVars, guiVars, luaVars, gameVars
<1>22. ASSUME NEW m \in Mods, SkipMod(m) PROVE TypeOK'
  BY <1>22, ValuesAssumption DEF SkipMod, TypeOK, storeVars, guiVars, luaVars, gameVars
<1>23. ASSUME NEW m \in Mods, EnterMod(m) PROVE TypeOK'
  BY <1>23, ValuesAssumption DEF EnterMod, TypeOK, storeVars, guiVars, luaVars, gameVars
<1>24. CASE UNCHANGED vars
  BY <1>24, ValuesAssumption DEF vars, TypeOK, storeVars, guiVars, luaVars, gameVars
<1> QED
  BY <1>1, <1>2, <1>3, <1>4, <1>5, <1>6, <1>7, <1>8, <1>9, <1>10, <1>11, <1>12,
     <1>13, <1>14, <1>15, <1>16, <1>17, <1>18, <1>19, <1>20, <1>21, <1>22, <1>23,
     <1>24
     DEF Next, GuiStep, LuaStep, LuaBegins, GameStep

(* Every thread is where the shared state says it is.                       *)
LEMMA PlacesStep ==
  TypeOK /\ PlacesAgree /\ [Next]_vars => PlacesAgree'
<1> SUFFICES ASSUME TypeOK, PlacesAgree, [Next]_vars
             PROVE  PlacesAgree'
  OBVIOUS
<1>1. CASE CopyStore
  BY <1>1, ValuesAssumption DEF CopyStore, TypeOK, PlacesAgree, ActionsHeldByLua,
      ActionsHeldByGame, storeVars, guiVars, luaVars, gameVars
<1>2. CASE PressButton
  BY <1>2, ValuesAssumption DEF PressButton, Enqueue, TypeOK, PlacesAgree, ActionsHeldByLua,
      ActionsHeldByGame, storeVars, guiVars, luaVars, gameVars
<1>3. CASE LeaveRow
  BY <1>3, ValuesAssumption DEF LeaveRow, TypeOK, PlacesAgree, ActionsHeldByLua,
      ActionsHeldByGame, storeVars, guiVars, luaVars, gameVars
<1>4. CASE LetGo
  BY <1>4, ValuesAssumption DEF LetGo, TypeOK, PlacesAgree, ActionsHeldByLua,
      ActionsHeldByGame, storeVars, guiVars, luaVars, gameVars
<1>5. CASE Submit
  BY <1>5, ValuesAssumption DEF Submit, Enqueue, TypeOK, PlacesAgree, ActionsHeldByLua,
      ActionsHeldByGame, storeVars, guiVars, luaVars, gameVars
<1>6. CASE FrameOver
  BY <1>6, ValuesAssumption DEF FrameOver, TypeOK, PlacesAgree, ActionsHeldByLua,
      ActionsHeldByGame, storeVars, guiVars, luaVars, gameVars
<1>7. CASE PushNativeValue
  <2>1. \A m \in Mods : (values'[m] # None) <=> (values[m] # None)
    BY <1>7 DEF PushNativeValue, Mirror, TypeOK, PlacesAgree
  <2> QED BY <1>7, <2>1 DEF PushNativeValue, TypeOK, PlacesAgree, ActionsHeldByLua,
      ActionsHeldByGame, storeVars, guiVars, luaVars, gameVars
<1>8. CASE RegisterDescriptor
  BY <1>8, ValuesAssumption DEF RegisterDescriptor, Registers, TypeOK, PlacesAgree,
      ActionsHeldByLua, ActionsHeldByGame, storeVars, guiVars, luaVars, gameVars
<1>9. CASE ClearWidgets
  BY <1>9, ValuesAssumption DEF ClearWidgets, WidgetsHeld, Nothing, TypeOK, PlacesAgree,
      ActionsHeldByLua, ActionsHeldByGame, storeVars, guiVars, luaVars, gameVars
<1>10. CASE TakeBatch
  BY <1>10, ValuesAssumption DEF TakeBatch, TypeOK, PlacesAgree, ActionsHeldByLua,
      ActionsHeldByGame, storeVars, guiVars, luaVars, gameVars
<1>11. CASE RunChunk
  <2> DEFINE edit == Head(batch)
  <2>1. CASE Hits(edit)
    <3>1. /\ owned' = [owned EXCEPT ![target] = Coerce(edit.value)] /\ gamePc' = "push"
          /\ crossed' = IF life[target] = "main" THEN crossed \cup {target} ELSE crossed
      BY <1>11, <2>1 DEF RunChunk
    <3>2. edit.value \in Values /\ target \in known
      <4>1. edit \in Edit
        BY <1>11 DEF RunChunk, TypeOK, PlacesAgree
      <4> QED BY <4>1, <2>1 DEF Edit, Hits, TypeOK
    <3>3. Coerce(edit.value) # None
      BY <3>2, ValuesAssumption DEF Coerce
    <3> HIDE DEF edit
    <3>4. owned'[target] # None /\ \A m \in Mods \ {target} : owned'[m] = owned[m]
      BY <3>1, <3>2, <3>3 DEF TypeOK
    <3>5. (luaPc # "idle" /\ luaMod = target) => target \in crossed'
      BY <1>11, <3>1, <3>2 DEF RunChunk, PlacesAgree, ActionsHeldByLua, TypeOK
    <3> QED BY <1>11, <3>1, <3>2, <3>4, <3>5 DEF RunChunk, TypeOK, PlacesAgree,
      ActionsHeldByLua, ActionsHeldByGame, storeVars, guiVars, luaVars, gameVars
  <2>2. CASE ~Hits(edit)
    <3>1. UNCHANGED <<owned, crossed>> /\ gamePc' = "edit"
      BY <1>11, <2>2 DEF RunChunk
    <3> QED BY <1>11, <3>1 DEF RunChunk, TypeOK, PlacesAgree, ActionsHeldByLua,
      ActionsHeldByGame, storeVars, guiVars, luaVars, gameVars
  <2> QED BY <2>1, <2>2
<1>12. CASE PushEcho
  <2>1. \A m \in Mods : (values'[m] # None) <=> (values[m] # None)
    BY <1>12 DEF PushEcho, Mirror, TypeOK, PlacesAgree
  <2> QED BY <1>12, <2>1 DEF PushEcho, TypeOK, PlacesAgree, ActionsHeldByLua,
      ActionsHeldByGame, storeVars, guiVars, luaVars, gameVars
<1>13. CASE EditOver
  <2>1. batch # <<>> /\ Len(batch) \in Nat /\ batch \in Seq(Edit)
    BY <1>13 DEF EditOver, PlacesAgree, TypeOK
  <2>2. /\ batch' = Tail(batch) /\ gamePc = "edit" /\ gamePc' \in {"idle", "edit"}
        /\ (gamePc' = "idle" <=> Len(batch) = 1)
    BY <1>13 DEF EditOver
  <2>3. batch' # <<>> <=> Len(batch) # 1
    <3>1. batch' \in Seq(Edit) /\ Len(batch') = Len(batch) - 1
      BY <2>1, <2>2
    <3>2. batch' = <<>> <=> Len(batch') = 0
      BY <3>1
    <3> QED BY <2>1, <3>1, <3>2
  <2> QED BY <1>13, <2>1, <2>2, <2>3 DEF EditOver, PlacesAgree, ActionsHeldByLua, storeVars,
      guiVars, luaVars, gameVars
<1>14. ASSUME NEW m \in Mods, EnterRow(m) PROVE PlacesAgree'
  BY <1>14, ValuesAssumption DEF EnterRow, TypeOK, PlacesAgree, ActionsHeldByLua,
      ActionsHeldByGame, storeVars, guiVars, luaVars, gameVars
<1>15. ASSUME NEW v \in Values, Drag(v) PROVE PlacesAgree'
  BY <1>15, ValuesAssumption DEF Drag, TypeOK, PlacesAgree, ActionsHeldByLua,
      ActionsHeldByGame, storeVars, guiVars, luaVars, gameVars
<1>16. ASSUME NEW v \in Values, Choose(v) PROVE PlacesAgree'
  BY <1>16, ValuesAssumption DEF Choose, TypeOK, PlacesAgree, ActionsHeldByLua,
      ActionsHeldByGame, storeVars, guiVars, luaVars, gameVars
<1>17. ASSUME NEW m \in Mods, NEW v \in Values, ChangeValue(m, v) PROVE PlacesAgree'
  BY <1>17, ValuesAssumption DEF ChangeValue, LuaMoves, TypeOK, PlacesAgree, ActionsHeldByLua,
      ActionsHeldByGame, storeVars, guiVars, luaVars, gameVars
<1>18. ASSUME NEW m \in Mods, NEW v \in Values \cup {None}, StartMod(m, v) PROVE PlacesAgree'
  BY <1>18, ValuesAssumption DEF StartMod, LuaMoves, TypeOK, PlacesAgree, ActionsHeldByLua,
      ActionsHeldByGame, storeVars, guiVars, luaVars, gameVars
<1>19. ASSUME NEW m \in Mods, RegisterAgain(m) PROVE PlacesAgree'
  BY <1>19, ValuesAssumption DEF RegisterAgain, LuaMoves, TypeOK, PlacesAgree,
      ActionsHeldByLua, ActionsHeldByGame, storeVars, guiVars, luaVars, gameVars
<1>20. ASSUME NEW m \in Mods, CloseMod(m) PROVE PlacesAgree'
  BY <1>20, ValuesAssumption DEF CloseMod, LuaMoves, TypeOK, PlacesAgree, ActionsHeldByLua,
      ActionsHeldByGame, storeVars, guiVars, luaVars, gameVars
<1>21. ASSUME NEW m \in Mods, DeleteMod(m) PROVE PlacesAgree'
  BY <1>21, ValuesAssumption DEF DeleteMod, TypeOK, PlacesAgree, ActionsHeldByLua,
      ActionsHeldByGame, storeVars, guiVars, luaVars, gameVars
<1>22. ASSUME NEW m \in Mods, SkipMod(m) PROVE PlacesAgree'
  BY <1>22, ValuesAssumption DEF SkipMod, TypeOK, PlacesAgree, ActionsHeldByLua,
      ActionsHeldByGame, storeVars, guiVars, luaVars, gameVars
<1>23. ASSUME NEW m \in Mods, EnterMod(m) PROVE PlacesAgree'
  BY <1>23, ValuesAssumption DEF EnterMod, TypeOK, PlacesAgree, ActionsHeldByLua,
      ActionsHeldByGame, storeVars, guiVars, luaVars, gameVars
<1>24. CASE UNCHANGED vars
  BY <1>24, ValuesAssumption DEF vars, TypeOK, PlacesAgree, ActionsHeldByLua,
      ActionsHeldByGame, storeVars, guiVars, luaVars, gameVars
<1> QED
  BY <1>1, <1>2, <1>3, <1>4, <1>5, <1>6, <1>7, <1>8, <1>9, <1>10, <1>11, <1>12,
     <1>13, <1>14, <1>15, <1>16, <1>17, <1>18, <1>19, <1>20, <1>21, <1>22, <1>23,
     <1>24
     DEF Next, GuiStep, LuaStep, LuaBegins, GameStep

(* No edit is lost, doubled or overtaken.                                   *)
LEMMA OrderStep ==
  TypeOK /\ PlacesAgree /\ EditsInOrder /\ [Next]_vars => EditsInOrder'
<1> SUFFICES ASSUME TypeOK, PlacesAgree, EditsInOrder, [Next]_vars
             PROVE  EditsInOrder'
  OBVIOUS
<1>1. CASE CopyStore
  BY <1>1 DEF CopyStore, EditsInOrder, storeVars, guiVars, luaVars, gameVars
<1>2. CASE PressButton
  <2> DEFINE e == [id |-> asked + 1, mod |-> None, value |-> None]
  <2>1. e.id = asked + 1 /\ pending' = Append(pending, e) /\ asked' = asked + 1
    BY <1>2 DEF PressButton, Enqueue
  <2> HIDE DEF e
  <2>2. /\ Len(pending) \in Nat /\ Len(pending') = Len(pending) + 1
        /\ DOMAIN pending = 1..Len(pending) /\ DOMAIN pending' = 1..(Len(pending) + 1)
        /\ \A i \in DOMAIN pending : pending'[i] = pending[i]
        /\ pending'[Len(pending) + 1] = e
    BY <2>1 DEF TypeOK
  <2>3. UNCHANGED <<batch, served>> /\ served \in Nat /\ Len(batch) \in Nat
    BY <1>2 DEF PressButton, gameVars, TypeOK
  <2>4. served + Len(batch) + Len(pending) = asked
    BY DEF EditsInOrder
  <2>5. \A i \in DOMAIN pending' : pending'[i].id = served + Len(batch) + i
    <3> SUFFICES ASSUME NEW i \in DOMAIN pending' PROVE pending'[i].id = served + Len(batch) + i
      OBVIOUS
    <3>1. CASE i \in DOMAIN pending
      BY <3>1, <2>2 DEF EditsInOrder
    <3>2. CASE i = Len(pending) + 1
      BY <3>2, <2>1, <2>2, <2>3, <2>4
    <3> QED BY <3>1, <3>2, <2>2
  <2>6. served' + Len(batch') + Len(pending') = asked'
    BY <2>1, <2>2, <2>3, <2>4
  <2> QED BY <2>3, <2>5, <2>6 DEF EditsInOrder
<1>3. CASE LeaveRow
  BY <1>3 DEF LeaveRow, EditsInOrder, storeVars, guiVars, luaVars, gameVars
<1>4. CASE LetGo
  BY <1>4 DEF LetGo, EditsInOrder, storeVars, guiVars, luaVars, gameVars
<1>5. CASE Submit
  <2> DEFINE e == [id |-> asked + 1, mod |-> row, value |-> uiEdits[row]]
  <2>1. e.id = asked + 1 /\ pending' = Append(pending, e) /\ asked' = asked + 1
    BY <1>5 DEF Submit, Enqueue
  <2> HIDE DEF e
  <2>2. /\ Len(pending) \in Nat /\ Len(pending') = Len(pending) + 1
        /\ DOMAIN pending = 1..Len(pending) /\ DOMAIN pending' = 1..(Len(pending) + 1)
        /\ \A i \in DOMAIN pending : pending'[i] = pending[i]
        /\ pending'[Len(pending) + 1] = e
    BY <2>1 DEF TypeOK
  <2>3. UNCHANGED <<batch, served>> /\ served \in Nat /\ Len(batch) \in Nat
    BY <1>5 DEF Submit, gameVars, TypeOK
  <2>4. served + Len(batch) + Len(pending) = asked
    BY DEF EditsInOrder
  <2>5. \A i \in DOMAIN pending' : pending'[i].id = served + Len(batch) + i
    <3> SUFFICES ASSUME NEW i \in DOMAIN pending' PROVE pending'[i].id = served + Len(batch) + i
      OBVIOUS
    <3>1. CASE i \in DOMAIN pending
      BY <3>1, <2>2 DEF EditsInOrder
    <3>2. CASE i = Len(pending) + 1
      BY <3>2, <2>1, <2>2, <2>3, <2>4
    <3> QED BY <3>1, <3>2, <2>2
  <2>6. served' + Len(batch') + Len(pending') = asked'
    BY <2>1, <2>2, <2>3, <2>4
  <2> QED BY <2>3, <2>5, <2>6 DEF EditsInOrder
<1>6. CASE FrameOver
  BY <1>6 DEF FrameOver, EditsInOrder, storeVars, guiVars, luaVars, gameVars
<1>7. CASE PushNativeValue
  BY <1>7 DEF PushNativeValue, Mirror, EditsInOrder, storeVars, guiVars, luaVars, gameVars
<1>8. CASE RegisterDescriptor
  BY <1>8 DEF RegisterDescriptor, Registers, EditsInOrder, storeVars, guiVars, luaVars, gameVars
<1>9. CASE ClearWidgets
  BY <1>9 DEF ClearWidgets, WidgetsHeld, Nothing, EditsInOrder, storeVars, guiVars, luaVars,
      gameVars
<1>10. CASE TakeBatch
  <2>1. /\ batch' = pending /\ pending' = <<>> /\ batch = <<>>
        /\ UNCHANGED <<served, asked>> /\ served \in Nat /\ Len(pending) \in Nat
    BY <1>10 DEF TakeBatch, TypeOK, PlacesAgree
  <2>2. Len(batch) = 0 /\ Len(pending') = 0 /\ DOMAIN pending' = {}
    BY <2>1
  <2>3. /\ served + Len(pending) = asked
        /\ \A i \in DOMAIN pending : pending[i].id = served + i
    BY <2>1, <2>2 DEF EditsInOrder
  <2> QED BY <2>1, <2>2, <2>3 DEF EditsInOrder
<1>11. CASE RunChunk
  BY <1>11 DEF RunChunk, Coerce, Hits, EditsInOrder, storeVars, guiVars, luaVars, gameVars
<1>12. CASE PushEcho
  BY <1>12 DEF PushEcho, Mirror, EditsInOrder, storeVars, guiVars, luaVars, gameVars
<1>13. CASE EditOver
  <2>1. /\ batch' = Tail(batch) /\ served' = served + 1 /\ batch # <<>> /\ batch \in Seq(Edit)
        /\ UNCHANGED <<pending, asked>>
    BY <1>13 DEF EditOver, storeVars, TypeOK, PlacesAgree
  <2>2. /\ Len(batch) \in Nat \ {0} /\ Len(batch') = Len(batch) - 1
        /\ \A i \in DOMAIN batch' : i \in Nat /\ i + 1 \in DOMAIN batch /\ batch'[i] = batch[i + 1]
    BY <2>1
  <2>3. /\ served \in Nat /\ asked \in Nat /\ Len(pending) \in Nat
        /\ \A i \in DOMAIN pending : i \in Nat
        /\ served + Len(batch) + Len(pending) = asked
    BY DEF TypeOK, EditsInOrder
  <2>4. served' + Len(batch') + Len(pending') = asked'
    BY <2>1, <2>2, <2>3
  <2>5. served' + Len(batch') = served + Len(batch)
    BY <2>1, <2>2, <2>3
  <2>6. \A i \in DOMAIN pending' : pending'[i].id = served' + Len(batch') + i
    BY <2>1, <2>5 DEF EditsInOrder
  <2>7. \A i \in DOMAIN batch' : batch'[i].id = served' + i
    <3> SUFFICES ASSUME NEW i \in DOMAIN batch' PROVE batch'[i].id = served' + i
      OBVIOUS
    <3>1. batch'[i].id = served + (i + 1)
      BY <2>2 DEF EditsInOrder
    <3>2. served + (i + 1) = (served + 1) + i
      BY <2>2, <2>3
    <3> QED BY <3>1, <3>2, <2>1
  <2> QED BY <2>4, <2>6, <2>7 DEF EditsInOrder
<1>14. ASSUME NEW m \in Mods, EnterRow(m) PROVE EditsInOrder'
  BY <1>14 DEF EnterRow, EditsInOrder, storeVars, guiVars, luaVars, gameVars
<1>15. ASSUME NEW v \in Values, Drag(v) PROVE EditsInOrder'
  BY <1>15 DEF Drag, EditsInOrder, storeVars, guiVars, luaVars, gameVars
<1>16. ASSUME NEW v \in Values, Choose(v) PROVE EditsInOrder'
  BY <1>16 DEF Choose, EditsInOrder, storeVars, guiVars, luaVars, gameVars
<1>17. ASSUME NEW m \in Mods, NEW v \in Values, ChangeValue(m, v) PROVE EditsInOrder'
  BY <1>17 DEF ChangeValue, LuaMoves, EditsInOrder, storeVars, guiVars, luaVars, gameVars
<1>18. ASSUME NEW m \in Mods, NEW v \in Values \cup {None}, StartMod(m, v) PROVE EditsInOrder'
  BY <1>18 DEF StartMod, LuaMoves, EditsInOrder, storeVars, guiVars, luaVars, gameVars
<1>19. ASSUME NEW m \in Mods, RegisterAgain(m) PROVE EditsInOrder'
  BY <1>19 DEF RegisterAgain, LuaMoves, EditsInOrder, storeVars, guiVars, luaVars, gameVars
<1>20. ASSUME NEW m \in Mods, CloseMod(m) PROVE EditsInOrder'
  BY <1>20 DEF CloseMod, LuaMoves, EditsInOrder, storeVars, guiVars, luaVars, gameVars
<1>21. ASSUME NEW m \in Mods, DeleteMod(m) PROVE EditsInOrder'
  BY <1>21 DEF DeleteMod, EditsInOrder, storeVars, guiVars, luaVars, gameVars
<1>22. ASSUME NEW m \in Mods, SkipMod(m) PROVE EditsInOrder'
  BY <1>22 DEF SkipMod, EditsInOrder, storeVars, guiVars, luaVars, gameVars
<1>23. ASSUME NEW m \in Mods, EnterMod(m) PROVE EditsInOrder'
  BY <1>23 DEF EnterMod, EditsInOrder, storeVars, guiVars, luaVars, gameVars
<1>24. CASE UNCHANGED vars
  BY <1>24 DEF vars, EditsInOrder, storeVars, guiVars, luaVars, gameVars
<1> QED
  BY <1>1, <1>2, <1>3, <1>4, <1>5, <1>6, <1>7, <1>8, <1>9, <1>10, <1>11, <1>12,
     <1>13, <1>14, <1>15, <1>16, <1>17, <1>18, <1>19, <1>20, <1>21, <1>22, <1>23,
     <1>24
     DEF Next, GuiStep, LuaStep, LuaBegins, GameStep

(* A step that makes Lua's value differ from the mirror's is followed by a  *)
(* push or registration of the same mod, during which no other thread may   *)
(* change Lua's value.                                                      *)
LEMMA MirrorStep ==
  TypeOK /\ PlacesAgree /\ MirrorAgrees /\ [Next]_vars => MirrorAgrees'
<1> SUFFICES ASSUME TypeOK, PlacesAgree, MirrorAgrees, [Next]_vars
             PROVE  MirrorAgrees'
  OBVIOUS
<1>1. CASE CopyStore
  BY <1>1, ValuesAssumption DEF CopyStore, TypeOK, PlacesAgree, MirrorAgrees, InTransit,
      ActionsHeldByLua, ActionsHeldByGame, storeVars, guiVars, luaVars, gameVars
<1>2. CASE PressButton
  BY <1>2, ValuesAssumption DEF PressButton, Enqueue, TypeOK, PlacesAgree, MirrorAgrees,
      InTransit, ActionsHeldByLua, ActionsHeldByGame, storeVars, guiVars, luaVars, gameVars
<1>3. CASE LeaveRow
  BY <1>3, ValuesAssumption DEF LeaveRow, TypeOK, PlacesAgree, MirrorAgrees, InTransit,
      ActionsHeldByLua, ActionsHeldByGame, storeVars, guiVars, luaVars, gameVars
<1>4. CASE LetGo
  BY <1>4, ValuesAssumption DEF LetGo, TypeOK, PlacesAgree, MirrorAgrees, InTransit,
      ActionsHeldByLua, ActionsHeldByGame, storeVars, guiVars, luaVars, gameVars
<1>5. CASE Submit
  BY <1>5, ValuesAssumption DEF Submit, Enqueue, TypeOK, PlacesAgree, MirrorAgrees, InTransit,
      ActionsHeldByLua, ActionsHeldByGame, storeVars, guiVars, luaVars, gameVars
<1>6. CASE FrameOver
  BY <1>6, ValuesAssumption DEF FrameOver, TypeOK, PlacesAgree, MirrorAgrees, InTransit,
      ActionsHeldByLua, ActionsHeldByGame, storeVars, guiVars, luaVars, gameVars
<1>7. CASE PushNativeValue
  BY <1>7, ValuesAssumption DEF PushNativeValue, Mirror, TypeOK, PlacesAgree, MirrorAgrees,
      InTransit, ActionsHeldByLua, ActionsHeldByGame, storeVars, guiVars, luaVars, gameVars
<1>8. CASE RegisterDescriptor
  BY <1>8, ValuesAssumption DEF RegisterDescriptor, Registers, TypeOK, PlacesAgree,
      MirrorAgrees, InTransit, ActionsHeldByLua, ActionsHeldByGame, storeVars, guiVars,
      luaVars, gameVars
<1>9. CASE ClearWidgets
  BY <1>9, ValuesAssumption DEF ClearWidgets, WidgetsHeld, Nothing, TypeOK, PlacesAgree,
      MirrorAgrees, InTransit, ActionsHeldByLua, ActionsHeldByGame, storeVars, guiVars,
      luaVars, gameVars
<1>10. CASE TakeBatch
  BY <1>10, ValuesAssumption DEF TakeBatch, TypeOK, PlacesAgree, MirrorAgrees, InTransit,
      ActionsHeldByLua, ActionsHeldByGame, storeVars, guiVars, luaVars, gameVars
<1>11. CASE RunChunk
  BY <1>11, ValuesAssumption DEF RunChunk, Coerce, Hits, TypeOK, PlacesAgree, MirrorAgrees,
      InTransit, ActionsHeldByLua, ActionsHeldByGame, storeVars, guiVars, luaVars, gameVars
<1>12. CASE PushEcho
  BY <1>12, ValuesAssumption DEF PushEcho, Mirror, TypeOK, PlacesAgree, MirrorAgrees,
      InTransit, ActionsHeldByLua, ActionsHeldByGame, storeVars, guiVars, luaVars, gameVars
<1>13. CASE EditOver
  BY <1>13, ValuesAssumption DEF EditOver, TypeOK, PlacesAgree, MirrorAgrees, InTransit,
      ActionsHeldByLua, ActionsHeldByGame, storeVars, guiVars, luaVars, gameVars
<1>14. ASSUME NEW m \in Mods, EnterRow(m) PROVE MirrorAgrees'
  BY <1>14, ValuesAssumption DEF EnterRow, TypeOK, PlacesAgree, MirrorAgrees, InTransit,
      ActionsHeldByLua, ActionsHeldByGame, storeVars, guiVars, luaVars, gameVars
<1>15. ASSUME NEW v \in Values, Drag(v) PROVE MirrorAgrees'
  BY <1>15, ValuesAssumption DEF Drag, TypeOK, PlacesAgree, MirrorAgrees, InTransit,
      ActionsHeldByLua, ActionsHeldByGame, storeVars, guiVars, luaVars, gameVars
<1>16. ASSUME NEW v \in Values, Choose(v) PROVE MirrorAgrees'
  BY <1>16, ValuesAssumption DEF Choose, TypeOK, PlacesAgree, MirrorAgrees, InTransit,
      ActionsHeldByLua, ActionsHeldByGame, storeVars, guiVars, luaVars, gameVars
<1>17. ASSUME NEW m \in Mods, NEW v \in Values, ChangeValue(m, v) PROVE MirrorAgrees'
  BY <1>17, ValuesAssumption DEF ChangeValue, LuaMoves, TypeOK, PlacesAgree, MirrorAgrees,
      InTransit, ActionsHeldByLua, ActionsHeldByGame, storeVars, guiVars, luaVars, gameVars
<1>18. ASSUME NEW m \in Mods, NEW v \in Values \cup {None}, StartMod(m, v) PROVE MirrorAgrees'
  BY <1>18, ValuesAssumption DEF StartMod, LuaMoves, TypeOK, PlacesAgree, MirrorAgrees,
      InTransit, ActionsHeldByLua, ActionsHeldByGame, storeVars, guiVars, luaVars, gameVars
<1>19. ASSUME NEW m \in Mods, RegisterAgain(m) PROVE MirrorAgrees'
  BY <1>19, ValuesAssumption DEF RegisterAgain, LuaMoves, TypeOK, PlacesAgree, MirrorAgrees,
      InTransit, ActionsHeldByLua, ActionsHeldByGame, storeVars, guiVars, luaVars, gameVars
<1>20. ASSUME NEW m \in Mods, CloseMod(m) PROVE MirrorAgrees'
  BY <1>20, ValuesAssumption DEF CloseMod, LuaMoves, TypeOK, PlacesAgree, MirrorAgrees,
      InTransit, ActionsHeldByLua, ActionsHeldByGame, storeVars, guiVars, luaVars, gameVars
<1>21. ASSUME NEW m \in Mods, DeleteMod(m) PROVE MirrorAgrees'
  BY <1>21, ValuesAssumption DEF DeleteMod, TypeOK, PlacesAgree, MirrorAgrees, InTransit,
      ActionsHeldByLua, ActionsHeldByGame, storeVars, guiVars, luaVars, gameVars
<1>22. ASSUME NEW m \in Mods, SkipMod(m) PROVE MirrorAgrees'
  BY <1>22, ValuesAssumption DEF SkipMod, TypeOK, PlacesAgree, MirrorAgrees, InTransit,
      ActionsHeldByLua, ActionsHeldByGame, storeVars, guiVars, luaVars, gameVars
<1>23. ASSUME NEW m \in Mods, EnterMod(m) PROVE MirrorAgrees'
  BY <1>23, ValuesAssumption DEF EnterMod, TypeOK, PlacesAgree, MirrorAgrees, InTransit,
      ActionsHeldByLua, ActionsHeldByGame, storeVars, guiVars, luaVars, gameVars
<1>24. CASE UNCHANGED vars
  BY <1>24, ValuesAssumption DEF vars, TypeOK, PlacesAgree, MirrorAgrees, InTransit,
      ActionsHeldByLua, ActionsHeldByGame, storeVars, guiVars, luaVars, gameVars
<1> QED
  BY <1>1, <1>2, <1>3, <1>4, <1>5, <1>6, <1>7, <1>8, <1>9, <1>10, <1>11, <1>12,
     <1>13, <1>14, <1>15, <1>16, <1>17, <1>18, <1>19, <1>20, <1>21, <1>22, <1>23,
     <1>24
     DEF Next, GuiStep, LuaStep, LuaBegins, GameStep

(* The initial state.                                                       *)
LEMMA InitInv == Init => IInv /\ MirrorAgrees
<1> SUFFICES ASSUME Init PROVE IInv /\ MirrorAgrees
  OBVIOUS
<1>1. TypeOK
  BY DEF Init, Nothing, TypeOK
<1>2. PlacesAgree
  BY DEF Init, Nothing, PlacesAgree, ActionsHeldByLua
<1>3. EditsInOrder /\ MirrorAgrees
  BY DEF Init, EditsInOrder, MirrorAgrees
<1> QED BY <1>1, <1>2, <1>3 DEF IInv

(* Types, places and order: edits of the tab reach process_queue's loop     *)
(* once each and in the order they were made.                               *)
THEOREM InvHolds == Spec => []IInv
<1>1. IInv /\ [Next]_vars => IInv'
  BY TypeStep, PlacesStep, OrderStep DEF IInv
<1>2. Init => IInv
  BY InitInv
<1> QED BY <1>1, <1>2, PTL DEF Spec

(* The store mirrors what the mods' Lua holds, whatever edits, pushes,      *)
(* registrations and unloads interleave (but for an edit that runs into a   *)
(* main.lua).                                                               *)
THEOREM MirrorAgreesHolds == Spec => []MirrorAgrees
<1>1. IInv /\ MirrorAgrees /\ [Next]_vars => IInv' /\ MirrorAgrees'
  BY TypeStep, PlacesStep, OrderStep, MirrorStep DEF IInv
<1> QED BY InitInv, <1>1, PTL DEF Spec
=============================================================================
