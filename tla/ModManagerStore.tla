-------------------------- MODULE ModManagerStore --------------------------
(***************************************************************************)
(* The native mirror of Lua's mod settings and its tab in the debug GUI      *)
(* (UE4SS/src/ModManagerStore/ModManagerStore.cpp).                          *)
(*                                                                         *)
(* Three threads.  The GUI renders a copy of the store, a row at a time, and *)
(* queues what the user edits.  The event loop starts and unloads mods, and  *)
(* their Lua registers descriptors and pushes values.  The game thread hands *)
(* the queued edits to every mod's Lua, which pushes the outcome back.       *)
(*                                                                         *)
(* Three mutexes, each held where the `pc' of its holder says: the widgets'  *)
(* (s_widget_mutex), the store's (s_store_mutex) and the Lua actions'        *)
(* (LuaMod::m_thread_actions_mutex).  A step that takes a mutex and gives it *)
(* back without waiting in between is one action, enabled when it is free.   *)
(***************************************************************************)
EXTENDS Naturals, Sequences

CONSTANTS
  Mods,     (* mods with a descriptor; bound: it declares one setting          *)
  Values,   (* values of a setting                                             *)
  OffGrid,  (* values that the Lua registry does not take as they are ...      *)
  OnGrid,   (* ... and what it makes of them                                   *)
  Default,  (* what the schema gives                                           *)
  MaxEdits, (* bound: edits that are queued                                    *)
  MaxLua,   (* bound: steps of the mods' own Lua                               *)
  None

ASSUME ValuesAssumption ==
  /\ OffGrid \subseteq Values /\ OnGrid \in Values /\ Default \in Values
  /\ None \notin Values /\ None \notin Mods
  /\ MaxEdits \in Nat /\ MaxLua \in Nat

VARIABLES
  values,   (* ModEntry::values of s_mods; None: no entry                      *)
  pending,  (* s_pending                                                       *)
  asked,    (* edits ever queued: numbers the next one                         *)
  guiPc,    (* where render_tab is                                             *)
  shown,    (* the frame's copy of s_mods                                      *)
  rows,     (* rows of the frame still to be rendered                          *)
  row,      (* the one under way                                               *)
  sliders,  (* mods whose setting has a widget that is held; it never changes  *)
  uiEdits,  (* ui_edits: what a widget shows while its echo has not come       *)
  scratch,  (* widget_scratch: what a held widget shows                        *)
  life,     (* the LuaMod object of each mod                                   *)
  known,    (* mods whose Lua registered its schema with the library           *)
  owned,    (* the value Lua itself holds                                      *)
  luaPc,    (* where the Lua of a mod is that runs on the event loop           *)
  luaMod,   (* that mod                                                        *)
  luaValue, (* the value it passes                                             *)
  luaSteps, (* steps taken of MaxLua                                           *)
  gamePc,   (* where process_queue is                                          *)
  batch,    (* its batch, from the edit being handed out                       *)
  visit,    (* elements of m_mods it has not come to for this edit             *)
  target,   (* the one it found started                                        *)
  served,   (* edits handed out                                                *)
  crossed   (* history: mods whose main.lua an edit ran into                   *)

storeVars == <<values, pending, asked>>
guiVars == <<guiPc, shown, rows, row, sliders, uiEdits, scratch>>
luaVars == <<life, known, owned, luaPc, luaMod, luaValue, luaSteps, crossed>>
gameVars == <<gamePc, batch, visit, target, served>>
vars == <<storeVars, guiVars, luaVars, gameVars>>

Nothing == [m \in Mods |-> None]
Edit == [id : Nat, mod : Mods, value : Values] \cup [id : Nat, mod : {None}, value : {None}]

Init ==
  /\ values = Nothing /\ pending = <<>> /\ asked = 0
  /\ guiPc = "copy" /\ shown = Nothing /\ rows = {} /\ row = None
  /\ sliders \in SUBSET Mods
  /\ uiEdits = Nothing /\ scratch = Nothing
  /\ life = [m \in Mods |-> "absent"] /\ known = {} /\ owned = Nothing
  /\ luaPc = "idle" /\ luaMod = None /\ luaValue = None /\ luaSteps = 0
  /\ gamePc = "idle" /\ batch = <<>> /\ visit = {} /\ target = None
  /\ served = 0 /\ crossed = {}

-----------------------------------------------------------------------------
(* Who holds which mutex.                                                   *)
WidgetsHeld == guiPc \in {"row", "submit"}
StoreHeld == luaPc = "clear"
ActionsHeldByLua == luaPc # "idle" /\ life[luaMod] = "started"
ActionsHeldByGame == gamePc = "push"

(* The deadlock of the two mutexes that the GUI and a registration take in  *)
(* opposite order.                                                          *)
LockCycle == guiPc = "submit" /\ luaPc = "clear"

Enqueue(mod, value) ==
  /\ asked < MaxEdits /\ ~StoreHeld
  /\ pending' = Append(pending, [id |-> asked + 1, mod |-> mod, value |-> value])
  /\ asked' = asked + 1
  /\ UNCHANGED values

-----------------------------------------------------------------------------
(* The GUI thread: render_tab, render_mod, render_setting.                  *)
CopyStore ==
  /\ guiPc = "copy" /\ ~StoreHeld
  /\ shown' = values /\ rows' = {m \in Mods : values[m] # None}
  /\ guiPc' = "rows"
  /\ UNCHANGED <<storeVars, row, sliders, uiEdits, scratch, luaVars, gameVars>>

(* "Apply" and "Revert all writes": no widget's mutex is held.              *)
PressButton ==
  /\ guiPc = "rows" /\ shown # Nothing
  /\ Enqueue(None, None)
  /\ UNCHANGED <<guiVars, luaVars, gameVars>>

(* Mutant: the echo is looked for in the scratch value of the widget.       *)
EnterRowForgetful(m) ==
  /\ guiPc = "rows" /\ m \in rows
  /\ uiEdits' = [uiEdits EXCEPT ![m] = IF scratch[m] = shown[m] THEN None ELSE @]
  /\ guiPc' = "row" /\ row' = m /\ rows' = rows \ {m}
  /\ UNCHANGED <<storeVars, shown, sliders, scratch, luaVars, gameVars>>

(* A row takes the widgets' mutex; an echo that landed ends the edit.       *)
EnterRow(m) ==
  /\ guiPc = "rows" /\ m \in rows
  /\ uiEdits' = [uiEdits EXCEPT ![m] = IF @ = shown[m] THEN None ELSE @]
  /\ guiPc' = "row" /\ row' = m /\ rows' = rows \ {m}
  /\ UNCHANGED <<storeVars, shown, sliders, scratch, luaVars, gameVars>>

LeaveRow ==
  /\ guiPc = "row"
  /\ guiPc' = "rows"
  /\ UNCHANGED <<storeVars, shown, rows, row, sliders, uiEdits, scratch, luaVars, gameVars>>

Drag(v) ==
  /\ guiPc = "row" /\ row \in sliders
  /\ scratch' = [scratch EXCEPT ![row] = v]
  /\ guiPc' = "rows"
  /\ UNCHANGED <<storeVars, shown, rows, row, sliders, uiEdits, luaVars, gameVars>>

(* The slider is let go: one edit, unless a registration dropped it.        *)
LetGo ==
  /\ guiPc = "row" /\ row \in sliders /\ scratch[row] # None /\ asked < MaxEdits
  /\ uiEdits' = [uiEdits EXCEPT ![row] = scratch[row]]
  /\ scratch' = [scratch EXCEPT ![row] = None]
  /\ guiPc' = "submit"
  /\ UNCHANGED <<storeVars, shown, rows, row, sliders, luaVars, gameVars>>

(* The other widgets submit at once.                                        *)
Choose(v) ==
  /\ guiPc = "row" /\ row \notin sliders /\ asked < MaxEdits
  /\ uiEdits' = [uiEdits EXCEPT ![row] = v]
  /\ guiPc' = "submit"
  /\ UNCHANGED <<storeVars, shown, rows, row, sliders, scratch, luaVars, gameVars>>

(* submit: the store's mutex is taken inside the widgets'.                  *)
Submit ==
  /\ guiPc = "submit"
  /\ Enqueue(row, uiEdits[row])
  /\ guiPc' = "rows"
  /\ UNCHANGED <<shown, rows, row, sliders, uiEdits, scratch, luaVars, gameVars>>

FrameOver ==
  /\ guiPc = "rows" /\ rows = {}
  /\ guiPc' = "copy"
  /\ UNCHANGED <<storeVars, shown, rows, row, sliders, uiEdits, scratch, luaVars, gameVars>>

-----------------------------------------------------------------------------
(* The mods' Lua on the event loop.                                         *)
LuaMoves == luaPc = "idle" /\ luaSteps < MaxLua /\ luaSteps' = luaSteps + 1

(* start_mod: the mod counts as started before its main.lua runs, which     *)
(* takes no mutex, and registers a descriptor with the value it found on    *)
(* disk (None: it passes none).                                             *)
StartMod(m, v) ==
  /\ LuaMoves /\ life[m] = "absent"
  /\ life' = [life EXCEPT ![m] = "main"]
  /\ known' = known \cup {m} /\ owned' = [owned EXCEPT ![m] = v]
  /\ luaPc' = "register" /\ luaMod' = m /\ luaValue' = v
  /\ UNCHANGED <<storeVars, guiVars, crossed, gameVars>>

(* A timer of a started mod, under the actions mutex, registers again ...   *)
RegisterAgain(m) ==
  /\ LuaMoves /\ life[m] = "started" /\ ~ActionsHeldByGame
  /\ luaPc' = "register" /\ luaMod' = m /\ luaValue' = owned[m]
  /\ UNCHANGED <<storeVars, guiVars, life, known, owned, crossed, gameVars>>

(* ... or sets a value, which the library pushes.                           *)
ChangeValue(m, v) ==
  /\ LuaMoves /\ life[m] = "started" /\ ~ActionsHeldByGame
  /\ owned' = [owned EXCEPT ![m] = v]
  /\ luaPc' = "push" /\ luaMod' = m /\ luaValue' = v
  /\ UNCHANGED <<storeVars, guiVars, life, known, crossed, gameVars>>

Mirror(m, v) == values' = [values EXCEPT ![m] = IF @ = None THEN None ELSE v]

(* lua_push_value: a value of a mod that is not registered is dropped.      *)
PushNativeValue ==
  /\ luaPc = "push"
  /\ Mirror(luaMod, luaValue)
  /\ luaPc' = "idle"
  /\ UNCHANGED <<pending, asked, guiVars, life, known, owned, luaMod, luaValue, luaSteps,
                 crossed, gameVars>>

Registers(v) ==
  /\ luaPc = "register"
  /\ values' = [values EXCEPT ![luaMod] = v]
  /\ luaPc' = "clear"
  /\ UNCHANGED <<pending, asked, guiVars, life, known, owned, luaMod, luaValue, luaSteps,
                 crossed, gameVars>>

(* Mutant: what the mirror had goes before what Lua holds.                  *)
RegisterKeepsOld ==
  Registers(IF values[luaMod] # None THEN values[luaMod]
            ELSE IF luaValue # None THEN luaValue ELSE Default)

(* lua_register_descriptor up to the end of the store's part: what Lua      *)
(* holds, else what the mirror had, else the default.                       *)
RegisterDescriptor ==
  Registers(IF luaValue # None THEN luaValue
            ELSE IF values[luaMod] # None THEN values[luaMod] ELSE Default)

(* clear_widget_state, with the store's mutex still held.                   *)
ClearWidgets ==
  /\ luaPc = "clear" /\ ~WidgetsHeld
  /\ uiEdits' = Nothing /\ scratch' = Nothing
  /\ life' = [life EXCEPT ![luaMod] = "started"]
  /\ luaPc' = "idle"
  /\ UNCHANGED <<storeVars, guiPc, shown, rows, row, sliders, known, owned, luaMod, luaValue, luaSteps,
                 crossed, gameVars>>

(* uninstall closes the state under the actions mutex; the object stays     *)
(* started in m_mods until delete_mod.                                      *)
CloseMod(m) ==
  /\ LuaMoves /\ life[m] = "started" /\ ~ActionsHeldByGame
  /\ life' = [life EXCEPT ![m] = "closed"]
  /\ known' = known \ {m} /\ crossed' = crossed \ {m}
  /\ owned' = [owned EXCEPT ![m] = None]
  /\ UNCHANGED <<storeVars, guiVars, luaPc, luaMod, luaValue, gameVars>>

DeleteMod(m) ==
  /\ luaPc = "idle" /\ life[m] = "closed"
  /\ life' = [life EXCEPT ![m] = "absent"]
  /\ target' = IF target = m THEN None ELSE target
  /\ UNCHANGED <<storeVars, guiVars, known, owned, luaPc, luaMod, luaValue, luaSteps, crossed,
                 gamePc, batch, visit, served>>

-----------------------------------------------------------------------------
(* process_queue on the game thread.                                        *)

(* Mutant: the queue is copied, not swapped.                                *)
CopyBatch ==
  /\ gamePc = "idle" /\ pending # <<>> /\ ~StoreHeld
  /\ batch' = pending /\ UNCHANGED pending
  /\ gamePc' = "edit" /\ visit' = Mods
  /\ UNCHANGED <<values, asked, guiVars, luaVars, target, served>>

TakeBatch ==
  /\ gamePc = "idle" /\ pending # <<>> /\ ~StoreHeld
  /\ batch' = pending /\ pending' = <<>>
  /\ gamePc' = "edit" /\ visit' = Mods
  /\ UNCHANGED <<values, asked, guiVars, luaVars, target, served>>

(* is_started is tested without a mutex.                                    *)
SkipMod(m) ==
  /\ gamePc = "edit" /\ m \in visit /\ life[m] = "absent"
  /\ visit' = visit \ {m}
  /\ UNCHANGED <<storeVars, guiVars, luaVars, gamePc, batch, target, served>>

EnterMod(m) ==
  /\ gamePc = "edit" /\ m \in visit /\ life[m] # "absent"
  /\ visit' = visit \ {m} /\ target' = m
  /\ gamePc' = "lock"
  /\ UNCHANGED <<storeVars, guiVars, luaVars, batch, served>>

Coerce(v) == IF v \in OffGrid THEN OnGrid ELSE v

(* The chunk sets a value where the library knows the descriptor.  In a     *)
(* state that is closed by now it finds nothing.                            *)
Hits(edit) == edit.mod # None /\ edit.mod = target /\ target \in known

RunChunk ==
  /\ gamePc = "lock" /\ ~ActionsHeldByLua
  /\ LET edit == Head(batch) IN
     IF Hits(edit)
       THEN /\ owned' = [owned EXCEPT ![target] = Coerce(edit.value)]
            /\ crossed' = IF life[target] = "main" THEN crossed \cup {target} ELSE crossed
            /\ gamePc' = "push"
       ELSE UNCHANGED <<owned, crossed>> /\ gamePc' = "edit"
  /\ UNCHANGED <<storeVars, guiVars, life, known, luaPc, luaMod, luaValue, luaSteps,
                 batch, visit, target, served>>

(* The library's notification pushes what the setting became.               *)
PushEcho ==
  /\ gamePc = "push" /\ ~StoreHeld
  /\ Mirror(target, owned[target])
  /\ gamePc' = "edit"
  /\ UNCHANGED <<pending, asked, guiVars, luaVars, batch, visit, target, served>>

(* Mutant: the drain ends with the first edit of its batch.                 *)
EditOverEndsDrain ==
  /\ gamePc = "edit" /\ visit = {}
  /\ batch' = <<>> /\ served' = served + 1 /\ target' = None
  /\ gamePc' = "idle"
  /\ UNCHANGED <<storeVars, guiVars, luaVars, visit>>

EditOver ==
  /\ gamePc = "edit" /\ visit = {}
  /\ batch' = Tail(batch) /\ served' = served + 1 /\ target' = None
  /\ IF Len(batch) = 1 THEN gamePc' = "idle" /\ UNCHANGED visit
                       ELSE visit' = Mods /\ UNCHANGED gamePc
  /\ UNCHANGED <<storeVars, guiVars, luaVars>>

-----------------------------------------------------------------------------
GuiStep ==
  \/ CopyStore \/ PressButton \/ LeaveRow \/ LetGo \/ Submit \/ FrameOver
  \/ \E m \in Mods : EnterRow(m)
  \/ \E v \in Values : Drag(v) \/ Choose(v)

LuaStep == PushNativeValue \/ RegisterDescriptor \/ ClearWidgets \/ \E m \in Mods : DeleteMod(m)

LuaBegins ==
  \E m \in Mods :
    \/ \E v \in Values : ChangeValue(m, v)
    \/ \E v \in Values \cup {None} : StartMod(m, v)
    \/ RegisterAgain(m) \/ CloseMod(m)

GameStep ==
  \/ TakeBatch \/ RunChunk \/ PushEcho \/ EditOver
  \/ \E m \in Mods : SkipMod(m) \/ EnterMod(m)

Next == GuiStep \/ LuaBegins \/ LuaStep \/ GameStep

Spec == Init /\ [][Next]_vars

(* Every thread goes on while it can; a registration that waits for the     *)
(* widgets' mutex gets it between two rows.                                 *)
LiveSpec ==
  /\ Spec
  /\ WF_vars(GuiStep) /\ WF_vars(GameStep)
  /\ WF_vars(LuaStep) /\ SF_vars(ClearWidgets)

-----------------------------------------------------------------------------
TypeOK ==
  /\ values \in [Mods -> Values \cup {None}] /\ pending \in Seq(Edit) /\ asked \in Nat
  /\ guiPc \in {"copy", "rows", "row", "submit"}
  /\ shown \in [Mods -> Values \cup {None}] /\ rows \subseteq Mods
  /\ row \in Mods \cup {None} /\ sliders \subseteq Mods
  /\ uiEdits \in [Mods -> Values \cup {None}] /\ scratch \in [Mods -> Values \cup {None}]
  /\ life \in [Mods -> {"absent", "main", "started", "closed"}]
  /\ known \subseteq Mods /\ owned \in [Mods -> Values \cup {None}]
  /\ luaPc \in {"idle", "register", "clear", "push"} /\ luaMod \in Mods \cup {None}
  /\ luaValue \in Values \cup {None} /\ luaSteps \in Nat
  /\ gamePc \in {"idle", "edit", "lock", "push"} /\ batch \in Seq(Edit)
  /\ visit \subseteq Mods /\ target \in Mods \cup {None}
  /\ served \in Nat /\ crossed \subseteq Mods

(* What the threads' places say about the state they share.                 *)
PlacesAgree ==
  /\ guiPc \in {"row", "submit"} => row \in Mods
  /\ guiPc = "submit" => uiEdits[row] # None
  /\ luaPc # "idle" => luaMod \in known
  /\ luaPc = "push" => (life[luaMod] = "started" /\ luaValue # None)
  /\ luaPc = "clear" => values[luaMod] # None
  /\ luaPc \in {"register", "push"} => (luaValue = owned[luaMod] \/ luaMod \in crossed)
  /\ \A m \in Mods : m \in known <=> life[m] \in {"main", "started"}
  /\ \A m \in Mods : life[m] = "main" => (luaPc \in {"register", "clear"} /\ luaMod = m)
  /\ \A m \in Mods : life[m] = "started" => values[m] # None
  /\ gamePc = "push" =>
       /\ target \in known /\ owned[target] # None /\ ~ActionsHeldByLua
       /\ (luaPc # "idle" /\ luaMod = target) => target \in crossed
  /\ gamePc # "idle" <=> batch # <<>>

(* Edits are handed out once each and in the order they were queued.        *)
EditsInOrder ==
  /\ served + Len(batch) + Len(pending) = asked
  /\ \A i \in DOMAIN batch : batch[i].id = served + i
  /\ \A i \in DOMAIN pending : pending[i].id = served + Len(batch) + i

IInv == TypeOK /\ PlacesAgree /\ EditsInOrder

(* The mirror mirrors: while no registration and no push of a mod is under  *)
(* way, the store has the value that the mod's Lua holds.  Known exception: *)
(* an edit that ran into the mod's main.lua, which is_started does not rule *)
(* out; until the next unload the mirror may be behind.                     *)
InTransit(m) ==
  \/ luaPc \in {"register", "push"} /\ luaMod = m
  \/ gamePc = "push" /\ target = m

MirrorAgrees ==
  \A m \in known \ crossed : (owned[m] # None /\ ~InTransit(m)) => values[m] = owned[m]

(* "Deliberately OUTSIDE s_store_mutex": the store's mutex is the inner one *)
(* everywhere, so that the GUI and a registration never wait for each other. *)
NoLockCycle == ~LockCycle

(* A queued edit is handed to Lua, unless the mutexes block that.           *)
EditsReachLua == \A k \in 1..MaxEdits : (asked >= k) ~> (served >= k \/ LockCycle)

(* What a widget shows in place of the store's value ends with the echo.    *)
(* (When Lua makes another value of it, or has none, no echo ends it: the   *)
(* widget shows it on.)                                                     *)
Unanswered(m) ==
  /\ uiEdits[m] # values[m]
  /\ gamePc # "push"
  /\ \A i \in DOMAIN pending : pending[i].mod # m
  /\ \A i \in DOMAIN batch : batch[i].mod # m

EchoLands ==
  \A m \in Mods : (uiEdits[m] # None) ~> (uiEdits[m] = None \/ Unanswered(m) \/ LockCycle)
=============================================================================
