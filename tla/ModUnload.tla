------------------------------ MODULE ModUnload ------------------------------
(***************************************************************************)
(* How Lua mods come and go under a running game (LuaMod::uninstall and     *)
(* start_mod, called from UE4SSProgram on the event-loop thread), against   *)
(* everything that may be inside a mod's Lua state at the time:             *)
(*   - the GAME THREAD, whose call stack is `stack': drains of the action   *)
(*     queues, UFunction hooks (pre and post), and callbacks that run under *)
(*     m_thread_actions_mutex (LoadMap, BeginPlay, console ...);            *)
(*   - the mod's ASYNC THREAD (update_async);                               *)
(*   - the EVENT-LOOP THREAD itself: main.lua, unload handlers, keybinds.   *)
(* A mod is one LuaMod object: a restart closes one and starts another.     *)
(* Each of these may register more callbacks of the mod while it runs, the  *)
(* unload handlers too, which run after the containers were erased.         *)
(*                                                                         *)
(* The queues' contents are module DelayedActions'; here `queued' only says *)
(* which mods have work in them.                                            *)
(***************************************************************************)
EXTENDS Integers, Sequences, FiniteSets

CONSTANTS
  Mods,         (* the LuaMod objects that ever exist                        *)
  NoMod,        (* no mod                                                    *)
  InitialMods,  (* the mods that run in the initial state                    *)
  Entries,      (* how the game enters UE4SS, of {"drain", "hook"}           *)
  Events,       (* the containers mods register callbacks in: see Containers *)
  Calls,        (* what callbacks block on, of {"wantActions", "wantEvent"}  *)
  RequestKinds, (* what is asked of the event loop                           *)
  KeyKinds,     (* what keybind callbacks ask: they run ON the event loop    *)
  MaxNesting,   (* bound: frames on the game thread's stack                  *)
  MaxRequests   (* bound: requests ever made                                 *)

(* "event": the containers uninstall erases, NotifyOnNewObject's too;       *)
(* "endPlay": those of EndPlay, which it does not; "key": the keybinds.     *)
Containers == {"event", "endPlay", "key"}

Kinds == {"uninstall", "reinstall", "reinstallAll", "start", "autoReload"}

ASSUME ConstantsAssumption ==
  /\ IsFiniteSet(Mods) /\ NoMod \notin Mods /\ InitialMods \subseteq Mods
  /\ Entries \subseteq {"drain", "hook"} /\ Events \subseteq Containers
  /\ Calls \subseteq {"wantActions", "wantEvent"}
  /\ RequestKinds \subseteq Kinds /\ KeyKinds \subseteq Kinds
  /\ MaxNesting \in Nat \ {0} /\ MaxRequests \in Nat

VARIABLES
  life,         (* per mod: where its Lua state is in its life               *)
  token,        (* the mods whose m_unload_started is set                    *)
  hook,         (* per mod: its entry of g_hooked_script_function_data       *)
  listens,      (* per mod: the containers that hold callbacks of it         *)
  late,         (* history: the mods that registered something after their   *)
                (* containers had been erased                                *)
  queued,       (* the mods with actions in the game-thread queues           *)
  stack,        (* the game thread's frames inside UE4SS                     *)
  depth,        (* m_is_processing_actions                                   *)
  inFlight,     (* per mod: m_hook_callbacks_in_flight                       *)
  async,        (* per mod: its async thread                                 *)
  stopping,     (* the mods whose async thread was asked to stop             *)
  transitions,  (* m_mods_transitioning                                      *)
  epc,          (* where the event-loop thread is                            *)
  target,       (* the mod it is unloading or starting                       *)
  op,           (* the request it is executing                               *)
  seen,         (* the depth it waits to see change                          *)
  events,       (* m_queued_events                                           *)
  asked,        (* history: how many requests were made                      *)
  forced        (* history: the mods whose unload gave up a wait             *)

game == <<stack, depth, inFlight>>
loop == <<epc, target, op, seen, forced>>
registry == <<hook, listens, late>>
vars == <<life, token, registry, queued, game, async, stopping, transitions, loop,
          events, asked>>

-----------------------------------------------------------------------------
(* Frames of the game thread.                                               *)

Life == {"unborn", "starting", "started", "unloading", "closed"}

(* "unloading": mod_unloading and scheduled_for_removal are set; "removed": *)
(* unregistered from the UFunction; "erased": the data is freed; "freed":   *)
(* the data is freed and the UFunction still holds the callbacks.           *)
Hook == {"none", "live", "unloading", "removed", "erased", "freed"}
DataFreed(m) == hook[m] \in {"erased", "freed"}

(* Inside a Lua callback: running, or blocked in one of the two mutexes.    *)
InLua == {"inLua", "wantActions", "wantEvent"}

DrainPC == {"test", "lock", "run", "leave", "merge"} \cup InLua
HookPC == {"test", "data", "flag", "original", "unloadingFlag", "scheduledFlag",
           "count", "erase", "dangling"} \cup InLua

Frame == [kind : {"drain", "hook", "event"},
          phase : {"simple", "delayed", "notify", "pre", "post", "after", "event", "endPlay"},
          pc : DrainPC \cup HookPC, mod : Mods \cup {NoMod},
          batch : SUBSET Mods, deferred : SUBSET Mods]

Top == stack[Len(stack)]
At(kind, phases, pc) ==
  stack # <<>> /\ Top.kind = kind /\ Top.phase \in phases /\ Top.pc = pc
SetTop(f) == stack' = [stack EXCEPT ![Len(stack)] = f]
Goto(pc) == SetTop([Top EXCEPT !.pc = pc])
Pop == stack' = SubSeq(stack, 1, Len(stack) - 1)

Inside(f, m) == f.mod = m /\ f.pc \in InLua

(* process_pending_notify_on_new_object_callbacks and the event callbacks   *)
(* run Lua while they hold m_thread_actions_mutex.                          *)
Locked(f) == \/ f.kind = "event"
             \/ f.kind = "drain" /\ f.phase = "notify" /\ f.pc \in {"run"} \cup InLua

(* m_is_currently_executing_game_action                                     *)
Executing == \E k \in DOMAIN stack : /\ stack[k].kind = "drain"
                                     /\ stack[k].phase \in {"simple", "delayed"}
                                     /\ stack[k].pc \in InLua

(* The counters the unload reads are raised and lowered by these frames.    *)
InDrain(f) == f.kind = "drain" /\ f.pc # "merge"
Counted(f, m) ==
  /\ f.kind = "hook" /\ f.mod = m
  /\ f.pc \in InLua \/ f.pc = "flag"

-----------------------------------------------------------------------------
(* The two mutexes callbacks block on.  The game thread and the event loop  *)
(* may hold m_thread_actions_mutex for long; it is recursive.               *)

(* Mutant: the event callbacks take no lock.                                *)
GameHoldsActionsInDrains ==
  \E k \in DOMAIN stack : Locked(stack[k]) /\ stack[k].kind = "drain"

GameHoldsActions == \E k \in DOMAIN stack : Locked(stack[k])

(* Mutant: the mutex is taken before the drains are waited for.             *)
LoopHoldsActionsEarly ==
  epc \in {"waitDrains", "blocked", "unloadLua", "close", "erase"} \/ op.keybind # NoMod

LoopHoldsActions == epc \in {"unloadLua", "close", "erase"} \/ op.keybind # NoMod
EventsHeld == op.inEvent

Open(m) == m \in Mods /\ life[m] \notin {"unborn", "closed"}

(* Registered for m: after uninstall erased and unregistered what m had?     *)
Records(m) ==
  late' = IF target = m /\ epc \in {"unloadLua", "close", "erase"}
            THEN late \cup {m} ELSE late

(* A Lua function that takes m_thread_actions_mutex: it queues an action    *)
(* (ExecuteInGameThread) or registers a hook (RegisterHook).                *)
LuaCall(m) ==
  \/ ~Open(m) /\ UNCHANGED <<queued, registry>>
  \/ Open(m) /\ queued' = queued \cup {m} /\ UNCHANGED registry
  \/ /\ Open(m) /\ hook[m] = "none"
     /\ hook' = [hook EXCEPT ![m] = "live"] /\ Records(m)
     /\ UNCHANGED <<listens, queued>>

Request == [kind : Kinds, mod : Mods \cup {NoMod}]

(* RestartMod, UninstallMod ... off the event loop: queue_event.            *)
QueueEvent == \E r \in Request :
  /\ r.kind \in RequestKinds \ {"autoReload"}
  /\ r.mod = NoMod <=> r.kind \in {"reinstallAll", "start"}
  /\ events' = Append(events, r)

-----------------------------------------------------------------------------
(* Game thread: entering UE4SS, at top level or from a callback or a hooked *)
(* function that calls a UFunction.                                         *)

MayNest == Len(stack) < MaxNesting /\ (stack # <<>> => Top.pc \in {"inLua", "original"})
MayEnter(kind) == kind \in Entries /\ MayNest

Push(kind, phase, pc, m) ==
  stack' = Append(stack, [kind |-> kind, phase |-> phase, pc |-> pc, mod |-> m,
                          batch |-> {}, deferred |-> {}])

EnterDrain ==
  /\ MayEnter("drain") /\ ~LoopHoldsActions
  /\ depth' = depth + 1
  /\ Push("drain", "simple", "test", NoMod)
  /\ UNCHANGED <<life, token, registry, queued, inFlight, async, stopping, transitions,
                 loop, events, asked>>

NextPhase(f) ==
  CASE f.phase = "simple"  -> [f EXCEPT !.phase = "delayed", !.pc = "test"]
    [] f.phase = "delayed" -> [f EXCEPT !.phase = "notify", !.pc = "test"]
    [] OTHER               -> [f EXCEPT !.pc = "leave"]

DrainPhases == {"simple", "delayed", "notify"}

(* Mutant: the drains do not test the transition.                           *)
DrainNoTest ==
  /\ \E phase \in DrainPhases : At("drain", {phase}, "test")
  /\ Goto("lock")
  /\ UNCHANGED <<life, token, registry, queued, depth, inFlight, async, stopping, transitions,
                 loop, events, asked>>

(* Each process_... function returns at once while mods are in transition.  *)
DrainTest ==
  /\ At("drain", DrainPhases, "test")
  /\ IF transitions # 0 THEN SetTop(NextPhase(Top)) ELSE Goto("lock")
  /\ UNCHANGED <<life, token, registry, queued, depth, inFlight, async, stopping, transitions,
                 loop, events, asked>>

(* Under the mutex: swap the simple queue out; collect the delayed actions  *)
(* that are due, which stay queued; or collect the notify callbacks, and    *)
(* keep the mutex.                                                          *)
DrainCollect ==
  /\ At("drain", DrainPhases, "lock") /\ ~LoopHoldsActions
  /\ \E S \in SUBSET (IF Top.phase = "notify" THEN {m \in Mods : "event" \in listens[m]} ELSE queued) :
       /\ SetTop([Top EXCEPT !.pc = "run", !.batch = S])
       /\ queued' = IF Top.phase = "simple" THEN queued \ S ELSE queued
  /\ UNCHANGED <<life, token, registry, depth, inFlight, async, stopping, transitions, loop,
                 events, asked>>

(* Mutant: the drain does not look at the unload token.                     *)
DrainActionIgnoresToken ==
  /\ At("drain", DrainPhases, "run")
  /\ \E m \in Top.batch :
       IF Top.phase # "notify" /\ Executing
         THEN SetTop([Top EXCEPT !.batch = @ \ {m}])
         ELSE SetTop([Top EXCEPT !.pc = "inLua", !.mod = m])
  /\ UNCHANGED <<life, token, registry, queued, depth, inFlight, async, stopping, transitions,
                 loop, events, asked>>

(* One entry of the list: skipped when its mod is unloading, deferred or    *)
(* skipped inside another action, or called.  Notify callbacks look at      *)
(* neither.  `inLua' is all from the test of the token to the return.       *)
DrainAction ==
  /\ At("drain", DrainPhases, "run")
  /\ \E m \in Top.batch :
       IF Top.phase # "notify" /\ (m \in token \/ Executing)
         THEN SetTop([Top EXCEPT !.batch = @ \ {m},
                                 !.deferred = IF m \notin token /\ Top.phase = "simple"
                                                THEN @ \cup {m} ELSE @])
         ELSE SetTop([Top EXCEPT !.pc = "inLua", !.mod = m])
  /\ UNCHANGED <<life, token, registry, queued, depth, inFlight, async, stopping, transitions,
                 loop, events, asked>>

(* The callback returns; the list may have more entries of the same mod.    *)
DrainActionReturns ==
  /\ At("drain", DrainPhases, "inLua")
  /\ \E rest \in {Top.batch, Top.batch \ {Top.mod}} :
       SetTop([Top EXCEPT !.pc = "run", !.mod = NoMod, !.batch = rest])
  /\ UNCHANGED <<life, token, registry, queued, depth, inFlight, async, stopping, transitions,
                 loop, events, asked>>

(* Deferred actions are put back under the mutex.                           *)
DrainPhaseEnds ==
  /\ At("drain", DrainPhases, "run") /\ Top.batch = {}
  /\ Top.deferred # {} => ~LoopHoldsActions
  /\ queued' = queued \cup Top.deferred
  /\ SetTop(NextPhase([Top EXCEPT !.deferred = {}]))
  /\ UNCHANGED <<life, token, registry, depth, inFlight, async, stopping, transitions, loop,
                 events, asked>>

DrainLeave ==
  /\ At("drain", DrainPhases, "leave")
  /\ depth' = depth - 1
  /\ Goto("merge")
  /\ UNCHANGED <<life, token, registry, queued, inFlight, async, stopping, transitions, loop,
                 events, asked>>

(* The pending queues are merged under the mutex; no Lua runs.              *)
DrainMerge ==
  /\ At("drain", DrainPhases, "merge") /\ ~LoopHoldsActions
  /\ Pop
  /\ UNCHANGED <<life, token, registry, queued, depth, inFlight, async, stopping, transitions,
                 loop, events, asked>>

-----------------------------------------------------------------------------
(* Game thread: a hooked UFunction runs lua_unreal_script_function_hook_pre, *)
(* the original function, and ..._hook_post.                                *)

FireHook(m) ==
  /\ MayEnter("hook") /\ hook[m] \in {"live", "unloading", "freed"}
  /\ Push("hook", "pre", "test", m)
  /\ UNCHANGED <<life, token, registry, queued, depth, inFlight, async, stopping, transitions,
                 loop, events, asked>>

PreTest ==
  /\ At("hook", {"pre"}, "test")
  /\ Goto(IF transitions # 0 THEN "original" ELSE "data")
  /\ UNCHANGED <<life, token, registry, queued, depth, inFlight, async, stopping, transitions,
                 loop, events, asked>>

Count(m) == inFlight' = [inFlight EXCEPT ![m] = @ + 1]
Uncount(m) == inFlight' = [inFlight EXCEPT ![m] = @ - 1]

(* The callback announces itself before it tests the removal flag.          *)
PreCount ==
  /\ At("hook", {"pre"}, "data")
  /\ IF DataFreed(Top.mod)
       THEN Goto("dangling") /\ UNCHANGED inFlight
       ELSE Goto("flag") /\ Count(Top.mod)
  /\ UNCHANGED <<life, token, registry, queued, depth, async, stopping, transitions, loop,
                 events, asked>>

PreFlag ==
  /\ At("hook", {"pre"}, "flag")
  /\ IF hook[Top.mod] # "live"
       THEN Goto("original") /\ Uncount(Top.mod)
       ELSE SetTop([Top EXCEPT !.pc = "inLua"]) /\ UNCHANGED inFlight
  /\ UNCHANGED <<life, token, registry, queued, depth, async, stopping, transitions, loop,
                 events, asked>>

PreReturns ==
  /\ At("hook", {"pre"}, "inLua")
  /\ Goto("original") /\ Uncount(Top.mod)
  /\ UNCHANGED <<life, token, registry, queued, depth, async, stopping, transitions, loop,
                 events, asked>>

(* FirePostCallbacks skips a hook that was unregistered meanwhile.          *)
FirePost ==
  /\ At("hook", {"pre"}, "original")
  /\ IF hook[Top.mod] \in {"removed", "erased"}
       THEN Pop
       ELSE SetTop([Top EXCEPT !.phase = "post", !.pc = "test"])
  /\ UNCHANGED <<life, token, registry, queued, depth, inFlight, async, stopping, transitions,
                 loop, events, asked>>

PostTest ==
  /\ At("hook", {"post"}, "test")
  /\ IF transitions # 0 THEN Pop ELSE Goto("unloadingFlag")
  /\ UNCHANGED <<life, token, registry, queued, depth, inFlight, async, stopping, transitions,
                 loop, events, asked>>

(* remove_if_scheduled, before and after the callback: mod_unloading is     *)
(* read first, scheduled_for_removal second.                                *)
ReadUnloading ==
  /\ At("hook", {"post", "after"}, "unloadingFlag")
  /\ CASE hook[Top.mod] = "live" -> Goto("scheduledFlag")
       [] DataFreed(Top.mod)      -> Goto("dangling")
       [] OTHER                   -> Pop
  /\ UNCHANGED <<life, token, registry, queued, depth, inFlight, async, stopping, transitions,
                 loop, events, asked>>

ReadScheduled ==
  /\ At("hook", {"post", "after"}, "scheduledFlag")
  /\ CASE hook[Top.mod] = "live" -> IF Top.phase = "post" THEN Goto("count") ELSE Pop
       [] DataFreed(Top.mod)      -> Goto("dangling")
       [] OTHER                   -> Goto("erase")
  /\ UNCHANGED <<life, token, registry, queued, depth, inFlight, async, stopping, transitions,
                 loop, events, asked>>

(* The post callback is counted after the flags were tested.                *)
PostCount ==
  /\ At("hook", {"post"}, "count")
  /\ IF DataFreed(Top.mod)
       THEN Goto("dangling") /\ UNCHANGED inFlight
       ELSE Goto("inLua") /\ Count(Top.mod)
  /\ UNCHANGED <<life, token, registry, queued, depth, async, stopping, transitions, loop,
                 events, asked>>

PostReturns ==
  /\ At("hook", {"post"}, "inLua")
  /\ SetTop([Top EXCEPT !.phase = "after", !.pc = "unloadingFlag"]) /\ Uncount(Top.mod)
  /\ UNCHANGED <<life, token, registry, queued, depth, async, stopping, transitions, loop,
                 events, asked>>

(* The removal branch: unregister, release the Lua references, free the     *)
(* data.                                                                    *)
GameErasesHook ==
  /\ At("hook", {"post", "after"}, "erase")
  /\ hook' = [hook EXCEPT ![Top.mod] = "erased"]
  /\ Pop
  /\ UNCHANGED <<life, token, listens, late, queued, depth, inFlight, async, stopping, transitions, loop,
                 events, asked>>

(* The data was read after it was freed: nothing is promised after that;    *)
(* the model goes on as if the frame were gone.                             *)
DanglingEnds ==
  /\ At("hook", {"pre", "post", "after"}, "dangling")
  /\ Pop
  /\ UNCHANGED <<life, token, registry, queued, depth, inFlight, async, stopping, transitions,
                 loop, events, asked>>

-----------------------------------------------------------------------------
(* Game thread: LoadMap, InitGameState, BeginPlay, EndPlay, console and     *)
(* custom-event callbacks: Lua under m_thread_actions_mutex, and no test of *)
(* the transition nor of the mod: what a container holds is called.         *)

FireEvent(m, container) ==
  /\ MayNest /\ ~LoopHoldsActions
  /\ container \in listens[m] \ {"key"}
  /\ Push("event", container, "inLua", m)
  /\ UNCHANGED <<life, token, registry, queued, depth, inFlight, async, stopping, transitions,
                 loop, events, asked>>

EventReturns ==
  /\ At("event", {"event", "endPlay"}, "inLua")
  /\ Pop
  /\ UNCHANGED <<life, token, registry, queued, depth, inFlight, async, stopping, transitions,
                 loop, events, asked>>

(* A callback calls a Lua function that takes one of the mutexes.           *)
TopIn(pc) == stack # <<>> /\ Top.pc = pc

GameCalls ==
  /\ TopIn("inLua") /\ Open(Top.mod)
  /\ \E call \in Calls :
       /\ Goto(call)
       /\ IF call = "wantEvent" THEN asked < MaxRequests /\ asked' = asked + 1
                                ELSE UNCHANGED asked
  /\ UNCHANGED <<life, token, registry, queued, depth, inFlight, async, stopping, transitions,
                 loop, events>>

GameGetsActions ==
  /\ TopIn("wantActions") /\ ~LoopHoldsActions
  /\ Goto("inLua") /\ LuaCall(Top.mod)
  /\ UNCHANGED <<life, token, depth, inFlight, async, stopping, transitions, loop,
                 events, asked>>

GameGetsEvents ==
  /\ TopIn("wantEvent") /\ ~EventsHeld
  /\ Goto("inLua") /\ QueueEvent
  /\ UNCHANGED <<life, token, registry, queued, depth, inFlight, async, stopping, transitions,
                 loop, asked>>

-----------------------------------------------------------------------------
(* Async threads: update_async and process_delayed_actions.                 *)

SetAsync(m, pc) == async' = [async EXCEPT ![m] = pc]

AsyncRuns(m) ==
  /\ async[m] = "idle" /\ m \notin stopping
  /\ SetAsync(m, "inLua")
  /\ UNCHANGED <<life, token, registry, queued, game, stopping, transitions, loop, events, asked>>

AsyncReturns(m) ==
  /\ async[m] = "inLua"
  /\ SetAsync(m, "idle")
  /\ UNCHANGED <<life, token, registry, queued, game, stopping, transitions, loop, events, asked>>

AsyncCalls(m) ==
  /\ async[m] = "inLua"
  /\ \E call \in Calls :
       /\ SetAsync(m, call)
       /\ IF call = "wantEvent" THEN asked < MaxRequests /\ asked' = asked + 1
                                ELSE UNCHANGED asked
  /\ UNCHANGED <<life, token, registry, queued, game, stopping, transitions, loop, events>>

AsyncGetsActions(m) ==
  /\ async[m] = "wantActions" /\ ~LoopHoldsActions /\ ~GameHoldsActions
  /\ SetAsync(m, "inLua") /\ LuaCall(m)
  /\ UNCHANGED <<life, token, game, stopping, transitions, loop, events, asked>>

AsyncGetsEvents(m) ==
  /\ async[m] = "wantEvent" /\ ~EventsHeld
  /\ SetAsync(m, "inLua") /\ QueueEvent
  /\ UNCHANGED <<life, token, registry, queued, game, stopping, transitions, loop, asked>>

AsyncStops(m) ==
  /\ async[m] = "idle" /\ m \in stopping
  /\ SetAsync(m, "none")
  /\ UNCHANGED <<life, token, registry, queued, game, stopping, transitions, loop, events, asked>>

(* Whichever thread runs the Lua of m: RegisterEndPlayPreHook,              *)
(* RegisterLoadMapPostHook, NotifyOnNewObject, RegisterKeyBind ... take no  *)
(* mutex and test nothing.                                                  *)
RunsLua(m) ==
  \/ TopIn("inLua") /\ Top.mod = m
  \/ async[m] = "inLua"
  \/ epc \in {"main", "unloadLua"} /\ target = m
  \/ epc = "keybind" /\ op.keybind = m

RegisterCallback(m, container) ==
  /\ Open(m) /\ RunsLua(m)
  /\ container \in Events \ listens[m]
  /\ listens' = [listens EXCEPT ![m] = @ \cup {container}]
  /\ Records(m)
  /\ UNCHANGED <<life, token, hook, queued, game, async, stopping, transitions, loop, events,
                 asked>>

(* The GUI, the console and the MCP server ask too.                         *)
OthersAsk ==
  /\ asked < MaxRequests /\ ~EventsHeld
  /\ asked' = asked + 1 /\ QueueEvent
  /\ UNCHANGED <<life, token, registry, queued, game, async, stopping, transitions, loop>>

-----------------------------------------------------------------------------
(* Event-loop thread: taking a request.                                     *)

NoOp == [outer |-> FALSE, inEvent |-> FALSE, keybind |-> NoMod,
         todo |-> {}, starts |-> 0, drained |-> FALSE]

Started == {m \in Mods : life[m] = "started"}

(* The mod is looked up when the request runs; one that is gone is only     *)
(* reported.  queue_reinstall_mod(s) raises the transition around all it    *)
(* does; queue_uninstall_mod, queue_start_lua_mod_by_path and auto-reload   *)
(* do not.                                                                  *)
Acceptable(r) == r.mod = NoMod \/ life[r.mod] = "started"
Outer(r) == r.kind \in {"reinstall", "reinstallAll"}
ToUnload(r) == IF r.kind = "reinstallAll" THEN Started
               ELSE IF r.mod = NoMod THEN {} ELSE {r.mod}
Starts(r) == IF r.kind = "uninstall" THEN 0
             ELSE IF r.kind = "start" THEN 1 ELSE Cardinality(ToUnload(r))

Begin(r, inEvent, key) ==
  /\ op' = [outer |-> Outer(r), inEvent |-> inEvent, keybind |-> key,
            todo |-> ToUnload(r), starts |-> Starts(r), drained |-> FALSE]
  /\ transitions' = IF Outer(r) THEN transitions + 1 ELSE transitions
  /\ epc' = "next"
  /\ UNCHANGED <<life, token, registry, queued, game, async, stopping, target, seen, forced>>

(* update() runs queued events while it holds m_event_queue_mutex.          *)
RunEvent ==
  /\ epc = "idle" /\ events # <<>>
  /\ events' = Tail(events)
  /\ IF Acceptable(Head(events))
       THEN Begin(Head(events), TRUE, NoMod)
       ELSE UNCHANGED <<life, token, registry, queued, game, async, stopping, transitions, loop>>
  /\ UNCHANGED asked

(* The polling thread of the file watcher reloads a changed mod while the   *)
(* event loop is parked.                                                    *)
AutoReload(m) ==
  /\ epc = "idle" /\ "autoReload" \in RequestKinds /\ asked < MaxRequests
  /\ life[m] = "started"
  /\ asked' = asked + 1
  /\ Begin([kind |-> "autoReload", mod |-> m], FALSE, NoMod)
  /\ UNCHANGED events

(* A keybind callback: Lua on the event loop, under m_thread_actions_mutex. *)
PressKey(m) ==
  /\ epc = "idle" /\ "key" \in listens[m] /\ ~GameHoldsActions
  /\ asked < MaxRequests /\ asked' = asked + 1
  /\ epc' = "keybind" /\ op' = [NoOp EXCEPT !.keybind = m]
  /\ UNCHANGED <<life, token, registry, queued, game, async, stopping, transitions, target,
                 seen, forced, events>>

(* is_event_loop_thread(): a request from the callback runs inline.         *)
KeybindAsks == \E r \in Request :
  /\ epc = "keybind" /\ Open(op.keybind) /\ r.kind \in KeyKinds
  /\ r.mod = NoMod <=> r.kind \in {"reinstallAll", "start"}
  /\ Acceptable(r)
  /\ Begin(r, FALSE, op.keybind)
  /\ UNCHANGED <<events, asked>>

KeybindReturns ==
  /\ epc = "keybind"
  /\ epc' = "idle" /\ op' = NoOp
  /\ UNCHANGED <<life, token, registry, queued, game, async, stopping, transitions, target,
                 seen, forced, events, asked>>

EndRequest ==
  /\ epc = "next" /\ op.todo = {}
  /\ op.starts = 0 \/ \A m \in Mods : life[m] # "unborn"
  /\ transitions' = IF op.outer THEN transitions - 1 ELSE transitions
  /\ epc' = IF op.keybind = NoMod THEN "idle" ELSE "keybind"
  /\ op' = [NoOp EXCEPT !.keybind = op.keybind]
  /\ UNCHANGED <<life, token, registry, queued, game, async, stopping, target, seen, forced,
                 events, asked>>

-----------------------------------------------------------------------------
(* Event-loop thread: LuaMod::uninstall.                                    *)

BeginUninstall(m) ==
  /\ epc = "next" /\ m \in op.todo
  /\ target' = m /\ op' = [op EXCEPT !.todo = @ \ {m}]
  /\ life' = [life EXCEPT ![m] = "unloading"]
  /\ transitions' = transitions + 1
  /\ epc' = "token"
  /\ UNCHANGED <<token, registry, queued, game, async, stopping, seen, forced, events, asked>>

SetToken ==
  /\ epc = "token"
  /\ token' = token \cup {target}
  /\ stopping' = stopping \cup {target}
  /\ epc' = "join"
  /\ UNCHANGED <<life, registry, queued, game, async, transitions, target, op, seen, forced,
                 events, asked>>

JoinAsync ==
  /\ epc = "join" /\ async[target] = "none"
  /\ epc' = "flag"
  /\ UNCHANGED <<life, token, registry, queued, game, async, stopping, transitions, target, op,
                 seen, forced, events, asked>>

FlagHooks ==
  /\ epc = "flag"
  /\ hook' = [hook EXCEPT ![target] = IF @ = "live" THEN "unloading" ELSE @]
  /\ epc' = "waitHooks"
  /\ UNCHANGED <<life, token, listens, late, queued, game, async, stopping, transitions, target, op, seen,
                 forced, events, asked>>

HooksLeft ==
  /\ epc = "waitHooks" /\ inFlight[target] = 0
  /\ epc' = "waitDrains"
  /\ UNCHANGED <<life, token, registry, queued, game, async, stopping, transitions, target, op,
                 seen, forced, events, asked>>

(* 500 ms have passed.                                                      *)
HookWaitExpires ==
  /\ epc = "waitHooks" /\ inFlight[target] > 0
  /\ forced' = forced \cup {target}
  /\ epc' = "waitDrains"
  /\ UNCHANGED <<life, token, registry, queued, game, async, stopping, transitions, target, op,
                 seen, events, asked>>

(* Mutant: one outermost drain may be left in flight.                       *)
DrainsLeftButOne ==
  /\ epc = "waitDrains" /\ depth <= 1
  /\ epc' = "lock" /\ seen' = 0
  /\ op' = [op EXCEPT !.drained = TRUE]
  /\ UNCHANGED <<life, token, registry, queued, game, async, stopping, transitions, target,
                 forced, events, asked>>

DrainsLeft ==
  /\ epc = "waitDrains" /\ depth = 0
  /\ epc' = "lock" /\ seen' = 0
  /\ op' = [op EXCEPT !.drained = TRUE]
  /\ UNCHANGED <<life, token, registry, queued, game, async, stopping, transitions, target,
                 forced, events, asked>>

(* m_is_processing_actions.wait(depth): until the value is another, for     *)
(* however long.  The deadline is looked at between two waits.              *)
WaitForDrains ==
  /\ epc = "waitDrains" /\ depth # 0
  /\ epc' = "blocked" /\ seen' = depth
  /\ UNCHANGED <<life, token, registry, queued, game, async, stopping, transitions, target, op,
                 forced, events, asked>>

DepthChanged ==
  /\ epc = "blocked" /\ depth # seen
  /\ epc' = "waitDrains"
  /\ UNCHANGED <<life, token, registry, queued, game, async, stopping, transitions, target, op,
                 seen, forced, events, asked>>

(* 2000 ms had passed when the wait returned.                               *)
DrainWaitExpires ==
  /\ epc = "waitDrains" /\ depth # 0 /\ seen # 0
  /\ forced' = forced \cup {target}
  /\ epc' = "lock" /\ seen' = 0
  /\ UNCHANGED <<life, token, registry, queued, game, async, stopping, transitions, target, op,
                 events, asked>>

(* Take m_thread_actions_mutex, erase the callback containers and keybinds  *)
(* (those of EndPlay are not in the list), flag and unregister the hooks;   *)
(* then run the unload handlers.                                            *)
LockAndUnregister ==
  /\ epc = "lock" /\ ~GameHoldsActions
  /\ listens' = [listens EXCEPT ![target] = @ \cap {"endPlay"}]
  /\ hook' = [hook EXCEPT ![target] = IF @ \in {"live", "unloading"} THEN "removed" ELSE @]
  /\ epc' = "unloadLua"
  /\ UNCHANGED <<life, token, late, queued, game, async, stopping, transitions, target, op,
                 seen, forced, events, asked>>

(* fire_on_mod_unload: the handlers of the mod, in its Lua, under the mutex. *)
HandlerCalls ==
  /\ epc = "unloadLua"
  /\ LuaCall(target)
  /\ UNCHANGED <<life, token, game, async, stopping, transitions, loop, events, asked>>

(* Mutant: the mod's queued actions are not erased.                         *)
KeepActions ==
  /\ epc = "unloadLua"
  /\ epc' = "close"
  /\ UNCHANGED <<life, token, registry, queued, game, async, stopping, transitions, target, op,
                 seen, forced, events, asked>>

(* The handlers have returned; the mod's queued actions are erased.         *)
EraseActions ==
  /\ epc = "unloadLua"
  /\ queued' = queued \ {target}
  /\ epc' = "close"
  /\ UNCHANGED <<life, token, registry, game, async, stopping, transitions, target, op, seen,
                 forced, events, asked>>

CloseState ==
  /\ epc = "close"
  /\ life' = [life EXCEPT ![target] = "closed"]
  /\ epc' = "erase"
  /\ UNCHANGED <<token, registry, queued, game, async, stopping, transitions, target, op, seen,
                 forced, events, asked>>

(* Free the hook data, whether or not the hook was unregistered; release    *)
(* the mutex, lower the transition.                                         *)
EraseHooks ==
  /\ epc = "erase"
  /\ hook' = [hook EXCEPT ![target] =
                 CASE @ = "removed" -> "erased" [] @ = "live" -> "freed" [] OTHER -> @]
  /\ transitions' = transitions - 1
  /\ epc' = "next"
  /\ UNCHANGED <<life, token, listens, late, queued, async, stopping, target, op, seen, forced,
                 game, events, asked>>

-----------------------------------------------------------------------------
(* Event-loop thread: a new LuaMod and start_mod.  The async thread starts  *)
(* before main.lua.                                                         *)

StartMod(m) ==
  /\ epc = "next" /\ op.todo = {} /\ op.starts > 0 /\ life[m] = "unborn"
  /\ target' = m /\ op' = [op EXCEPT !.starts = @ - 1]
  /\ life' = [life EXCEPT ![m] = "starting"]
  /\ SetAsync(m, "idle")
  /\ epc' = "main"
  /\ UNCHANGED <<token, registry, queued, game, stopping, transitions, seen, forced, events,
                 asked>>

(* main.lua registers hooks and queues actions.                             *)
MainCalls ==
  /\ epc = "main" /\ ~GameHoldsActions
  /\ LuaCall(target)
  /\ UNCHANGED <<life, token, game, async, stopping, transitions, loop, events, asked>>

MainReturns ==
  /\ epc = "main"
  /\ life' = [life EXCEPT ![target] = "started"]
  /\ epc' = "next"
  /\ UNCHANGED <<token, registry, queued, game, async, stopping, transitions, target, op, seen,
                 forced, events, asked>>

-----------------------------------------------------------------------------
Init ==
  /\ life = [m \in Mods |-> IF m \in InitialMods THEN "started" ELSE "unborn"]
  /\ token = {}
  /\ hook \in [Mods -> {"none", "live"}]
  /\ listens = [m \in Mods |-> IF m \in InitialMods THEN Events ELSE {}] /\ late = {}
  /\ \A m \in Mods \ InitialMods : hook[m] = "none"
  /\ queued = {}
  /\ stack = <<>> /\ depth = 0 /\ inFlight = [m \in Mods |-> 0]
  /\ async = [m \in Mods |-> IF m \in InitialMods THEN "idle" ELSE "none"]
  /\ stopping = {} /\ transitions = 0
  /\ epc = "idle" /\ target = NoMod /\ op = NoOp /\ seen = 0
  /\ events = <<>> /\ asked = 0 /\ forced = {}

Enter == EnterDrain \/ \E m \in Mods : FireHook(m) \/ \E c \in Events : FireEvent(m, c)

DrainStep ==
  \/ DrainTest \/ DrainCollect \/ DrainAction \/ DrainActionReturns \/ DrainPhaseEnds
  \/ DrainLeave \/ DrainMerge

HookStep ==
  \/ PreTest \/ PreCount \/ PreFlag \/ PreReturns \/ FirePost
  \/ PostTest \/ ReadUnloading \/ ReadScheduled \/ PostCount \/ PostReturns
  \/ GameErasesHook \/ DanglingEnds

CallStep == GameGetsActions \/ GameGetsEvents

AsyncStep(m) ==
  \/ AsyncRuns(m) \/ AsyncReturns(m) \/ AsyncCalls(m) \/ AsyncGetsActions(m)
  \/ AsyncGetsEvents(m) \/ AsyncStops(m)

UninstallStep ==
  \/ \E m \in Mods : BeginUninstall(m)
  \/ SetToken \/ JoinAsync \/ FlagHooks \/ HooksLeft \/ HookWaitExpires \/ DrainsLeft
  \/ WaitForDrains \/ DepthChanged \/ DrainWaitExpires \/ LockAndUnregister \/ EraseActions
  \/ CloseState \/ EraseHooks

Registers == HandlerCalls \/ \E m \in Mods, c \in Events : RegisterCallback(m, c)

StartStep == MainCalls \/ MainReturns \/ \E m \in Mods : StartMod(m)

RequestStep ==
  \/ RunEvent \/ KeybindAsks \/ KeybindReturns \/ EndRequest
  \/ \E m \in Mods : AutoReload(m) \/ PressKey(m)

Next ==
  \/ Enter \/ DrainStep \/ HookStep \/ EventReturns \/ GameCalls \/ CallStep
  \/ \E m \in Mods : AsyncStep(m)
  \/ OthersAsk \/ RequestStep \/ UninstallStep \/ StartStep \/ Registers

Spec == Init /\ [][Next]_vars

-----------------------------------------------------------------------------
(* Fairness.  The game thread goes on; a callback, and a hooked function,   *)
(* returns in the end however many Lua functions it calls and UFunctions it *)
(* enters, at every depth of the stack; a mutex is granted in the end.  The *)
(* list a drain goes through is finite, so the last entry of a mod returns. *)
LastActionReturns == DrainActionReturns /\ stack'[Len(stack)].batch # Top.batch

Returns == LastActionReturns \/ PreReturns \/ FirePost \/ PostReturns \/ EventReturns

GameFairness ==
  /\ WF_vars(DrainStep \/ HookStep)
  /\ \A n \in 1..MaxNesting : SF_vars(Len(stack) = n /\ Returns)
  /\ SF_vars(CallStep)

(* The same for the async threads, which stop when they are idle.           *)
AsyncFairness ==
  \A m \in Mods : /\ SF_vars(AsyncReturns(m) \/ AsyncStops(m))
                  /\ SF_vars(AsyncGetsActions(m) \/ AsyncGetsEvents(m))

(* The event loop goes on.  It wakes up if the drain counter keeps changing: *)
(* drains return at once during a transition, so the counter is 0 for most  *)
(* of a frame.  It looks at the deadline between two waits, and it gets the *)
(* actions mutex.                                                           *)
LoopFairness ==
  /\ WF_vars(UninstallStep \/ StartStep \/ RunEvent \/ EndRequest)
  /\ SF_vars(DepthChanged)
  /\ SF_vars(DrainsLeft \/ DrainWaitExpires \/ LockAndUnregister)

LiveSpec == Spec /\ GameFairness /\ AsyncFairness /\ LoopFairness

-----------------------------------------------------------------------------
(* Properties                                                               *)

LoopPC == {"idle", "keybind", "next", "token", "join", "flag", "waitHooks", "waitDrains",
           "blocked", "lock", "unloadLua", "close", "erase", "main"}

TypeOK ==
  /\ life \in [Mods -> Life] /\ hook \in [Mods -> Hook]
  /\ listens \in [Mods -> SUBSET Containers] /\ late \subseteq Mods
  /\ token \subseteq Mods /\ queued \subseteq Mods /\ stopping \subseteq Mods
  /\ forced \subseteq Mods
  /\ stack \in Seq(Frame)
  /\ depth \in Nat /\ inFlight \in [Mods -> Nat] /\ transitions \in Nat
  /\ async \in [Mods -> {"none", "idle"} \cup InLua]
  /\ epc \in LoopPC /\ target \in Mods \cup {NoMod} /\ seen \in Nat
  /\ op \in [outer : BOOLEAN, inEvent : BOOLEAN, keybind : Mods \cup {NoMod},
             todo : SUBSET Mods, starts : Nat, drained : BOOLEAN]
  /\ events \in Seq(Request) /\ asked \in Nat

(* The steps of LuaMod::uninstall, by what has been done before them.       *)
AfterDrains == {"lock", "unloadLua", "close", "erase"}
AfterHooks == {"waitDrains", "blocked"} \cup AfterDrains
AfterFlag == {"waitHooks"} \cup AfterHooks
AfterJoin == {"flag"} \cup AfterFlag
Uninstalling == {"token", "join"} \cup AfterJoin

-----------------------------------------------------------------------------
(* The inductive invariant behind the safety properties.                    *)

(* Frames have the shape of the code that pushed them.                      *)
FrameShape(f) ==
  /\ f.kind = "drain" =>
       /\ f.phase \in DrainPhases /\ f.pc \in DrainPC
       /\ f.pc \notin InLua \cup {"run"} => f.batch = {} /\ f.deferred = {}
       /\ f.pc \in InLua \/ f.mod = NoMod
       /\ f.pc \in InLua => f.mod \in f.batch
  /\ f.kind = "hook" =>
       /\ f.phase \in {"pre", "post", "after"} /\ f.pc \in HookPC
       /\ f.phase = "after" => f.pc \notin InLua
       /\ f.mod \in Mods /\ hook[f.mod] # "none"
       /\ f.batch = {} /\ f.deferred = {}
  /\ f.kind = "event" =>
       f.phase \in {"event", "endPlay"} /\ f.pc \in InLua /\ f.mod \in Mods /\ f.batch = {}
       /\ f.deferred = {}

PreEntering(f) == f.kind = "hook" /\ f.phase = "pre" /\ f.pc \in {"data", "flag"}
PreInside(f) == f.kind = "hook" /\ f.phase = "pre" /\ f.pc \in InLua
DrainIdle(f) == f.kind = "drain" => f.pc \in {"test", "leave", "merge"}
Outside(f) == f.pc \in {"test", "original"}

(* A drain was seen to be over since the transition was raised, for the     *)
(* unload under way or for an earlier one of the same restart.              *)
DrainsOver ==
  \/ epc \in AfterDrains /\ target \notin forced
  \/ op.outer /\ op.drained /\ forced = {}

(* What each frame of the game thread may be doing at each step of the      *)
(* unload: the mutex has one holder; a pre hook that could still enter      *)
(* finds the flag; none is inside after the wait; drains are idle after     *)
(* theirs; no hook callback is in a state whose main.lua still runs; and    *)
(* nothing leads to a closed state.                                         *)
GoodFrame(f) ==
  /\ FrameShape(f)
  /\ LoopHoldsActions => ~Locked(f)
  /\ (epc \in AfterFlag /\ PreEntering(f) /\ f.mod = target) => hook[target] # "live"
  /\ (epc \in AfterHooks /\ target \notin forced /\ PreInside(f)) => f.mod # target
  /\ DrainsOver => DrainIdle(f)
  /\ (epc = "main" /\ op.outer /\ f.kind = "hook" /\ f.mod = target) => Outside(f)
  /\ \A m \in Mods : (life[m] = "closed" /\ m \notin forced) =>
       /\ m \notin f.deferred /\ (m \in f.batch => f.phase = "notify" /\ m \in late)
       /\ (PreInside(f) \/ f.phase = "event") => f.mod # m \/ (f.phase = "event" /\ m \in late)

(* The counters are what they count.                                        *)
DepthExact == depth = Cardinality({k \in DOMAIN stack : InDrain(stack[k])})
InFlightExact ==
  \A m \in Mods : inFlight[m] = Cardinality({k \in DOMAIN stack : Counted(stack[k], m)})
TransitionsExact ==
  transitions = (IF op.outer THEN 1 ELSE 0) + (IF epc \in Uninstalling THEN 1 ELSE 0)

(* Nothing of the game calls m any more, the events of EndPlay excepted.     *)
Unlisted(m) == listens[m] \subseteq {"endPlay"} /\ hook[m] \notin {"live", "unloading", "freed"}

(* What the event loop has established at each step.                        *)
LoopState ==
  /\ epc \in Uninstalling \cup {"main"} => target \in Mods
  /\ epc \in Uninstalling \ {"erase"} => life[target] = "unloading"
  /\ epc = "erase" => life[target] = "closed"
  /\ epc = "main" => life[target] = "starting"
  /\ epc \in AfterJoin => async[target] = "none"
  /\ epc \in {"unloadLua", "close", "erase"} =>
       hook[target] # "unloading" /\ (target \notin late => Unlisted(target))
  /\ (epc \in {"close", "erase"} /\ target \notin forced) => target \notin queued
  /\ epc \in {"idle", "keybind"} => ~op.outer
  /\ \A m \in op.todo : life[m] = "started"

(* What a state that is closed, or does not exist yet, keeps.               *)
ModState(m) ==
  /\ life[m] = "unborn" => hook[m] = "none" /\ listens[m] = {}
  /\ hook[m] = "freed" => life[m] = "closed"
  /\ life[m] = "closed" =>
       /\ async[m] = "none" /\ hook[m] # "unloading"
       /\ hook[m] = "live" => epc = "erase" /\ target = m
       /\ m \notin late => Unlisted(m)
  /\ (life[m] = "closed" /\ m \notin forced) => m \notin queued

IInv ==
  /\ TypeOK
  /\ \A k \in DOMAIN stack : GoodFrame(stack[k])
  /\ DepthExact /\ InFlightExact /\ TransitionsExact
  /\ LoopState
  /\ \A m \in Mods : ModState(m)

-----------------------------------------------------------------------------
(* The post callback of a hook, which enters a mod's Lua without being       *)
(* waited for: see PostHookWaitedFor.                                       *)
InPostCallback(f) == f.kind = "hook" /\ f.phase = "post"

(* While the unload handlers of a mod run and its state is closed, no other *)
(* thread is in its Lua: no drain, no pre hook, no event callback, and not  *)
(* its async thread.  A wait that expired gives this up.                    *)
TeardownAlone ==
  (epc \in {"unloadLua", "close"} /\ target \notin forced) =>
    /\ async[target] = "none"
    /\ \A k \in DOMAIN stack : Inside(stack[k], target) => InPostCallback(stack[k])

(* What uninstall forgets: the EndPlay callbacks, and whatever an unload    *)
(* handler registers after the containers were erased.                      *)
Forgotten(f) == f.phase = "endPlay" \/ f.mod \in late

(* Once a mod's state is closed nothing leads there but what was forgotten: *)
(* its thread is gone; no queue holds work of it, no container and no       *)
(* UFunction a callback; nor does what a drain swapped out, nor a hook      *)
(* callback on its way in.                                                  *)
ClosedStateUntouched ==
  \A m \in Mods : (life[m] = "closed" /\ m \notin forced) =>
    /\ async[m] = "none" /\ m \notin queued
    /\ m \notin late => Unlisted(m)
    /\ \A k \in DOMAIN stack :
         /\ m \notin stack[k].deferred
         /\ m \in stack[k].batch => stack[k].phase = "notify" /\ m \in late
         /\ Inside(stack[k], m) => InPostCallback(stack[k]) \/ Forgotten(stack[k])

(* No callback enters the Lua of a closed state but what was forgotten, not *)
(* even when a wait expired and the mod was closed under a drain that still *)
(* has actions of it: the unload token, the hook flags and the erased       *)
(* containers are what keeps the game thread and the keybinds out then.     *)
Entered(f) ==
  f.pc = "inLua" /\ (Len(stack') > Len(stack) \/ (Len(stack') = Len(stack) /\ Top.pc \notin InLua))
NothingEntersClosed ==
  [][/\ stack' # <<>> =>
          LET f == stack'[Len(stack')]
          IN (Entered(f) /\ ~InPostCallback(f) /\ ~Forgotten(f)) => Open(f.mod)
     /\ (epc = "idle" /\ epc' = "keybind") => Open(op'.keybind) \/ op'.keybind \in late]_vars

(* While a restarted mod's main.lua runs, neither a drain nor a hook        *)
(* callback of the game thread is in its Lua: the transition counter stays  *)
(* up from before the unload to the end of main.lua.                        *)
StartAlone ==
  (epc = "main" /\ op.outer /\ op.drained /\ forced = {}) =>
    \A k \in DOMAIN stack : Inside(stack[k], target) => stack[k].kind = "event"

(* An unload that began is completed, whatever the game thread and the      *)
(* async threads do with the actions mutex; not one a keybind callback      *)
(* asked for, which holds that mutex while it waits for the drains.         *)
UninstallCompletes == \A m \in Mods :
  (m \in token /\ target = m /\ op.keybind = NoMod) ~> life[m] = "closed"

(* "Same barrier as the pre-hook: ... uninstall()'s drain has to see it      *)
(* too": no callback at all is in the state while it is torn down.          *)
PostHookWaitedFor ==
  (epc \in {"unloadLua", "close"} /\ target \notin forced) =>
    \A k \in DOMAIN stack : ~Inside(stack[k], target)

(* "the game thread can never observe scheduled_for_removal without it and  *)
(* take the erase path below us": here no Lua calls UnregisterHook, so the  *)
(* game thread never takes that path.                                       *)
OnlyUnloaderErases == \A k \in DOMAIN stack : stack[k].pc # "erase"

(* "the data must remain valid in case a post-hook is still pending": no    *)
(* hook callback reads its data after it was freed.                         *)
HookDataValid == \A k \in DOMAIN stack : stack[k].pc # "dangling"

(* "a stuck one delays the reload instead of wedging the game": the unload  *)
(* always gets past the wait for the drains.                                *)
DrainWaitBounded == epc = "waitDrains" ~> epc = "lock"

(* "no game-thread callback can enter this Lua state any more": neither a   *)
(* container nor a UFunction calls a closed state.                          *)
NoCallbackLeft == \A m \in Mods : life[m] = "closed" => listens[m] = {} /\ Unlisted(m)

(* The keybind callback's own unload is completed too.                      *)
KeybindUninstallCompletes == \A m \in Mods : m \in token ~> life[m] = "closed"

=============================================================================
