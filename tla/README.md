# TLA+ models of RE-UE4SS (PD3 fork)

RE-UE4SS loads Lua and C++ mods into a running Unreal Engine game. This
directory holds TLA+ models of the part of it that is hardest to test: several
threads that run Lua in the same states while mods are loaded, restarted and
unloaded, put requests to each other through queues, and hook native code. TLC
checks the models on small instances, TLAPS proves the main invariants for any
number of mods, requests and nested calls, and that the MCP server's queue
implements the service it promises.

Paths below are relative to the repository; `LuaMod.cpp` is
`UE4SS/src/Mod/LuaMod.cpp`, `LuaMod.hpp` is `UE4SS/include/Mod/LuaMod.hpp`,
`UE4SSProgram.cpp` is `UE4SS/src/UE4SSProgram.cpp`.

## 1. The system

### Threads

| thread | what it runs | how it enters Lua |
| --- | --- | --- |
| game thread | the engine; UE4SS is inside its hooks | drains of the action queues (`engine_tick_hook`, `process_event_hook`), UFunction hooks (pre and post), event callbacks (LoadMap, BeginPlay, console ...). A callback that calls a UFunction re-enters all of these. |
| event loop | `UE4SSProgram::update`: queued events, keyboard, C++ mods | `main.lua` of a starting mod, unload handlers, keybind callbacks |
| async thread, one per mod | `LuaMod::update_async` every 5 ms | `ExecuteAsync`, `ExecuteWithDelay`, `LoopAsync` |
| file poll thread | `FilesystemWatcher::poll` | auto-reload, while the event loop is parked |
| MCP workers | HTTP tools | none: they queue evaluations for the game thread |
| GUI thread | rendering, the debugger | requests to the event loop |
| UE loading threads | `StaticConstructObject` | NotifyOnNewObject, queued or under the actions mutex |

### Components, state and operations

| component | state | operations | what makes it correct |
| --- | --- | --- | --- |
| action scheduler (`LuaMod.cpp` 4378-4803, 4982-6224) | six vectors (immediate and delayed, main and pending), the handle counter, the drain depth, the executing flag; all under `m_thread_actions_mutex` except the last two | create (7 Lua functions), control (6), drain | nothing lost, nothing twice, no action inside another, cancel is final, a handle is unique, nothing of a closed mod remains |
| mod lifecycle (`LuaMod::uninstall` 6787-7056, `start_mod`, `UE4SSProgram` 1845-2206) | unload token, `m_mods_transitioning`, `m_hook_callbacks_in_flight`, async thread, hook flags | uninstall, start, reinstall one or all, auto-reload | one thread in a state that is torn down, nothing enters a closed state, an unload ends |
| UFunction hooks (`LuaMod.cpp` 124-553) | `g_hooked_script_function_data` with two flags per hook | register, unregister, pre, post, deferred removal | data outlives its readers, pre and post are paired |
| event loop (`UE4SSProgram.cpp` 1288-1432, 2052-2203, 2455) | event queue and its mutex, pause and running flags | queue, run up to five a frame, keybind callbacks, park for the file watcher | an accepted request is executed, in order; no callback of a replaced mod is called |
| file watcher handshake (`Sync.cpp`, `FilesystemWatcher_Windows.cpp_impl`) | one atomic of four values | ask, park, release | the callback runs only while the loop is parked; both threads end |
| MCP server (`MCP/MCPServer.cpp`) | request queue, per-request done/abandoned, shutdown flag | queue and wait, time out, drain, stop | code never starts for a client that was told it failed; every call returns |
| native hooks (`NativeHook.cpp`, `LuaMod.cpp` 2764-2910) | sixteen slots, the Lua callbacks of each | register, unregister, thunk | a call runs the callbacks of its function, all of them; a closed mod has none |
| NotifyOnNewObject (`LuaMod.cpp` 2501-2564, 4441-4558, 7661-7761) | registrations with an id, the pending list, the references of each mod's Lua registry | register, call at once or queue, drain, cancel by return value | once per construction, for the object it was promised, none lost; a reference in use is nobody else's |
| Mod Manager store (`ModManagerStore.cpp`) | mirror of the settings, pending edits, widget state; three mutexes | register, push, render, submit, drain | lock order; the mirror agrees with Lua; edits arrive and their echoes come back |
| console forwarder, GUI, input, settings, scanners, generators, Lua bindings | see `PROJECT.json` | | mostly sequential or pure output |

Interactions: the scheduler, the hooks and the lifecycle share
`m_thread_actions_mutex` (recursive), the drain depth, the per-mod counter and
the transition counter. The lifecycle runs on the event loop, inside an event
(under `m_event_queue_mutex`), a keybind (under `m_thread_actions_mutex`) or a
parked frame (auto-reload).

### Hard behaviours

`PROJECT.json` lists each hazard at its line. In short: check-then-act across
an unlocked phase (indexes kept by a drain, flags tested before a counter is
raised), nesting of drains through UFunction calls, waits with and without a
bound, locks taken in opposite orders by callbacks and by the unload, objects
freed under a reader, and requests that run inline instead of being queued.

## 2. Modules

### `DelayedActions` and `ActionService` (with `MCDelayedActions`, `DelayedActions_proofs`, `DelayedActionsRun_proofs`)

The scheduler as it is. One action per critical section of
`m_thread_actions_mutex`, since every scheduler function and every queue
operation of a drain holds it.

| state | code |
| --- | --- |
| `simple`, `simplePending` | `m_engine_tick_actions`, `m_game_thread_actions` and their pending vectors |
| `delayed`, `delayedPending` | `m_delayed_game_thread_actions` and its pending vector |
| `nextHandle` | `m_next_delayed_action_handle` |
| `depth`, `executing` | `m_is_processing_actions`, `m_is_currently_executing_game_action` |
| `stack` | the drains on the game thread's call stack, each with its hook, its position, its private list, its deferred actions and the indexes it collected |
| `transitioning`, `unload` | the transition counter and, per mod, how far `uninstall` is |
| `born`, `ran`, `cancelled` | history, read by the properties only |

Actions: `ExecuteInGameThread`, `Create` (the four functions that make a new
handle), `ExecuteWithHandle`, `RetriggerExisting`, the five timer functions,
`ClearAllDelayedActions`, `MakeActionHandle`; `EnterDrain`, then
`TakeSimple .. PutBackDeferred`, `TakeReady .. RetireReady`, `LeaveDrain`,
`MergePending`; `BeginUnload`, `DrainsSettled`, `EraseActions`, `EndUnload`; and
`Tick` for time. A timer is relative: time left while it runs, time remaining
while it is paused, frames remaining for a frame counter.

An erase keeps the rest in order: `InOrder` is the sequence of the positions that
stay, `Kept` what is left at them, `FirstOf` the position a lookup stops at.

While a callback runs any scheduler function may be called and another
`process_event_hook` may be entered, which is how TLC reaches nested drains.

`ActionService` is the promise to the mods in four variables: what was asked for,
which immediate actions have not started (`waiting`), the action whose callback
runs (`calling`), and whether each mod is loaded, unloading or gone (`phase`). It
starts an action only when none runs and its mod is loaded, an immediate one only
if it waits; it drops one only for a mod that unloads; and it closes a mod only
when the callback that runs is not the mod's, and then nothing of it waits.
The mapping takes `waiting` from all the places a drain may have moved an action to
(`Held`: four queues, each drain's list and what it deferred) and `calling` from
the drains on the stack. A timer's action may start any number of times here:
what it owes is in `LoopKeepsItsPlace` and `CancelIsFinal`.

### `ModUnload` (with `MCModUnload`, `ModUnload_proofs`)

`LuaMod::uninstall`, `start_mod` and what `UE4SSProgram` does around them,
against everything that can be inside a mod's Lua at the time. The queues'
contents are abstracted to "which mods have work queued".

| state | code |
| --- | --- |
| `life` | a LuaMod object: not there, running main.lua, started, uninstalling, closed |
| `token` | `m_unload_started` |
| `hook` | the mod's entry of `g_hooked_script_function_data`: live, flagged, unregistered, freed |
| `stack` | the game thread's frames inside UE4SS: drains (with phase, batch and deferred actions), hook callbacks (pre, post and the tail of post), event callbacks |
| `depth`, `inFlight`, `transitions` | the three counters the unload and the game thread use |
| `async`, `stopping` | the async thread and its stop request |
| `epc`, `target`, `op`, `seen` | the event-loop thread: its position in `uninstall`, the mod, the request, the value the atomic wait compares with |
| `events`, `asked` | `m_queued_events`; how many requests were made |
| `forced` | history: mods whose unload gave up a wait |

Mutexes are derived, not stored: `GameHoldsActions`, `LoopHoldsActions` and
`EventsHeld` say from the positions who holds which. Steps of the uninstall are
`BeginUninstall`, `SetToken`, `JoinAsync`, `FlagHooks`, `HooksLeft` or
`HookWaitExpires`, `DrainsLeft` / `WaitForDrains` / `DepthChanged` /
`DrainWaitExpires`, `LockAndUnregister`, `EraseActions`, `CloseState`,
`EraseHooks`. A hook callback is split at every read of shared state
(`PreTest`, `PreCount`, `PreFlag`, ... `PostTest`, `ReadUnloading`,
`ReadScheduled`, `PostCount`), because each read may be stale at the next.
`pc = "dangling"` is a read of freed data; nothing is claimed after it.

The dispatch of a UFunction's pre and post callbacks lives in a submodule that
is not in the repository; `FireHook`, `FirePost` and `MayEnter` model it from
its use and are marked external in `PROJECT.json`.

The two modules overlap on purpose in the wait for drains: `DelayedActions`
shows that the queue contents survive it, `ModUnload` shows the protocol that
makes the wait end and what it is worth.

### `McpQueue` and `EvalService` (with `MCMcpQueue`, `McpQueue_proofs`)

`EvalService` is the promise in two variables: what each caller knows (`call`:
idle, open, answered, failed) and what the game thread did with its code
(`exec`: no, running, finished). Code begins only for an open call and when
nothing else runs; a caller gives up only while there is no result.

`McpQueue` is `MCPServer.cpp`: each critical section of `g_queue_mutex` is an
action.

| state | code |
| --- | --- |
| `queue`, `batch` | `g_queue` and the batch `process_game_thread_queue` swapped it into |
| `done`, `abandoned` | the flags of a `PendingEval` |
| `call` | where `queue_and_wait` is, or what it returned |
| `notified`, `expired` | which waiters of `g_queue_cv` may look at the predicate |
| `shutting`, `stopPc` | `g_shutting_down`, `MCPServer::stop` |
| `arrived`, `started` | history, for the order |

`QueueAndWait`, `Refuse`, `Expire`, `SleepAgain`, `Answer`, `TimeOut`,
`ToldStopped` are the caller; `TakeBatch`, `SkipAbandoned`, `StartEval`,
`StoreResult`, `NotifyAfterBatch` the game thread; `StopMarks` and
`StopNotifies` the destructor. The mapping (`Told`, `Executed`) makes a queued
and a batched request both `open`; that is what the abandoned flag has to keep
true. A time-out *during* the evaluation is allowed by both: the code of such a
request is already running.

### `EventLoop` (with `MCEventLoop`, `EventLoop_proofs`)

`UE4SSProgram::update` and the threads that wait for it. A LuaMod object is a
mod and a generation, so a restart is visible as a new object; what an unload
does inside is `ModUnload`.

| state | code |
| --- | --- |
| `processing`, `paused` | `m_processing_events`, `m_pause_events_processing` |
| `queue`, `frame` | `m_queued_events`, `num_events_executed` |
| `loopPc` | where the frame is: events, input, the copied callbacks, parked, the end |
| `calls`, `running` | the callbacks `Handler::process_event` copied, and the one called |
| `current`, `born` | the LuaMod object of each mod |
| `sync`, `pollPc`, `stop` | the handshake's atomic, the poll thread, its stop token |
| `pc`, `want` | a thread inside `queue_event` |
| `busy`, `replPending` | the flags that disable the GUI's restart and run buttons |

A request asked for on the event loop is executed on the spot (`CallbackAsks`);
elsewhere it passes `TestProcessing`, then waits for the queue's mutex, which
the loop holds while it executes events. A wait on the atomic is two actions,
compare and sleep, because a store without a notify does not wake a sleeper.
`early` and `meddled` are history: a change seen before the loop finished with
the last one, and a callback of this key press that replaced a mod.

### `ModManagerStore` (with `MCModManagerStore`, `ModManagerStore_proofs`)

The settings tab, the event loop's Lua and the game thread around the store.

| state | code |
| --- | --- |
| `values`, `pending` | `s_mods`, `s_pending`, under `s_store_mutex` |
| `shown`, `rows`, `row` | the copy `render_tab` draws and the setting it is at |
| `uiEdits`, `scratch` | `ui_edits`, `widget_scratch`, under `s_widget_mutex` |
| `life`, `known`, `owned` | the mod, whether its Lua registered the schema, the value Lua holds |
| `luaPc`, `luaMod`, `luaValue` | a registration or a push under way |
| `batch`, `visit`, `target` | `process_queue`: the edits, the mods still to be asked, the one it is in |

A mutex that is waited for while another is held has its own position
(`submit`, `clear`); the others are taken and given back inside an action. The
Lua library that keeps the values is outside `src/`; its clamping is `OffGrid`
and `OnGrid`.

### `NativeHooks` (with `MCNativeHooks`, `NativeHooks_proofs`)

Registration and removal of native hooks against a call of a detoured function.

| state | code |
| --- | --- |
| `target`, `disp`, `epoch` | `g_entries` under `g_mutex`: the address, whose lambda dispatches, how often the slot was emptied |
| `list` | `s_native_hook_callbacks` under `s_native_hook_mutex` |
| `owner`, `wanted`, `slot`, `filled` | a registration: who, for what, where `install` put it, whether `*id_holder` is set |
| `pc`, `reg`, `at`, `ids` | a mod's thread inside `RegisterNativeHook` or `UnregisterNativeHook`, the ids it still has |
| `callPc` .. `todo` | a thread in `dispatch` and in the dispatcher, with what it copied |

Each action holds at most one of the two mutexes, as in the code, so every
hazard of going from one table to the other is there. `raced` marks the slots
where a registration and a removal overlapped.

### `NewObjectNotify` (with `MCNewObjectNotify`, `NewObjectNotify_proofs`)

The registrations, the callback of StaticConstructObject, the batch a drain
takes, and the Lua registry whose references they give back.

| state | code |
| --- | --- |
| `data`, `callbacks` | what each `callback_id` was registered with; the ids that are in `m_static_construct_object_lua_callbacks` |
| `pending` | `m_pending_notify_on_new_object_callbacks` |
| `slots`, `made` | the engine's object array with serial numbers, external |
| `registry` | per mod, `luaL_ref`'s table with its free list, external |
| `hookThread`, `hooks` | `m_hook_lua`; the references kept by `RegisterHook` |
| `stack` | the constructions and the batches the game thread is in |
| `called`, `cancelled`, `owed`, `excused`, `spoiled` | history |

`EnterDirect`, `Climb`, `NextDirect`, `ReturnDirect`, `EndLevel` are the walk over
the classes of an object on the game thread; `QueueNotifications` is the same on
another thread, in one step under the mutex; `TakeBatch` to `EndBatch` are the
drain's phase. A callback may construct an object, enter a drain, register and
unregister; the mutex is recursive and held as long as `stack` is not empty.
`Referred` is what the reference `callback_data` refers to after the call: the
element that is at its position now, or none if the vector moved. `for` in a
notification is the object whose construction queued it; the code has its slot
and serial number only. `Restart` is one step, since the unload holds the mutex;
the wait before it and the transition test in front of a batch are `ModUnload`.

## 3. Runs

Each cfg is one question. All bounds are named constants.

| run | bounds | shows |
| --- | --- | --- |
| `SimpleQueues` | 2 mods, 2 immediate actions, nesting 2, fair hooks | `ActionServiceSpec` (the refinement), `SimpleRunsOnce`, `GoneModSilent`, `SimpleEventuallyRuns`, `TypeOK` |
| `DelayedNested` | 1 mod, 2 actions, 2 handles, nesting 2, timers run in the ProcessEvent hook | `UniqueLiveHandle`, `CollectedOnce`, `CancelIsFinal`, `LoopKeepsItsPlace` |
| `RestartHooks` | 1 mod and its restart, all entries, both blocking calls, nesting 2, 2 requests | `IInv`, `TeardownAlone`, `ClosedStateUntouched`, `NothingEntersClosed` |
| `RestartAll` | 3 LuaMod objects, 2 running; restart all, keybinds, start by path, auto-reload; no nesting, 1 request | `StartAlone` |
| `UninstallLive` | 1 mod, drains and hooks, nesting 2 | `UninstallCompletes` |
| `McpCalls` | 3 requests, every time-out, one stop | `ServiceSpec` (the refinement), `OrderKept`, `CallsEnd`, `DoneIsDelivered`, `IInv` (which has `NoRequestLost`) |
| `EventLoop` | 1 mod, 1 event a frame, 2 requests (Lua or GUI), 2 reloads, 1 key press with any callbacks | `IInv`, `ServedInOrder`, `CallbackAlone`, `CallsAreOpen`, `RequestsServed`, `ReloadHappens`, `LoopEnds` |
| `Store` | 1 mod, 2 values of which Lua clamps one, 2 edits, 3 steps of the mod's Lua | `IInv`, `MirrorAgrees`, `EditsReachLua`, `EchoLands` |
| `NativeHooks` | 2 mods, 2 functions, 2 slots, 3 registrations, 1 call | `IInv`, `EachStillCalled`, `CallFits`, `NoneLeft` |
| `NewObjects` | 1 mod, 1 class, 2 slots, 2 registrations, 2 objects, nesting 2, hooks and refused calls while there are fewer than 2 references | `IInv`, `OncePerConstruction`, `GetsItsObject`, `NothingLost`, `RefIsOwn` |

Why the bounds are enough: every hazard of the scheduler is between one drain
(or hook) and one nested drain, or between one frame and one unload, so two
frames and two actions already give each order of steps; a second mod is there
to show that one mod's unload leaves the other's work alone; two requests give
an unload that starts while another was just completed. `RestartAll` has three
objects for two running mods, so the second mod of the restart is not started
again: main.lua of one restarted mod is the case the property needs. Three tool
calls give a batch in which one request is given up between two others while a
third is queued. With one event a frame, two requests already need two frames.
Two reloads give the overwritten handshake. Two functions and two slots with
three registrations give a shared slot, a reused one and a full table. In
`NewObjects` the second object takes the slot of the first, a callback inside a
callback is two frames, and two references are the fewest in which one that was
given back is given out again; `Chain <- MCChain` with `Classes <- MCClasses`
gives walks of two levels (6 million states, about five minutes), and the proofs
cover chains of any length. All
`Max...` constants cap counters that grow for ever. `CHECK_DEADLOCK FALSE` is in
every cfg because the bounds stop the system when nothing more may be asked and
nothing runs.

### Runs that refute what a comment or a document says

| run | source | what happens |
| --- | --- | --- |
| `BugStoreLockOrder` | `ModManagerStore.cpp` 782 | `clear_widget_state` runs under the store's mutex, `submit` takes the two in the opposite order |
| `BugNotifyTwice` | `LuaMod.cpp` 4510 | a callback that returned true is called for the next object of its batch |

Other promises of comments and documents are stated in the modules and refuted
in the same way; they have no cfg of their own. Each is found by TLC with these
constants and `CHECK_DEADLOCK FALSE`:

| property | module, constants | source | what happens |
| --- | --- | --- | --- |
| `LoopContinues` | `MCDelayedActions`, `Spec`; one mod, `TimedMethod = "EngineTick"`, `Delays = {1}`, `MaxSimple = 0`, `MaxDelayed = MaxHandles = MaxNesting = 2` | `LuaMod.cpp` 4663 | a nested drain shifts the indexes the outer one kept; a loop is dropped or stays Executing |
| `OnlyUnloaderErases` | `MCModUnload`, `Spec`; one mod, entries `{"hook"}`, no calls, one uninstall, no nesting | `LuaMod.cpp` 347 (comment at 6834) | the flags are read in the order they are written |
| `PostHookWaitedFor` | the same | 386 (comment at 391) | the post hook is counted after it tested the flags |
| `HookDataValid` | the same | 208 | a callback on its way in reads data the unload freed |
| `DrainWaitBounded` | `MCModUnload`, `LiveSpec`; one mod, entries `{"drain"}`, both calls, two requests | 6884 | the atomic wait has no time limit |
| `RestartIsQueued` | `MCEventLoop`, `Spec`; two names, `Ops = {"restart"}`, one request, one key press, no reload | `UE4SSProgram.cpp` 2062 (`modmanagement.md` 7) | a restart asked for by a keybind callback is not queued: the callback goes on in a replaced mod |
| `HookThreadAnchored` | `MCNewObjectNotify`, `Spec`; as in `NewObjects.cfg` with one slot and `MaxRefs = 4` | `LuaMod.cpp` 7710 (comment at 889) | a cancellation releases the one reference to a hook thread that is still used |
| `ReferenceHolds` | the same | 7698 (comment at 7673) | after a callback, `callback_data` refers to another element or to none |
| `TrampolineLives` | `MCNativeHooks`, as in `NativeHooks.cfg` with `MaxRegs = 1` | `NativeHook.cpp` 74 | a call jumps to a trampoline that was freed while its callbacks ran |

The passing properties are stated so that they hold in spite of these:
`TeardownAlone`, `ClosedStateUntouched` and `NothingEntersClosed` except the
post callback (`InPostCallback`), the safety properties except a state whose
wait expired (`forced`), `StartAlone` is about requests that raise the
transition and leaves out event callbacks, and `LoopKeepsItsPlace` excepts a
retirement whose indexes no longer hold. In `EventLoop` the exceptions are a
change seen before the loop finished with the last one (`early`: `Sync.cpp` 20
then overwrites a request), a callback of the same key press that replaced a
mod (`meddled`), a debugger event that ran before its flag was raised
(`RunReturns`), and a poll thread that waits for a loop that has ended
(`LoopEnds`). In `ModManagerStore` they are the lock cycle, a mod whose main.lua
an edit ran into (`crossed`), and an edit whose value Lua changes, which no echo
ends (`Unanswered`). In `NativeHooks` they are the moment before `*id_holder` is
set, and a slot that was registered and removed at the same time (`raced`). In
`NewObjectNotify` they are the notifications that an unload cleared, since it
clears those of all mods (`LuaMod.cpp` 6901), or an error skipped, since one TRY is
around the whole walk (7662) (`excused`); an object without a serial number in a
batch (`GetsItsObject`); and, for the references, a mod whose callback returned
true twice or whose element moved under `callback_data` (`spoiled`).

The models contain further behaviours that differ from what the sources say,
and no run is kept for them: an action cancelled after a drain collected it
still runs once (`LuaMod.cpp` 4637); a one-shot reset in its own callback is
erased (4705); the retriggerable call restarts another mod's timer (5269); a
transition that ends between a pre and a post hook leaves the post hook alone
(322); event callbacks do not test the transition (7468); start by path and
auto-reload raise no transition around main.lua (`UE4SSProgram.cpp` 2203, 1355);
the join of the async thread may wait for a callback that waits for the
event-queue mutex (`LuaMod.cpp` 6810); and a call that enters a detour just
before it is removed returns 0 and never calls the function (`NativeHook.cpp`
54).

## 4. Fairness

`DelayedActions`: the engine keeps calling both hooks when the game thread is
between drains (strong, since a nested call does not count), a drain keeps
running, a callback returns in the end however many UFunctions it calls (the
returns are strongly fair because each nested drain disables them), and the
event loop gets on with an unload. The engine's own loop and the absence of
any blocking in the drain code justify this; a callback that never returns is
outside it.

`ModUnload`: the game thread's and the event loop's own steps are weakly fair.
A drain's list is finite, so the last entry of a mod returns in the end. A return is strongly fair at each depth of the stack. A mutex is granted in the
end (strong), which a Windows or pthread mutex does in practice. `DepthChanged`
is strongly fair: the waiter wakes if the counter keeps changing, since drains
return at once during a transition and the counter is zero most of a frame.
Under this fairness `UninstallCompletes` holds as long as no callback waits
for the event queue; `DrainWaitBounded` shows what one that does causes, under
the same fairness.

`McpQueue`: a waiter that may look is scheduled, the game thread goes on with a
batch it took, and `stop` goes on once called. Evaluated code may run for ever
and the engine may stop ticking, so `StoreResult` and `TakeBatch` are not fair,
and neither is the clock: `CallsEnd` holds with a game thread that is stuck.

`EventLoop`: the loop, the poll thread and a thread inside `queue_event` go on
while they can (weak); the queue's mutex, which the loop takes every frame, is
granted in the end (strong). The loop's own thread sleeps between frames, which
is when a mutex gets its turn.

`ModManagerStore`: GUI, game thread and event loop go on while they can (weak);
a registration that waits for the widgets' mutex gets it between two rows
(strong). `NativeHooks` and `NewObjectNotify` have no liveness property: an entry
into a hook promises nothing to anybody else, and that drains go on is
`DelayedActions`' matter.

## 5. Proofs

`ModUnload_proofs` proves, for any finite set of mods, any nesting depth and any
number of requests:

| theorem | statement |
| --- | --- |
| `InvariantHolds` | `Spec => []IInv` |
| `TypeCorrect` | `Spec => []TypeOK` |
| `TeardownIsAlone` | `Spec => []TeardownAlone` |
| `ClosedIsUntouched` | `Spec => []ClosedStateUntouched` |
| `StartIsAlone` | `Spec => []StartAlone` |
| `NothingEntersAClosedState` | `Spec => NothingEntersClosed` |

The other modules' theorems have the same form, each in a module of its own:

| module | theorems |
| --- | --- |
| `DelayedActions_proofs` | `InvHolds` (`IInv`), `TypesHold` (`TypeOK`), `OneActionHolds`, `CollectedOnceHolds`, `GoneModSilentHolds`, `UniqueHandleHolds` (`UniqueLiveHandle`), `CancelIsFinalHolds` |
| `DelayedActionsRun_proofs` | `AccountedHolds`, `SimpleRunsOnceHolds`, `LoopKeepsItsPlaceHolds`, `ServiceHolds` (`Spec => ActionServiceSpec`) |
| `McpQueue_proofs` | `InvHolds` (`IInv`), `NoRequestLostHolds`, `OrderKeptHolds`, `Refines` (`Spec => ServiceSpec`) |
| `EventLoop_proofs` | `InvHolds` (`IInv`), `ServedInOrderHolds`, `CallbackAloneHolds`, `CallsAreOpenHolds` |
| `ModManagerStore_proofs` | `InvHolds` (`IInv`, which has `EditsInOrder`), `MirrorAgreesHolds` |
| `NativeHooks_proofs` | `InvHolds` (`IInv`), `OneDetourHolds`, `EachStillCalledHolds`, `CallFitsHolds`, `NoneLeftHolds` |
| `NewObjectNotify_proofs` | `InvHolds` (`IInv`), `OncePerConstructionHolds`, `NothingLostHolds`, `GetsItsObjectHolds`, `RefsGoodHolds`, `RefIsOwnHolds` |

The only assumptions are the named ones on the constants (`ConstantsAssumption`:
the mods are finite, the choices are subsets of their alphabets, the bounds are
natural numbers; `ValuesAssumption` and `NativeAssumption`: bounds are natural
numbers and the special values are no ordinary ones).

### `ModUnload`

None of the three safety properties is inductive: whether a drain may be in a
closed state depends on what the unload saw of the counters long before. `IInv`
adds what each step of the unload has established:

- `FrameShape`: a frame is one the code can push (a drain names a mod only in
  Lua, a batch exists only while it runs);
- `DepthExact`, `InFlightExact`, `TransitionsExact`: each counter equals the
  number of frames (or of nested transitions) it counts, so "the count was
  zero" means "no such frame";
- `DrainsOver`: once the unload saw depth zero, every later drain is idle, since
  the transition makes each phase return at its test. It carries from the first
  mod of a restart to the last;
- the clauses of `GoodFrame`: the actions mutex has one holder; a pre hook on its
  way in will find the flag once the hooks are flagged; none is inside once the
  wait for hooks saw zero; and no frame has a closed mod in its batch;
- `LoopState`, `ModState`: what the event loop has done at each step, and what a
  closed or unborn mod cannot have.

The counting lemmas (`CountAt` and those about pushing, replacing and popping
the top frame) turn a step on the top of the stack into a step of a cardinality;
every action is then one of: it pushes a frame, replaces the top, pops it, or
leaves the stack alone. The proof that `Next` preserves `IInv` has one step per
action.

`NothingEntersClosed` also covers the unloads whose wait expired, which most
clauses of `IInv` leave out: a drain may then still hold actions of the mod that
was closed under it. `EntryInv` is what keeps it out: a closed mod's token is
set, so simple and delayed actions are skipped; notify callbacks do not look at
the token, but their list is held under the actions mutex, which closing the
state needs; and no list names a mod that never ran.

### `DelayedActions`

`GoneModSilent` fails as an induction hypothesis: the unload erases four vectors,
and a drain could bring an action back from its own lists. `IInv` has four parts:

- `Shape`: where an action may be. The vectors hold actions of mods that are not
  closed, a drain's private list and its deferred actions only those of mods
  whose erasing has not begun (`erasing` is reached at depth zero, and a
  transition keeps a new drain from taking anything);
- `Bounded`: how many actions there can be;
- `Nesting`: the outer drain's callback has set the executing flag, so an inner
  drain calls nothing and collects nothing, and no third one can be entered. Two
  drains is the most, whatever `MaxNesting` is, which also says that the bound 2
  of the runs leaves nothing out;
- `Distinct`: no two delayed actions are one or live under one handle.

The proof sorts the steps by what they do to the delayed actions: nothing, revise
some in place, leave some out, gain a new one, or merge the two vectors. Each
of the five keeps `Distinct` and, with `CancelIsFinal`, never revives an action;
lemmas about `InOrder` and `Kept` carry the ones that leave some out.

That nothing is lost needs to know where what is held came from.
`DelayedActionsRun_proofs` adds two invariants to `IInv`:

- `Origins`: every delayed action, and every entry a drain collected, is of the
  mod and of the kind it was created with;
- `Accounted`: the lists that hold immediate actions (four queues, and what each
  drain has to run or has deferred) hold no id twice; what they hold did not
  run; and what did not run, of a mod that does not unload, is in one of them.

Each step does one of a few things to those lists, whatever drain takes it: it
joins one list to another (swap, put back, merge), moves a head (defer), drops a
head (call, skip), adds a new action, or scans them all (unload). One lemma for
each keeps the lists free of repeated ids (`Tidy`) and says what became of their
members (`AllIn`), and `Accounts` states what any step then owes. `SimpleRunsOnce`
follows, since an id that has a place in tidy lists has exactly one.

`ServiceHolds`, that the scheduler implements `ActionService`, uses the same
lemmas: a step of a drain leaves `AllIn` as it is (a stutter), takes one action out
of it (`Start` or `Drop`), or starts and ends a call. By `Nesting` only the
outermost drain is ever in a callback, so `calling` is the head of its list while the
executing flag is set and empty otherwise. A last invariant, `CallOrigin`, says that
the action in a call is of the mod it was created for: a drain's list names no
mod that is being erased, so the mod that closes is not the one in a call, and
a timer that is called cannot be waiting, because `Origins` knows its kind.

`LoopKeepsItsPlace` is about steps. A control call gives every queued action a
successor that is marked Executing only if it was, and removed only if it was or
is cancelled (`Controls`); a drain that collects marks Executing what its own
list then names; and one that retires finds, while `IndexesHold`, that an index
it holds is of the action it collected: by `Distinct` no other action can have
that id, so every other loop keeps its status and its drain, and a loop that was
collected is active or paused again, because `Origins` says it loops.

### The queues

`McpQueue`'s invariant says where each request is (`NoRequestLost`) and what its
flags say of its caller (`FlagsAgree`): a caller that was told it failed is
abandoned, so `StartEval`, which tests the flag, maps to `Begin` of an open
call. The refinement is then one step per action: the caller's returns map to
`Answer` and `GiveUp`, `StartEval` and `StoreResult` to `Begin` and `Finish`, the
rest to stuttering. `OrderKept` needs a second invariant: what has started, what is
left of the batch and the queue are, in this order, in the order of arrival.

`EventLoop`'s invariant is `SyncAgrees`: for each position of either side of the
handshake, the values the atomic may have. It carries `CallbackAlone`, and that
the loop is parked while the poll thread replaces a mod carries `CallsAreOpen`.
`ServedInOrder` is inductive with the types.

`ModManagerStore`'s invariant says what each thread's position promises about
the state it shares (`PlacesAgree`), above all that the actions mutex keeps a
push by the game thread and a registration of the same mod apart. It makes
`MirrorAgrees` inductive.

`NativeHooks`' invariant ties the two tables together: every entry in use, every
callback and every copy a call made refers to a registration whose slot it is
(`RegsAgree`), the dispatcher in use has its holder filled or is about to
(`HoldersFilled`), and a mod has the id of every slot with a callback of it
(`IdsKept`). `SlotsFit` is the one about time: as long as no registration and
removal overlapped in a slot, whoever is on the way to it is on the way for the
function it detours. `CallKnows` compares the removals a call has seen with those
of the slot (`epoch`), which is what makes `CallFits` inductive although slots
are reused.

### `NewObjectNotify`

`OncePerConstruction` needs to know where the calls that are still to come are.
`Fresh` says that what a frame or the queue has yet to call was never called, and
a frame's classes above are still ahead of it; `Apart` that no object is with two
frames, or with a frame and the queue, so a call made in one place cannot be due
in another. `Located` and `PendingGood` tie a notification's slot and serial
number to its object while that exists, which is what `GetsItsObject` and
`NothingLost` need when a slot is freed and reused.

`RefsGood` is a second invariant on top of `IInv`, for the mods that are not
`spoiled`: the free list is a chain of free entries without a branch
(`FreeListGood`), and every reference in use is its owner's (`OwnRefs`,
`OwnHooks`, `OwnReleases`), so `luaL_ref` gives none of them out again.
`Accounted` carries it over a cancellation: what a frame has yet to call or to
erase is registered or cancelled already. Entries of one mod never disturb
another mod's registry, which is why the proof goes mod by mod.

### Only model-checked

Every invariant and every action property of the passing runs is a theorem. What
TLC alone checks is liveness, which is outside the prover's reach:
`SimpleEventuallyRuns`, `UninstallCompletes`, `CallsEnd`, `DoneIsDelivered`,
`RequestsServed`, `ReloadHappens`, `LoopEnds`, `EditsReachLua` and `EchoLands`.

## 6. Not modelled, and the plan

Not modelled in the components that have a module:

- `UnregisterHook` from Lua (the erase path without an unload, an inner post
  hook that frees the data an outer one still reads); the contents of the callback
  containers other than `NotifyOnNewObject`'s;
- for `NotifyOnNewObject`, a new object at the address of a destroyed one, and a
  registration while a loading thread goes over the vector without the mutex;
- the start-up of the program, C++ mods, and its crash handling;
- the restart of the MCP server's HTTP part, and its tools that do not need the
  game thread;
- address resolution of native hooks and `uninstall_all` at the end of the
  program;
- schema parsing and search in the Mod Manager's tab; one mod's settings are one
  setting, since no step relates two settings of a mod.

What could come next: `LuaState`, the abstract promise "a Lua state is open, then
torn down by one thread, then closed", with `ModUnload` shown to implement it; the
start and stop of the GUI's render thread
(`UE4SSProgram.cpp` 1189 joins it under the mutex it may want); the signature
scanner as a pure module. The scanner (`SinglePassSigScanner.cpp`) splits the
image between threads and the code in `src/` only registers callbacks with it
(`Signatures.cpp`): who starts a scan, and with how many threads, is in a submodule
that is not part of the repository.

Left out for good: Lua bindings, parsers, generators, logging, settings, and
rendering: sequential conversions or pure output, listed as components with
the reason.
