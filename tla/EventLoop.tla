------------------------------ MODULE EventLoop ------------------------------
(***************************************************************************)
(* UE4SSProgram::update and the threads that wait for it                    *)
(* (UE4SS/src/UE4SSProgram.cpp, UE4SS/src/Sync.cpp, UE4SS/include/Sync.hpp, *)
(* UE4SS/include/FilesystemWatcher_Windows.cpp_impl).                       *)
(*                                                                         *)
(* The event loop runs queued events, keybind callbacks and, once a frame,  *)
(* parks for the file watcher's thread, which then reloads a mod in the     *)
(* loop's place.  The GUI and Lua on other threads put requests into the    *)
(* queue; Lua on the event loop itself (a keybind callback) has its         *)
(* requests executed at once.                                               *)
(*                                                                         *)
(* What an unload does inside is module ModUnload; here it is one step that *)
(* replaces or removes the LuaMod object of a mod.                          *)
(***************************************************************************)
EXTENDS Naturals, Sequences

CONSTANTS
  Names,        (* the Lua mods on disk                                      *)
  Ops,          (* the mod management functions Lua uses                     *)
  PerFrame,     (* max_events_executed_per_frame, 5 in the code              *)
  MaxRequests,  (* bound: requests that are queued                           *)
  MaxReloads,   (* bound: changes the file watcher sees                      *)
  MaxKeys,      (* bound: keys pressed                                       *)
  HotReload,    (* the program's own keybind                                 *)
  None

ASSUME ConstantsAssumption ==
  /\ PerFrame \in Nat \ {0}
  /\ MaxRequests \in Nat /\ MaxReloads \in Nat /\ MaxKeys \in Nat

VARIABLES
  processing,  (* m_processing_events                                        *)
  paused,      (* m_pause_events_processing                                  *)
  queue,       (* m_queued_events                                            *)
  asked,       (* events ever queued: numbers the next one                   *)
  served,      (* events executed                                            *)
  loopPc,      (* where update() is                                          *)
  frame,       (* num_events_executed                                        *)
  calls,       (* callbacks_to_call of Input::Handler::process_event         *)
  running,     (* the LuaMod whose keybind callback runs                     *)
  meddled,     (* history: a callback of this key press reloaded a mod       *)
  keys,        (* keys pressed so far                                        *)
  current,     (* m_mods: the generation of each mod's object, 0 for none    *)
  born,        (* objects made so far for each mod                           *)
  sync,        (* ThreadState::underlying                                    *)
  pollPc,      (* where the file watcher's thread is                         *)
  changed,     (* the mod whose directory it saw change                      *)
  reloads,     (* changes seen so far                                        *)
  stop,        (* m_stop_source                                              *)
  early,       (* history: it asked again before the loop took up its work   *)
  pc,          (* a thread that queues a request (bound: one at a time)      *)
  want,        (* the event it is queueing                                   *)
  busy,        (* DebuggingGUI::m_event_thread_busy                          *)
  replPending  (* LuaDebugger::m_repl_pending                                *)

queueVars == <<queue, asked, served>>
inputVars == <<calls, running, meddled, keys>>
modVars == <<current, born>>
pollVars == <<pollPc, changed, reloads, early>>
clientVars == <<pc, want>>
flagVars == <<busy, replPending>>
vars == <<processing, paused, queueVars, loopPc, frame, inputVars, modVars,
          sync, pollVars, stop, clientVars, flagVars>>

LoopPCs == {"start", "top", "events", "input", "calls", "callback", "sync",
            "wait", "asleep", "idle", "joining", "ended"}
PollPCs == {"poll", "asked", "asleep", "callback", "reload", "done", "stopped"}
SyncStates == {"Idle", "WaitForMain", "WaitForOther", "Complete"}

(* A LuaMod object: the mod and a number for each object made for it.       *)
Objects == [name : Names, gen : Nat]
IsCurrent(o) == current[o.name] = o.gen
Present == {n \in Names : current[n] # 0}
ObjectOf(n) == [name |-> n, gen |-> current[n]]

Targeted == {"restart", "uninstall"} \cap Ops   (* by id: RestartCurrentMod  *)
Named == {"restartNamed", "uninstallNamed", "start"} \cap Ops
Global == {"restartAll", "repl"}
Request ==
  [op : Targeted, arg : Objects] \cup [op : Named, arg : Names] \cup [op : Global, arg : {None}]
Event == [id : Nat, request : Request]

Init ==
  /\ processing = FALSE /\ paused = FALSE
  /\ queue = <<>> /\ asked = 0 /\ served = 0
  /\ loopPc = "start" /\ frame = 0
  /\ calls = {} /\ running = None /\ meddled = FALSE /\ keys = 0
  /\ current = [n \in Names |-> 1] /\ born = [n \in Names |-> 1]
  /\ sync = "Idle" /\ pollPc = "poll" /\ changed = None /\ reloads = 0
  /\ stop = FALSE /\ early = FALSE
  /\ pc = "idle" /\ want = None
  /\ busy = FALSE /\ replPending = FALSE

-----------------------------------------------------------------------------
(* The mods.  Reinstalling deletes the object and makes a new one; a        *)
(* restart of all mods makes one for each mod on disk.                      *)
Recreate(names) ==
  /\ born' = [n \in Names |-> IF n \in names THEN born[n] + 1 ELSE born[n]]
  /\ current' = [n \in Names |-> IF n \in names THEN born[n] + 1 ELSE current[n]]

Remove(n) == current' = [current EXCEPT ![n] = 0] /\ UNCHANGED born

Perform(request) ==
  LET op == request.op
      arg == request.arg
  IN CASE op = "restartAll" -> Recreate(Names)
       [] op = "restart" /\ IsCurrent(arg) -> Recreate({arg.name})
       [] op = "uninstall" /\ IsCurrent(arg) -> Remove(arg.name)
       [] op = "restartNamed" /\ current[arg] # 0 -> Recreate({arg})
       [] op = "uninstallNamed" /\ current[arg] # 0 -> Remove(arg)
       [] op = "start" /\ current[arg] = 0 -> Recreate({arg})
       [] OTHER -> UNCHANGED modVars

-----------------------------------------------------------------------------
(* queue_event on another thread: the running flag is tested first, the     *)
(* mutex of the queue is taken after that.  A request that meets a stopped  *)
(* loop is dropped without a word.                                          *)
MayAsk == pc = "idle" /\ asked < MaxRequests

AskLua(request) ==
  /\ MayAsk
  /\ pc' = "test" /\ want' = request
  /\ UNCHANGED <<processing, paused, queueVars, loopPc, frame, inputVars, modVars,
                 sync, pollVars, stop, flagVars>>

(* "Restart All Mods": the buttons are dead while an earlier one is served. *)
PressRestartAll ==
  /\ MayAsk /\ ~busy /\ processing
  /\ busy' = TRUE
  /\ pc' = "test"
  /\ want' = [op |-> "restartAll", arg |-> None]
  /\ UNCHANGED <<processing, paused, queueVars, loopPc, frame, inputVars, modVars,
                 sync, pollVars, stop, replPending>>

(* The debugger's "Run".                                                    *)
PressRun ==
  /\ MayAsk /\ ~replPending /\ processing
  /\ pc' = "test"
  /\ want' = [op |-> "repl", arg |-> None]
  /\ UNCHANGED <<processing, paused, queueVars, loopPc, frame, inputVars, modVars,
                 sync, pollVars, stop, flagVars>>

(* queue_event returns; the debugger then has its flag to raise.            *)
Returned ==
  /\ pc' = IF want.op = "repl" THEN "mark" ELSE "idle"
  /\ want' = None

TestProcessing ==
  /\ pc = "test" /\ processing
  /\ pc' = "lock"
  /\ UNCHANGED <<processing, paused, queueVars, loopPc, frame, inputVars, modVars, sync,
                 pollVars, stop, want, flagVars>>

DropRequest ==
  /\ pc = "test" /\ ~processing
  /\ Returned
  /\ UNCHANGED <<processing, paused, queueVars, loopPc, frame, inputVars, modVars, sync,
                 pollVars, stop, flagVars>>

(* The loop holds the mutex while events run.                               *)
QueueHeld == loopPc = "events"

QueueEvent ==
  /\ pc = "lock" /\ ~QueueHeld
  /\ queue' = Append(queue, [id |-> asked + 1, request |-> want])
  /\ asked' = asked + 1
  /\ Returned
  /\ UNCHANGED <<processing, paused, served, loopPc, frame, inputVars, modVars, sync, pollVars,
                 stop, flagVars>>

(* m_repl_pending = true comes after queue_event returned.                  *)
MarkPending ==
  /\ pc = "mark"
  /\ replPending' = TRUE
  /\ pc' = "idle"
  /\ UNCHANGED <<processing, paused, queueVars, loopPc, frame, inputVars, modVars,
                 sync, pollVars, stop, want, busy>>

-----------------------------------------------------------------------------
(* update() on the event loop.                                              *)
StartLoop ==
  /\ loopPc = "start"
  /\ processing' = TRUE /\ loopPc' = "top"
  /\ UNCHANGED <<paused, queueVars, frame, inputVars, modVars, sync, pollVars,
                 stop, clientVars, flagVars>>

(* A paused loop spins here (nothing sets unreal_is_shutting_down).         *)
BeginFrame ==
  /\ loopPc = "top" /\ processing /\ ~paused
  /\ loopPc' = IF queue # <<>> THEN "events" ELSE "input"
  /\ UNCHANGED <<processing, paused, queueVars, frame, inputVars, modVars, sync, pollVars,
                 stop, clientVars, flagVars>>

(* The event, and what the button that queued it does at its end.           *)
Execute(request) ==
  /\ Perform(request)
  /\ busy' = (busy /\ request.op # "restartAll")
  /\ replPending' = (replPending /\ request.op # "repl")

Take(event, rest) ==
  /\ Execute(event.request)
  /\ queue' = rest /\ served' = served + 1 /\ frame' = frame + 1
  /\ UNCHANGED <<processing, paused, asked, loopPc, inputVars, sync, pollVars, stop,
                 clientVars>>

(* Mutant: the limit of a frame is gone.                                    *)
RunEventUnlimited == loopPc = "events" /\ queue # <<>> /\ Take(Head(queue), Tail(queue))

(* Mutant: the newest event is taken first.                                 *)
RunNewestEvent ==
  /\ loopPc = "events" /\ queue # <<>> /\ frame < PerFrame
  /\ Take(queue[Len(queue)], SubSeq(queue, 1, Len(queue) - 1))

(* One event of remove_if's pass, which erases what it executed.            *)
RunEvent ==
  /\ loopPc = "events" /\ queue # <<>> /\ frame < PerFrame
  /\ Take(Head(queue), Tail(queue))

LeaveEvents ==
  /\ loopPc = "events" /\ (queue = <<>> \/ frame = PerFrame)
  /\ loopPc' = "input" /\ frame' = 0
  /\ UNCHANGED <<processing, paused, queueVars, inputVars, modVars, sync,
                 pollVars, stop, clientVars, flagVars>>

(* Handler::process_event copies the callbacks of the key under its mutex   *)
(* and calls them without it.                                               *)
NoKey ==
  /\ loopPc = "input"
  /\ loopPc' = "sync"
  /\ UNCHANGED <<processing, paused, queueVars, frame, inputVars, modVars, sync,
                 pollVars, stop, clientVars, flagVars>>

PressKey(callbacks) ==
  /\ loopPc = "input" /\ keys < MaxKeys
  /\ keys' = keys + 1 /\ calls' = callbacks
  /\ loopPc' = "calls"
  /\ UNCHANGED <<processing, paused, queueVars, frame, running, meddled, modVars, sync,
                 pollVars, stop, clientVars, flagVars>>

CallHotReload ==
  /\ loopPc = "calls" /\ HotReload \in calls
  /\ calls' = calls \ {HotReload} /\ meddled' = TRUE
  /\ Recreate(Names)
  /\ UNCHANGED <<processing, paused, queueVars, loopPc, frame, running, keys, sync,
                 pollVars, stop, clientVars, flagVars>>

CallMod(o) ==
  /\ loopPc = "calls" /\ o \in calls \ {HotReload}
  /\ calls' = calls \ {o} /\ running' = o
  /\ loopPc' = "callback"
  /\ UNCHANGED <<processing, paused, queueVars, frame, meddled, keys, modVars, sync,
                 pollVars, stop, clientVars, flagVars>>

(* The thread is the event loop's, so the request is executed here and now. *)
(* Bound: one request for a key press.                                      *)
CallbackAsks(request) ==
  /\ loopPc = "callback" /\ ~meddled
  /\ Perform(request)
  /\ meddled' = TRUE
  /\ UNCHANGED <<processing, paused, queueVars, loopPc, frame, calls, running, keys,
                 sync, pollVars, stop, clientVars, flagVars>>

CallbackReturns ==
  /\ loopPc = "callback"
  /\ loopPc' = "calls" /\ running' = None
  /\ UNCHANGED <<processing, paused, queueVars, frame, calls, meddled, keys, modVars,
                 sync, pollVars, stop, clientVars, flagVars>>

CallsOver ==
  /\ loopPc = "calls" /\ calls = {}
  /\ loopPc' = "sync" /\ meddled' = FALSE
  /\ UNCHANGED <<processing, paused, queueVars, frame, calls, running, keys, modVars, sync,
                 pollVars, stop, clientVars, flagVars>>

(* process_sync_request, with auto-reload on.                               *)
NothingToSync ==
  /\ loopPc = "sync" /\ sync # "WaitForMain"
  /\ loopPc' = "top"
  /\ UNCHANGED <<processing, paused, queueVars, frame, inputVars, modVars, sync,
                 pollVars, stop, clientVars, flagVars>>

(* notify_one wakes the other thread if it sleeps; it then compares again.  *)
WakePoller == pollPc' = IF pollPc = "asleep" THEN "asked" ELSE pollPc

(* Mutant: the poll thread is not notified.                                 *)
ParkSilently ==
  /\ loopPc = "sync" /\ sync = "WaitForMain"
  /\ sync' = "WaitForOther" /\ loopPc' = "wait"
  /\ UNCHANGED <<processing, paused, queueVars, frame, inputVars, modVars, pollVars, stop,
                 clientVars, flagVars>>

(* Mutant: the loop lets the poll thread go and does not wait for it.       *)
ParkWithoutWaiting ==
  /\ loopPc = "sync" /\ sync = "WaitForMain"
  /\ sync' = "WaitForOther" /\ loopPc' = "idle"
  /\ WakePoller
  /\ UNCHANGED <<processing, paused, queueVars, frame, inputVars, modVars, changed,
                 reloads, early, stop, clientVars, flagVars>>

Park ==
  /\ loopPc = "sync" /\ sync = "WaitForMain"
  /\ sync' = "WaitForOther" /\ loopPc' = "wait"
  /\ WakePoller
  /\ UNCHANGED <<processing, paused, queueVars, frame, inputVars, modVars, changed,
                 reloads, early, stop, clientVars, flagVars>>

WaitForOther ==
  /\ loopPc = "wait"
  /\ loopPc' = IF sync = "WaitForOther" THEN "asleep" ELSE "idle"
  /\ UNCHANGED <<processing, paused, queueVars, frame, inputVars, modVars, sync,
                 pollVars, stop, clientVars, flagVars>>

(* Whatever the value is by now, Idle replaces it.                          *)
StoreIdle ==
  /\ loopPc = "idle"
  /\ sync' = "Idle" /\ loopPc' = "top"
  /\ UNCHANGED <<processing, paused, queueVars, frame, inputVars, modVars, pollVars,
                 stop, clientVars, flagVars>>

(* The loop is left and the watcher's destructor joins its thread.          *)
LeaveLoop ==
  /\ loopPc = "top" /\ ~processing
  /\ loopPc' = "joining" /\ stop' = TRUE
  /\ UNCHANGED <<processing, paused, queueVars, frame, inputVars, modVars, sync,
                 pollVars, clientVars, flagVars>>

Joined ==
  /\ loopPc = "joining" /\ pollPc = "stopped"
  /\ loopPc' = "ended"
  /\ UNCHANGED <<processing, paused, queueVars, frame, inputVars, modVars, sync,
                 pollVars, stop, clientVars, flagVars>>

-----------------------------------------------------------------------------
(* FilesystemWatcher::poll and its callback.  A change of a directory       *)
(* constructs the ScopedThreadSynchronizer.                                 *)
Ask(n) ==
  /\ loopPc # "start" /\ pollPc = "poll" /\ ~stop /\ reloads < MaxReloads
  /\ reloads' = reloads + 1 /\ changed' = n
  /\ sync' = "WaitForMain" /\ pollPc' = "asked"
  /\ early' = (early \/ loopPc \in {"wait", "asleep", "idle"})
  /\ UNCHANGED <<processing, paused, queueVars, loopPc, frame, inputVars, modVars,
                 stop, clientVars, flagVars>>

PollerSteps(next) ==
  /\ pollPc' = next
  /\ UNCHANGED <<processing, queueVars, loopPc, frame, inputVars, sync, changed,
                 reloads, early, stop, clientVars, flagVars>>

(* Mutant: the thread asks and goes on.                                     *)
WaitForMainNot ==
  /\ pollPc = "asked"
  /\ PollerSteps("callback") /\ UNCHANGED <<paused, modVars>>

WaitForMain ==
  /\ pollPc = "asked"
  /\ PollerSteps(IF sync = "WaitForMain" THEN "asleep" ELSE "callback")
  /\ UNCHANGED <<paused, modVars>>

(* The directory is of no mod that runs.                                    *)
NothingToReload ==
  /\ pollPc = "callback"
  /\ current[changed] = 0
  /\ PollerSteps("done") /\ UNCHANGED <<paused, modVars>>

PauseAndUninstall ==
  /\ pollPc = "callback" /\ current[changed] # 0
  /\ PollerSteps("reload") /\ paused' = TRUE /\ UNCHANGED modVars

(* Mutant: a reload that ends leaves event processing paused.               *)
ReplaceStaysPaused ==
  /\ pollPc = "reload"
  /\ PollerSteps("done") /\ Recreate({changed}) /\ UNCHANGED paused

Replace ==
  /\ pollPc = "reload"
  /\ PollerSteps("done") /\ Recreate({changed}) /\ paused' = FALSE

(* Mutant: Complete is stored and nobody is notified, as sync_and_execute does. *)
ReleaseSilently ==
  /\ pollPc = "done"
  /\ sync' = "Complete" /\ pollPc' = "poll" /\ changed' = None
  /\ UNCHANGED <<processing, paused, queueVars, loopPc, frame, inputVars, modVars,
                 reloads, early, stop, clientVars, flagVars>>

(* ~ScopedThreadSynchronizer: store Complete and notify.                    *)
Release ==
  /\ pollPc = "done"
  /\ sync' = "Complete" /\ pollPc' = "poll" /\ changed' = None
  /\ loopPc' = IF loopPc = "asleep" THEN "wait" ELSE loopPc
  /\ UNCHANGED <<processing, paused, queueVars, frame, inputVars, modVars, reloads, early,
                 stop, clientVars, flagVars>>

StopPolling ==
  /\ pollPc = "poll" /\ stop
  /\ PollerSteps("stopped") /\ UNCHANGED <<paused, modVars>>

-----------------------------------------------------------------------------
(* The program's destructor.                                                *)
EndProgram ==
  /\ processing
  /\ processing' = FALSE
  /\ UNCHANGED <<paused, queueVars, loopPc, frame, inputVars, modVars, sync, pollVars, stop,
                 clientVars, flagVars>>

-----------------------------------------------------------------------------
(* What Lua may ask for: itself or another mod.                             *)
LuaRequest ==
  [op : Targeted, arg : {ObjectOf(n) : n \in Present}] \cup [op : Named, arg : Names]

Callbacks == {HotReload} \cup {ObjectOf(n) : n \in Present}

EventStep == RunEvent \/ LeaveEvents
FrameStep == StartLoop \/ BeginFrame \/ EventStep \/ NoKey
CallStep == CallHotReload \/ (\E o \in calls : CallMod(o)) \/ CallbackReturns \/ CallsOver
SyncStep == NothingToSync \/ Park \/ WaitForOther \/ StoreIdle
LoopStep == FrameStep \/ CallStep \/ SyncStep \/ LeaveLoop \/ Joined
PollStep ==
  WaitForMain \/ NothingToReload \/ PauseAndUninstall \/ Replace \/ Release \/ StopPolling

Next ==
  \/ \E request \in LuaRequest : AskLua(request) \/ CallbackAsks(request)
  \/ PressRestartAll \/ PressRun \/ MarkPending
  \/ TestProcessing \/ DropRequest \/ QueueEvent
  \/ \E callbacks \in SUBSET Callbacks \ {{}} : PressKey(callbacks)
  \/ LoopStep \/ PollStep
  \/ \E n \in Names : Ask(n)
  \/ EndProgram

Spec == Init /\ [][Next]_vars

(* The two threads run; a request gets the queue's mutex in the end.        *)
LiveSpec ==
  /\ Spec
  /\ WF_vars(LoopStep) /\ WF_vars(PollStep)
  /\ WF_vars(TestProcessing \/ DropRequest \/ MarkPending) /\ SF_vars(QueueEvent)

-----------------------------------------------------------------------------
TypeOK ==
  /\ processing \in BOOLEAN /\ paused \in BOOLEAN
  /\ queue \in Seq(Event) /\ asked \in Nat /\ served \in Nat
  /\ loopPc \in LoopPCs /\ frame \in 0..PerFrame
  /\ calls \subseteq Objects \cup {HotReload} /\ running \in Objects \cup {None}
  /\ meddled \in BOOLEAN /\ keys \in 0..MaxKeys
  /\ current \in [Names -> Nat] /\ born \in [Names -> Nat]
  /\ sync \in SyncStates /\ pollPc \in PollPCs /\ changed \in Names \cup {None}
  /\ reloads \in 0..MaxReloads /\ stop \in BOOLEAN /\ early \in BOOLEAN
  /\ pc \in {"idle", "test", "lock", "mark"}
  /\ want \in Request \cup {None}
  /\ busy \in BOOLEAN /\ replPending \in BOOLEAN

(* Requests are executed in the order they were queued, none lost and none  *)
(* twice, however they spread over frames by the limit of a frame.          *)
ServedInOrder ==
  /\ served + Len(queue) = asked
  /\ \A i \in DOMAIN queue : queue[i].id = served + i

(* The watcher's callback replaces a mod only while the event loop is       *)
(* parked: no event, no callback and no other reload is under way.  Known   *)
(* exception: a change seen before the loop took up its work after the last *)
(* one (`early'), which four seconds between two changes make unlikely and  *)
(* nothing rules out.                                                       *)
CallbackAlone ==
  (pollPc \in {"callback", "reload", "done"} /\ ~early) => loopPc \in {"wait", "asleep"}

(* A keybind callback that is called, or is yet to be called in its copy of *)
(* the list, belongs to a mod that was not replaced since: unless a         *)
(* callback of the same key press did that.                                 *)
CallsAreOpen ==
  (~meddled /\ ~early /\ loopPc \in {"calls", "callback"}) =>
    \A o \in (calls \cup {running}) \ {HotReload, None} : IsCurrent(o)

(* What each side of the handshake knows from where it is: the              *)
(* strengthening that makes CallbackAlone inductive.                        *)
SyncAgrees == ~early =>
  /\ pollPc \in {"poll", "stopped"} => sync \in {"Idle", "Complete"}
  /\ pollPc = "asked" =>
       (sync = "WaitForMain" \/ (sync = "WaitForOther" /\ loopPc \in {"wait", "asleep"}))
  /\ pollPc = "asleep" => sync = "WaitForMain"
  /\ pollPc \in {"callback", "reload", "done"} => sync = "WaitForOther"
  /\ loopPc = "wait" => sync \in {"WaitForOther", "Complete"}
  /\ loopPc = "asleep" => sync = "WaitForOther"
  /\ loopPc = "idle" => sync = "Complete"

RunningOnlyInCallback == loopPc # "callback" => running = None

WantIsKnown == pc \in {"test", "lock"} => want \in Request

IInv ==
  /\ TypeOK /\ ServedInOrder /\ WantIsKnown
  /\ SyncAgrees /\ CallbackAlone
  /\ RunningOnlyInCallback /\ CallsAreOpen

(* What docs/lua-api/global-functions/modmanagement.md says: a restart or   *)
(* uninstall a callback asks for waits for the next update cycle.           *)
RestartIsQueued == (loopPc = "callback" /\ ~early) => IsCurrent(running)

(* An accepted request is executed, unless the program ends: no pause, no   *)
(* park and no limit holds it up for ever.                                  *)
RequestsServed ==
  \A k \in 1..MaxRequests : (asked >= k) ~> (served >= k \/ ~processing)

(* The debugger's button comes back if its event still was to run when the  *)
(* flag was raised.  (When it ran before that, the button is dead for good.)*)
RunReturns ==
  (replPending /\ \E i \in DOMAIN queue : queue[i].request.op = "repl") ~> (~replPending \/ ~processing)

(* The watcher's thread gets its turn, or the loop is being left.           *)
ReloadHappens ==
  pollPc = "asked" ~> (pollPc \in {"callback", "poll"} \/ early \/ ~processing)

(* The event loop comes to its end, unless the watcher's thread waits for a *)
(* turn it will not get.                                                    *)
LoopEnds ==
  (~processing /\ loopPc # "start") ~>
    (loopPc = "ended" \/ (loopPc = "joining" /\ pollPc = "asleep"))
=============================================================================
