--------------------------- MODULE DelayedActions ---------------------------
(***************************************************************************)
(* The game-thread action scheduler of LuaMod (UE4SS/src/Mod/LuaMod.cpp).   *)
(*                                                                         *)
(* Lua mods queue callbacks for the game thread: at once                   *)
(* (ExecuteInGameThread), after a delay, or in a loop.  The game thread    *)
(* drains the queues from two engine hooks, engine_tick_hook and           *)
(* process_event_hook.  A drain takes m_thread_actions_mutex only around   *)
(* its queue operations and runs the actions with no lock held, so while   *)
(* one runs                                                                *)
(*   - any thread of any mod may call the scheduler's Lua functions, and   *)
(*   - the callback may call a UFunction, which enters process_event_hook  *)
(*     again: drains nest, and `stack' is the game thread's stack of them. *)
(* A drain ends with the NotifyOnNewObject callbacks that other threads    *)
(* left for it.  These run with the mutex held and without the flag that   *)
(* says an action is executing, so a drain nested in one calls actions.    *)
(* Each critical section of the mutex is one action of this module, but    *)
(* for a batch of notifications, which is two with its Lua in between.     *)
(*                                                                         *)
(* Time is relative: `left' is execute_at - now of a running timer, the    *)
(* time_remaining_ms of a paused one, frames_remaining of a frame counter. *)
(***************************************************************************)
EXTENDS Integers, SequencesExt

CONSTANTS
  Mods,         (* the Lua mods                                              *)
  TimedMethod,  (* the hook that drains time-based actions:
                   m_default_game_thread_method after its fallback           *)
  Delays,       (* the delays a mod asks for, in ticks or frames             *)
  MaxSimple,    (* bound: actions ever given to ExecuteInGameThread          *)
  MaxDelayed,   (* bound: delayed actions ever created                       *)
  Passed,       (* the integers mods pass as handles, issued or not          *)
  MaxHandles,   (* bound: where the handle counter stops                     *)
  MaxNesting,   (* bound: nested drains; 1 is a game whose callbacks call no
                   UFunction                                                 *)
  Notifies      (* whether other threads construct objects mods wait for     *)

EngineTick == "EngineTick"
ProcessEvent == "ProcessEvent"
Methods == {EngineTick, ProcessEvent}

ASSUME BoundsAssumption ==
  /\ TimedMethod \in Methods
  /\ Delays \subseteq Nat
  /\ Passed \subseteq 1..MaxHandles
  /\ MaxSimple \in Nat /\ MaxDelayed \in Nat /\ MaxHandles \in Nat
  /\ MaxNesting \in Nat \ {0} /\ Notifies \in BOOLEAN

VARIABLES
  simple,          (* m_engine_tick_actions and m_game_thread_actions        *)
  simplePending,   (* their m_pending_... queues                             *)
  delayed,         (* m_delayed_game_thread_actions                          *)
  delayedPending,  (* m_pending_delayed_game_thread_actions                  *)
  nextHandle,      (* m_next_delayed_action_handle                           *)
  making,          (* per mod: what its MakeActionHandle call has read of it,
                      or 0                                                   *)
  pendingNotify,   (* m_pending_notify_on_new_object_callbacks is not empty  *)
  depth,           (* m_is_processing_actions                                *)
  executing,       (* m_is_currently_executing_game_action                   *)
  stack,           (* the drains on the game thread's call stack             *)
  transitioning,   (* mods_are_transitioning()                               *)
  unload,          (* per mod: the progress of its uninstall                 *)
  born,            (* history: what each action was created as               *)
  ran,             (* history: the immediate actions that have been called    *)
  cancelled,       (* history: the actions a successful Cancel named         *)
  stray            (* history: the handles a mod used before the counter came
                      to them, and those the counter was set back behind     *)

queues == <<simple, simplePending, delayed, delayedPending, pendingNotify>>
handles == <<nextHandle, making, stray>>
env == <<transitioning, unload>>
history == <<born, ran, cancelled>>
vars == <<queues, handles, depth, executing, stack, env, history>>

-----------------------------------------------------------------------------
(* Queued work.  `id' stands for the reference to the Lua function.         *)

Ids == 1..(MaxSimple + MaxDelayed)

SimpleAction == [id : Ids, mod : Mods]

Status == {"Active", "Paused", "Executing", "PendingRemoval"}

DelayedAction ==
  [id : Ids, mod : Mods, handle : 1..MaxHandles, method : Methods,
   status : Status, delay : Nat, left : Nat, frames : BOOLEAN,
   looping : BOOLEAN, pauseAfter : BOOLEAN]

Removed(a) == a.status = "PendingRemoval"

(* A drain: its hook, where it stands, the work it has still to run, the    *)
(* simple actions it puts back, and the delayed actions it marked Executing *)
(* with the index each one had then.                                        *)
ReadyEntry == [index : Ids, id : Ids, mod : Mods]

DrainPC == {"simple", "takeSimple", "runSimple", "inSimple",
            "delayed", "takeReady", "runDelayed", "inDelayed",
            "notify", "takeNotify", "inNotify", "leave", "merge"}

Drain == [method : Methods, pc : DrainPC,
          todo : Seq(SimpleAction \cup ReadyEntry),
          deferred : Seq(SimpleAction), ready : Seq(ReadyEntry)]

Top == Last(stack)
At(pc) == stack # <<>> /\ Top.pc = pc
InCallback == At("inSimple") \/ At("inDelayed") \/ At("inNotify")
SetTop(d) == stack' = [stack EXCEPT ![Len(stack)] = d]

Unloading(m) == unload[m] # "loaded"     \* the mod's unload token is set
Gone(m) == unload[m] = "gone"            \* its Lua state is closed

(* A batch of notifications holds m_thread_actions_mutex, which is          *)
(* recursive: until it ends only the Lua of the game thread gets on.        *)
MutexHeld == \E k \in DOMAIN stack : stack[k].pc = "inNotify"
MayCall(m) == ~Gone(m) /\ (MutexHeld => InCallback)

-----------------------------------------------------------------------------
(* The positions of a vector that a scan keeps, in their order, and what is *)
(* left at them (erase(remove_if(...))).  The k-th position is defined by   *)
(* counting, which the proofs can reason about; SelectSeq they cannot.      *)

InOrder(keep) ==
  [k \in 1..Cardinality(keep) |->
     CHOOSE i \in keep : Cardinality({j \in keep : j <= i}) = k]

Kept(s, keep) == [k \in DOMAIN InOrder(keep) |-> s[InOrder(keep)[k]]]

-----------------------------------------------------------------------------
(* Creating actions.  A mod queues into the pending vector while any drain  *)
(* is in flight.                                                            *)

Enqueue(main, pending, a) ==
  IF depth # 0 THEN <<main, Append(pending, a)>> ELSE <<Append(main, a), pending>>

NewId == Len(born) + 1

CreatedSoFar(kinds) == Cardinality({i \in DOMAIN born : born[i].kind \in kinds})

ExecuteInGameThread(m, method) ==
  /\ MayCall(m) /\ CreatedSoFar({"simple"}) < MaxSimple
  /\ LET q == Enqueue(simple[method], simplePending[method], [id |-> NewId, mod |-> m])
     IN /\ simple' = [simple EXCEPT ![method] = q[1]]
        /\ simplePending' = [simplePending EXCEPT ![method] = q[2]]
  /\ born' = Append(born, [mod |-> m, kind |-> "simple"])
  /\ UNCHANGED <<delayed, delayedPending, pendingNotify, handles, depth, executing,
                 stack, env, ran, cancelled>>

EnqueueDelayed(m, handle, frames, looping, d) ==
  LET a == [id |-> NewId, mod |-> m, handle |-> handle,
            method |-> IF frames THEN EngineTick ELSE TimedMethod,
            status |-> "Active", delay |-> d, left |-> d,
            \* delay_frames = 0 "means use time-based delay"
            frames |-> frames /\ d > 0, looping |-> looping, pauseAfter |-> FALSE]
      q == Enqueue(delayed, delayedPending, a)
  IN /\ MayCall(m) /\ CreatedSoFar({"once", "loop"}) < MaxDelayed
     /\ delayed' = q[1] /\ delayedPending' = q[2]
     /\ born' = Append(born, [mod |-> m, kind |-> IF looping THEN "loop" ELSE "once"])
     /\ UNCHANGED <<simple, simplePending, pendingNotify, making, depth, executing,
                    stack, env, ran, cancelled>>

(* ExecuteInGameThreadWithDelay without a handle, ExecuteInGameThread-      *)
(* AfterFrames, LoopInGameThreadWithDelay and LoopInGameThreadAfterFrames.  *)
Create(m, frames, looping, d) ==
  /\ nextHandle <= MaxHandles
  /\ EnqueueDelayed(m, nextHandle, frames, looping, d)
  /\ nextHandle' = nextHandle + 1
  /\ UNCHANGED stray

(* MakeActionHandle increments the counter without the mutex: it reads it,  *)
(* and what it writes back may undo what other threads did in between.      *)
ReadCounter(m) ==
  /\ ~Gone(m) /\ making[m] = 0 /\ nextHandle <= MaxHandles
  /\ making' = [making EXCEPT ![m] = nextHandle]
  /\ UNCHANGED <<queues, nextHandle, stray, depth, executing, stack, env, history>>

WriteCounter(m) ==
  /\ making[m] # 0
  /\ nextHandle' = making[m] + 1
  /\ stray' = stray \cup (nextHandle' .. (nextHandle - 1))
  /\ making' = [making EXCEPT ![m] = 0]
  /\ UNCHANGED <<queues, depth, executing, stack, env, history>>

(* The lookups scan the main vector, then the pending one, for the first    *)
(* action that Matches.                                                     *)
Live(a, handle) == a.handle = handle /\ ~Removed(a)
Owned(a, handle, m) == Live(a, handle) /\ a.mod = m

Exists(Matches(_)) ==
  (\E a \in ToSet(delayed) : Matches(a)) \/ (\E a \in ToSet(delayedPending) : Matches(a))

FirstOf(I) == {i \in I : \A k \in I : i <= k}

Update(Matches(_), New(_)) ==
  LET inMain == {i \in DOMAIN delayed : Matches(delayed[i])}
      inPending == {i \in DOMAIN delayedPending : Matches(delayedPending[i])}
  IN /\ \/ /\ \E i \in FirstOf(inMain) : delayed' = [delayed EXCEPT ![i] = New(@)]
           /\ UNCHANGED delayedPending
        \/ /\ inMain = {}
           /\ \E i \in FirstOf(inPending) :
                delayedPending' = [delayedPending EXCEPT ![i] = New(@)]
           /\ UNCHANGED delayed
     /\ UNCHANGED <<simple, simplePending, pendingNotify, handles, depth, executing,
                    stack, env, born, ran>>

TakeHandle(handle) ==
  /\ stray' = IF handle >= nextHandle THEN stray \cup {handle} ELSE stray
  /\ UNCHANGED nextHandle

(* Mutant: the pending vector is not searched for the handle.               *)
ExecuteWithHandleNotPending(m, handle, d) ==
  /\ \A a \in ToSet(delayed) : ~Live(a, handle)
  /\ EnqueueDelayed(m, handle, FALSE, FALSE, d)
  /\ TakeHandle(handle)

(* ExecuteInGameThreadWithDelay with a handle does nothing when the handle  *)
(* is live, whoever owns it; RetriggerableExecuteInGameThreadWithDelay      *)
(* creates in the same way when it is not.  Neither asks whether the        *)
(* counter has issued the handle, nor the counter whether it is in use.     *)
ExecuteWithHandle(m, handle, d) ==
  /\ ~Exists(LAMBDA a : Live(a, handle))
  /\ EnqueueDelayed(m, handle, FALSE, FALSE, d)
  /\ TakeHandle(handle)

(* RetriggerableExecuteInGameThreadWithDelay restarts a live action with a  *)
(* new delay in milliseconds, whoever owns it; a frame counter keeps its    *)
(* frames.                                                                  *)
Retriggered(a, d) ==
  [a EXCEPT !.status = "Active",
            !.delay = IF a.frames THEN @ ELSE d, !.left = IF a.frames THEN @ ELSE d]

RetriggerExisting(m, handle, d) ==
  /\ MayCall(m)
  /\ Update(LAMBDA a : Live(a, handle), LAMBDA a : Retriggered(a, d))
  /\ UNCHANGED cancelled

-----------------------------------------------------------------------------
(* Controlling actions: only those of the calling mod.                      *)

ResetDelayedActionTimer(m, handle) ==
  /\ MayCall(m)
  /\ Update(LAMBDA a : Owned(a, handle, m),
            LAMBDA a : [a EXCEPT !.status = "Active", !.left = a.delay])
  /\ UNCHANGED cancelled

(* A frame counter set to 0 frames is a time-based action from then on, due *)
(* at once.                                                                 *)
SetDelayedActionTimer(m, handle, d) ==
  /\ MayCall(m)
  /\ Update(LAMBDA a : Owned(a, handle, m),
            LAMBDA a : [a EXCEPT !.status = "Active", !.delay = d, !.left = d,
                                 !.frames = @ /\ d > 0])
  /\ UNCHANGED cancelled

(* A loop that is executing is paused when its callback returns.            *)
PauseDelayedAction(m, handle) ==
  /\ MayCall(m)
  /\ Update(LAMBDA a : /\ Owned(a, handle, m)
                       /\ a.status = "Active" \/ (a.status = "Executing" /\ a.looping),
            LAMBDA a : IF a.status = "Active" THEN [a EXCEPT !.status = "Paused"]
                                              ELSE [a EXCEPT !.pauseAfter = TRUE])
  /\ UNCHANGED cancelled

UnpauseDelayedAction(m, handle) ==
  /\ MayCall(m)
  /\ Update(LAMBDA a : Owned(a, handle, m) /\ a.status = "Paused",
            LAMBDA a : [a EXCEPT !.status = "Active"])
  /\ UNCHANGED cancelled

MarkRemoved(a) == [a EXCEPT !.status = "PendingRemoval"]

RemovedIn(s, t) == {s[i].id : i \in {j \in DOMAIN s : Removed(t[j]) /\ ~Removed(s[j])}}
RemovedNow == RemovedIn(delayed, delayed') \cup RemovedIn(delayedPending, delayedPending')

CancelDelayedAction(m, handle) ==
  /\ MayCall(m)
  /\ Update(LAMBDA a : Owned(a, handle, m), MarkRemoved)
  /\ cancelled' = cancelled \cup RemovedNow

RemoveAllOf(s, m) == [i \in DOMAIN s |-> IF s[i].mod = m THEN MarkRemoved(s[i]) ELSE s[i]]

ClearAllDelayedActions(m) ==
  /\ MayCall(m)
  /\ delayed' = RemoveAllOf(delayed, m)
  /\ delayedPending' = RemoveAllOf(delayedPending, m)
  /\ cancelled' = cancelled \cup RemovedNow
  /\ UNCHANGED <<simple, simplePending, pendingNotify, handles, depth, executing, stack,
                 env, born, ran>>

-----------------------------------------------------------------------------
(* Time passes for the timers that run.                                     *)

Elapsed(s) ==
  [i \in DOMAIN s |->
     IF s[i].status = "Active" /\ ~s[i].frames /\ s[i].left > 0
       THEN [s[i] EXCEPT !.left = @ - 1] ELSE s[i]]

Tick ==
  /\ <<Elapsed(delayed), Elapsed(delayedPending)>> # <<delayed, delayedPending>>
  /\ delayed' = Elapsed(delayed)
  /\ delayedPending' = Elapsed(delayedPending)
  /\ UNCHANGED <<simple, simplePending, pendingNotify, handles, depth, executing, stack,
                 env, history>>

-----------------------------------------------------------------------------
(* A drain: engine_tick_hook or process_event_hook on the game thread.      *)

EnterDrain(method) ==
  /\ \/ stack = <<>>
     \/ InCallback /\ method = ProcessEvent /\ Len(stack) < MaxNesting
  /\ depth' = depth + 1
  /\ stack' = Append(stack, [method |-> method, pc |-> "simple", todo |-> <<>>,
                             deferred |-> <<>>, ready |-> <<>>])
  /\ UNCHANGED <<queues, handles, executing, env, history>>

Take == [simple |-> "takeSimple", delayed |-> "takeReady", notify |-> "takeNotify"]
Skip == [simple |-> "delayed", delayed |-> "notify", notify |-> "leave"]

(* Mutant: the transition is not tested.                                    *)
TransitionNotTested ==
  /\ \E phase \in DOMAIN Take : At(phase) /\ SetTop([Top EXCEPT !.pc = Take[phase]])
  /\ UNCHANGED <<queues, handles, depth, executing, env, history>>

(* Mutant: the queue is swapped out before the transition is tested.        *)
TransitionTestedLate ==
  /\ \E phase \in DOMAIN Take :
       /\ At(phase)
       /\ SetTop([Top EXCEPT !.pc = IF transitioning THEN Skip[phase] ELSE Take[phase]])
       /\ simple' = IF phase = "simple" /\ transitioning
                      THEN [simple EXCEPT ![Top.method] = <<>>] ELSE simple
  /\ UNCHANGED <<simplePending, delayed, delayedPending, pendingNotify, handles, depth,
                 executing, env, history>>

(* Each phase of a drain first asks, without the mutex, whether mods are in *)
(* transition, and then does nothing and leaves its queue intact.           *)
TestTransition ==
  /\ \E phase \in DOMAIN Take :
       /\ At(phase)
       /\ SetTop([Top EXCEPT !.pc = IF transitioning THEN Skip[phase] ELSE Take[phase]])
  /\ UNCHANGED <<queues, handles, depth, executing, env, history>>

(* process_simple_actions: swap the queue out.                              *)
TakeSimple ==
  /\ At("takeSimple")
  /\ SetTop([Top EXCEPT !.pc = "runSimple", !.todo = simple[Top.method]])
  /\ simple' = [simple EXCEPT ![Top.method] = <<>>]
  /\ UNCHANGED <<simplePending, delayed, delayedPending, pendingNotify, handles, depth,
                 executing, env, history>>

(* An action of a mod that began unloading is dead: it is dropped.          *)
SkipSimple ==
  /\ At("runSimple") /\ Top.todo # <<>> /\ Unloading(Head(Top.todo).mod)
  /\ SetTop([Top EXCEPT !.todo = Tail(@)])
  /\ UNCHANGED <<queues, handles, depth, executing, env, history>>

(* A drain nested in another action's callback puts the action back.        *)
DeferSimple ==
  /\ At("runSimple") /\ Top.todo # <<>> /\ ~Unloading(Head(Top.todo).mod)
  /\ executing
  /\ SetTop([Top EXCEPT !.todo = Tail(@), !.deferred = Append(@, Head(Top.todo))])
  /\ UNCHANGED <<queues, handles, depth, executing, env, history>>

(* The call begins where the unload token is loaded: between the load and   *)
(* the call only the token can change, and no other thread reads the flag   *)
(* set there.                                                               *)

(* Mutant: the unload token is not looked at.                               *)
CallSimpleAnyway ==
  /\ At("runSimple") /\ Top.todo # <<>>
  /\ ~executing
  /\ executing' = TRUE
  /\ SetTop([Top EXCEPT !.pc = "inSimple"])
  /\ ran' = ran \cup {Head(Top.todo).id}
  /\ UNCHANGED <<queues, handles, depth, env, born, cancelled>>

CallSimple ==
  /\ At("runSimple") /\ Top.todo # <<>> /\ ~Unloading(Head(Top.todo).mod)
  /\ ~executing
  /\ executing' = TRUE
  /\ SetTop([Top EXCEPT !.pc = "inSimple"])
  /\ ran' = ran \cup {Head(Top.todo).id}
  /\ UNCHANGED <<queues, handles, depth, env, born, cancelled>>

(* The callback returned or threw, which TRY catches.                       *)
SimpleReturns ==
  /\ At("inSimple")
  /\ executing' = FALSE
  /\ SetTop([Top EXCEPT !.pc = "runSimple", !.todo = Tail(@)])
  /\ UNCHANGED <<queues, handles, depth, env, history>>

(* Mutant: the deferred actions replace the queue.                          *)
PutBackOverwrites ==
  /\ At("runSimple") /\ Top.todo = <<>>
  /\ simple' = [simple EXCEPT ![Top.method] = Top.deferred]
  /\ SetTop([Top EXCEPT !.pc = "delayed", !.deferred = <<>>])
  /\ UNCHANGED <<simplePending, delayed, delayedPending, pendingNotify, handles, depth,
                 executing, env, history>>

PutBackDeferred ==
  /\ At("runSimple") /\ Top.todo = <<>>
  /\ simple' = [simple EXCEPT ![Top.method] = @ \o Top.deferred]
  /\ SetTop([Top EXCEPT !.pc = "delayed", !.deferred = <<>>])
  /\ UNCHANGED <<simplePending, delayed, delayedPending, pendingNotify, handles, depth,
                 executing, env, history>>

(* process_delayed_actions, first critical section: count frames down and   *)
(* mark what is due Executing.                                              *)
Considered(a, method) == a.status = "Active" /\ a.method = method

Aged(a, method) ==
  IF Considered(a, method) /\ a.frames /\ a.left > 0 THEN [a EXCEPT !.left = @ - 1] ELSE a

(* Mutant: actions are collected inside an action too.                      *)
IsDueNested(a, method) == Considered(a, method) /\ Aged(a, method).left = 0

IsDue(a, method) == Considered(a, method) /\ Aged(a, method).left = 0 /\ ~executing

TakeReady ==
  /\ At("takeReady")
  /\ LET due == {i \in DOMAIN delayed : IsDue(delayed[i], Top.method)}
         ready == [k \in DOMAIN InOrder(due) |->
                     LET i == InOrder(due)[k]
                     IN [index |-> i, id |-> delayed[i].id, mod |-> delayed[i].mod]]
     IN /\ delayed' = [i \in DOMAIN delayed |->
                         LET a == Aged(delayed[i], Top.method)
                         IN IF i \in due THEN [a EXCEPT !.status = "Executing"] ELSE a]
        /\ SetTop([Top EXCEPT !.pc = "runDelayed", !.todo = ready, !.ready = ready])
  /\ UNCHANGED <<simple, simplePending, delayedPending, pendingNotify, handles, depth,
                 executing, env, history>>

(* Only the unload token and the executing flag are looked at again before  *)
(* the call, not the action's status.                                       *)
SkipReady ==
  /\ At("runDelayed") /\ Top.todo # <<>>
  /\ executing \/ Unloading(Head(Top.todo).mod)
  /\ SetTop([Top EXCEPT !.todo = Tail(@)])
  /\ UNCHANGED <<queues, handles, depth, executing, env, history>>

CallReady ==
  /\ At("runDelayed") /\ Top.todo # <<>>
  /\ ~executing /\ ~Unloading(Head(Top.todo).mod)
  /\ executing' = TRUE
  /\ SetTop([Top EXCEPT !.pc = "inDelayed"])
  /\ UNCHANGED <<queues, handles, depth, env, history>>

ReadyReturns ==
  /\ At("inDelayed")
  /\ executing' = FALSE
  /\ SetTop([Top EXCEPT !.pc = "runDelayed", !.todo = Tail(@)])
  /\ UNCHANGED <<queues, handles, depth, env, history>>

(* Mutant: the next status of a loop does not depend on its cancellation.   *)
AfterExecutionAnyStatus(a) ==
  IF a.pauseAfter
    THEN [a EXCEPT !.pauseAfter = FALSE, !.left = a.delay, !.status = "Paused"]
  ELSE IF a.looping THEN [a EXCEPT !.left = a.delay, !.status = "Active"]
  ELSE MarkRemoved(a)

(* Last critical section: give each ready INDEX its next status and erase   *)
(* what is to be removed.                                                   *)
AfterExecution(a) ==
  IF Removed(a) THEN a
  ELSE IF a.pauseAfter
    THEN [a EXCEPT !.pauseAfter = FALSE, !.left = a.delay, !.status = "Paused"]
  ELSE IF a.looping THEN [a EXCEPT !.left = a.delay, !.status = "Active"]
  ELSE MarkRemoved(a)

(* Mutant: the bounds test on the index is off by one.                      *)
RetireAllButLast ==
  /\ At("runDelayed") /\ Top.todo = <<>>
  /\ LET indexes == {e.index : e \in ToSet(Top.ready)} \ {Len(delayed)}
         updated == [i \in DOMAIN delayed |->
                       IF i \in indexes THEN AfterExecution(delayed[i]) ELSE delayed[i]]
     IN delayed' = Kept(updated, {i \in DOMAIN updated : ~Removed(updated[i])})
  /\ SetTop([Top EXCEPT !.pc = "notify", !.ready = <<>>])
  /\ UNCHANGED <<simple, simplePending, delayedPending, pendingNotify, handles, depth,
                 executing, env, history>>

RetireReady ==
  /\ At("runDelayed") /\ Top.todo = <<>>
  /\ LET indexes == {e.index : e \in ToSet(Top.ready)}
         updated == [i \in DOMAIN delayed |->
                       IF i \in indexes THEN AfterExecution(delayed[i]) ELSE delayed[i]]
     IN delayed' = Kept(updated, {i \in DOMAIN updated : ~Removed(updated[i])})
  /\ SetTop([Top EXCEPT !.pc = "notify", !.ready = <<>>])
  /\ UNCHANGED <<simple, simplePending, delayedPending, pendingNotify, handles, depth,
                 executing, env, history>>

(* process_pending_notify_on_new_object_callbacks: take the list, and call  *)
(* every callback of it that is still wanted, all under the mutex.  What    *)
(* the callbacks are is module NewObjectNotify's; here they are Lua.        *)
TakeNotify ==
  /\ At("takeNotify")
  /\ SetTop([Top EXCEPT !.pc = IF pendingNotify THEN "inNotify" ELSE "leave"])
  /\ pendingNotify' = FALSE
  /\ UNCHANGED <<simple, simplePending, delayed, delayedPending, handles, depth, executing,
                 env, history>>

NotifyReturns ==
  /\ At("inNotify")
  /\ SetTop([Top EXCEPT !.pc = "leave"])
  /\ UNCHANGED <<queues, handles, depth, executing, env, history>>

(* Another thread constructs an object a mod waits for, in the hook on      *)
(* StaticConstructObject; on the game thread the hook calls the mod itself. *)
ConstructElsewhere ==
  /\ Notifies /\ ~MutexHeld /\ \E m \in Mods : ~Gone(m)
  /\ pendingNotify' = TRUE
  /\ UNCHANGED <<simple, simplePending, delayed, delayedPending, handles, depth, executing,
                 stack, env, history>>

(* Mutant: an early return leaves the depth raised.                         *)
LeaveKeepsDepth ==
  /\ At("leave")
  /\ SetTop([Top EXCEPT !.pc = "merge"])
  /\ UNCHANGED <<queues, handles, depth, executing, env, history>>

(* The depth is lowered outside the mutex, before the pending queues are    *)
(* merged.                                                                  *)
LeaveDrain ==
  /\ At("leave")
  /\ depth' = depth - 1
  /\ SetTop([Top EXCEPT !.pc = "merge"])
  /\ UNCHANGED <<queues, handles, executing, env, history>>

MergePending ==
  /\ At("merge")
  /\ simple' = [simple EXCEPT ![Top.method] = @ \o simplePending[Top.method]]
  /\ simplePending' = [simplePending EXCEPT ![Top.method] = <<>>]
  /\ delayed' = delayed \o delayedPending
  /\ delayedPending' = <<>>
  /\ stack' = Front(stack)
  /\ UNCHANGED <<pendingNotify, handles, depth, executing, env, history>>

-----------------------------------------------------------------------------
(* The event-loop thread uninstalls a mod (LuaMod::uninstall, the part that *)
(* concerns the queues): raise the transition counter and the unload token, *)
(* wait without the mutex for the drains in flight, erase the mod's actions *)
(* under the mutex, close its Lua state.  Module ModUnload has the whole    *)
(* protocol, with the waits that expire.                                    *)

BeginUnload(m) ==
  /\ ~transitioning /\ unload[m] = "loaded"
  /\ transitioning' = TRUE
  /\ unload' = [unload EXCEPT ![m] = "waiting"]
  /\ UNCHANGED <<queues, handles, depth, executing, stack, history>>

DrainsSettled(m) ==
  /\ unload[m] = "waiting" /\ depth = 0
  /\ unload' = [unload EXCEPT ![m] = "erasing"]
  /\ UNCHANGED <<queues, handles, depth, executing, stack, transitioning, history>>

Without(s, m) == Kept(s, {i \in DOMAIN s : s[i].mod # m})

EraseActions(m) ==
  /\ unload[m] = "erasing" /\ ~MutexHeld
  /\ simple' = [q \in Methods |-> Without(simple[q], m)]
  /\ simplePending' = [q \in Methods |-> Without(simplePending[q], m)]
  /\ delayed' = Without(delayed, m)
  /\ delayedPending' = Without(delayedPending, m)
  /\ pendingNotify' = FALSE
  /\ unload' = [unload EXCEPT ![m] = "gone"]
  /\ UNCHANGED <<handles, depth, executing, stack, transitioning, history>>

EndUnload ==
  /\ transitioning /\ \A m \in Mods : unload[m] \in {"loaded", "gone"}
  /\ transitioning' = FALSE
  /\ UNCHANGED <<queues, handles, depth, executing, stack, unload, history>>

-----------------------------------------------------------------------------
Init ==
  /\ simple = [q \in Methods |-> <<>>] /\ simplePending = [q \in Methods |-> <<>>]
  /\ delayed = <<>> /\ delayedPending = <<>>
  /\ nextHandle = 1 /\ making = [m \in Mods |-> 0] /\ stray = {}
  /\ pendingNotify = FALSE /\ depth = 0 /\ executing = FALSE /\ stack = <<>>
  /\ transitioning = FALSE /\ unload = [m \in Mods |-> "loaded"]
  /\ born = <<>> /\ ran = {} /\ cancelled = {}

ActionReturns == SimpleReturns \/ ReadyReturns

DrainStep ==
  \/ TestTransition \/ TakeSimple \/ SkipSimple \/ DeferSimple \/ CallSimple
  \/ PutBackDeferred \/ TakeReady \/ SkipReady \/ CallReady
  \/ RetireReady \/ TakeNotify \/ LeaveDrain \/ MergePending
  \/ ActionReturns \/ NotifyReturns

QueueCall(m) == \E q \in Methods : ExecuteInGameThread(m, q)

CreateCall(m) ==
  \/ \E frames, looping \in BOOLEAN, d \in Delays : Create(m, frames, looping, d)
  \/ \E h \in Passed, d \in Delays : ExecuteWithHandle(m, h, d) \/ RetriggerExisting(m, h, d)

MakeActionHandle(m) == ReadCounter(m) \/ WriteCounter(m)

ControlCall(m) ==
  \/ \E h \in Passed : \/ ResetDelayedActionTimer(m, h) \/ CancelDelayedAction(m, h)
                       \/ PauseDelayedAction(m, h) \/ UnpauseDelayedAction(m, h)
                       \/ \E d \in Delays : SetDelayedActionTimer(m, h, d)
  \/ ClearAllDelayedActions(m)

UnloadGoesOn == EndUnload \/ \E m \in Mods : DrainsSettled(m) \/ EraseActions(m)

UnloadStep == UnloadGoesOn \/ \E m \in Mods : BeginUnload(m)

Next ==
  \/ \E q \in Methods : EnterDrain(q)
  \/ DrainStep \/ Tick \/ ConstructElsewhere \/ UnloadStep
  \/ \E m \in Mods : QueueCall(m) \/ CreateCall(m) \/ ControlCall(m) \/ MakeActionHandle(m)

Spec == Init /\ [][Next]_vars

-----------------------------------------------------------------------------
(* Fairness: the engine keeps calling both hooks when the game thread is    *)
(* between drains, a drain keeps running, every Lua callback returns in the *)
(* end however many UFunctions it calls, and the event loop keeps working   *)
(* and gets the mutex when batches of notifications keep letting it go.     *)
Fairness ==
  /\ \A q \in Methods : SF_vars(stack = <<>> /\ EnterDrain(q))
  /\ WF_vars(DrainStep)
  /\ SF_vars(ActionReturns) /\ SF_vars(NotifyReturns)
  /\ SF_vars(UnloadGoesOn)

LiveSpec == Spec /\ Fairness

-----------------------------------------------------------------------------
(* Properties                                                               *)

TypeOK ==
  /\ simple \in [Methods -> Seq(SimpleAction)]
  /\ simplePending \in [Methods -> Seq(SimpleAction)]
  /\ delayed \in Seq(DelayedAction) /\ delayedPending \in Seq(DelayedAction)
  /\ nextHandle \in 1..(MaxHandles + 1) /\ making \in [Mods -> 0..MaxHandles]
  /\ pendingNotify \in BOOLEAN
  /\ depth \in 0..MaxNesting
  /\ executing \in BOOLEAN
  /\ stack \in Seq(Drain)
  /\ transitioning \in BOOLEAN
  /\ unload \in [Mods -> {"loaded", "waiting", "erasing", "gone"}]
  /\ born \in Seq([mod : Mods, kind : {"simple", "once", "loop"}])
  /\ ran \subseteq 1..Len(born) /\ cancelled \subseteq 1..Len(born)
  /\ stray \subseteq 1..MaxHandles

(* Game-thread actions never run inside one another: a drain entered from   *)
(* one finds m_is_currently_executing_game_action set, and defers.  A       *)
(* notification may run inside an action, and an action inside that.        *)
Calling(d) == d.pc \in {"inSimple", "inDelayed"}
OneActionAtATime ==
  Cardinality({k \in DOMAIN stack : Calling(stack[k])}) = IF executing THEN 1 ELSE 0

(* No action given to ExecuteInGameThread is lost or run twice, whatever    *)
(* drain swapped it out, deferred it or merged it: until the mod unloads it *)
(* has run or is held in exactly one place.                                 *)
StillToRun(d) == IF d.pc = "runSimple" THEN d.todo
                 ELSE IF d.pc = "inSimple" THEN Tail(d.todo) ELSE <<>>
OfDrains(Part(_)) ==
  [k \in 1..MaxNesting |-> IF k \in DOMAIN stack THEN Part(stack[k]) ELSE <<>>]
Lists == ({"main", "pending"} \X Methods) \cup ({"todo", "deferred"} \X (1..MaxNesting))
Held ==
  LET parts == [main |-> simple, pending |-> simplePending, todo |-> OfDrains(StillToRun),
                deferred |-> OfDrains(LAMBDA d : d.deferred)]
  IN [l \in Lists |-> parts[l[1]][l[2]]]
Places(id) == UNION {{l} \X {i \in DOMAIN Held[l] : Held[l][i].id = id} : l \in Lists}
SimpleRunsOnce ==
  \A id \in {i \in DOMAIN born : born[i].kind = "simple"} :
    LET n == Cardinality(Places(id)) + (IF id \in ran THEN 1 ELSE 0)
    IN n <= 1 /\ (~Unloading(born[id].mod) => n = 1)

(* The scheduler keeps what it promises to the mods (ActionService): one    *)
(* action at a time, in whatever drain; each immediate action started once; *)
(* nothing started for a mod whose unload began, whatever a drain           *)
(* took or deferred before; and nothing of it running or queued when its    *)
(* Lua state closes.                                                        *)
Waiting == {a.id : a \in UNION {ToSet(Held[l]) : l \in Lists}}
InCall == {Head(stack[k].todo).id : k \in {i \in DOMAIN stack : Calling(stack[i])}}
Phase == [m \in Mods |-> IF unload[m] \in {"waiting", "erasing"} THEN "unloading" ELSE unload[m]]
Service == INSTANCE ActionService
             WITH asked <- born, waiting <- Waiting, calling <- InCall, phase <- Phase
ActionServiceSpec == Service!Spec

(* A handle that the counter issued once, and no mod used before, names at  *)
(* most one live action across the main and the pending vector, so what a   *)
(* lookup finds first is all there is to find.                              *)
SameLiveHandle(a, b) == a.handle = b.handle /\ ~Removed(a) /\ ~Removed(b)
UniqueLiveHandle ==
  LET all == delayed \o delayedPending
  IN \A i, j \in DOMAIN all :
       (SameLiveHandle(all[i], all[j]) /\ all[i].handle \notin stray) => i = j

(* "MakeHandle - returns a unique action handle": no action is live under a *)
(* handle that the counter has still to issue.                              *)
HandlesAreUnique == \A a \in ToSet(delayed \o delayedPending) : ~Removed(a) => a.handle < nextHandle

(* Once a mod's Lua state is closed no queue and no drain holds an action   *)
(* of it: the drain depth raised before the transition is tested, against   *)
(* the transition raised before the depth is waited for.                    *)
GoneModSilent ==
  \A m \in Mods : Gone(m) =>
    /\ \A q \in Methods : \A a \in ToSet(simple[q] \o simplePending[q]) : a.mod # m
    /\ \A a \in ToSet(delayed \o delayedPending) : a.mod # m
    /\ \A k \in DOMAIN stack :
         \A a \in ToSet(stack[k].todo) \cup ToSet(stack[k].deferred) : a.mod # m

(* A cancelled action never comes back: no timer call and no drain that had *)
(* it marked Executing gives it another status.                             *)
CancelIsFinal ==
  [][\A a \in ToSet(delayed \o delayedPending) : Removed(a) =>
       \A b \in ToSet(delayed' \o delayedPending') : b.id = a.id => Removed(b)]_vars

(* A delayed action is collected by one drain at a time: a nested drain      *)
(* does not take what an outer one still has to retire, even if the callback *)
(* restarted it, because it collects nothing inside an action.              *)
CollectedOnce ==
  \A j, k \in DOMAIN stack : \A e \in ToSet(stack[j].ready), f \in ToSet(stack[k].ready) :
    e.id = f.id => j = k

(* A loop goes on while it is queued, and is marked Executing only while a  *)
(* drain has it to retire.                                                  *)
GoesOn(id) ==
  \E a \in ToSet(delayed \o delayedPending) :
    /\ a.id = id /\ ~Removed(a)
    /\ a.status = "Executing" => \E k \in DOMAIN stack : \E e \in ToSet(stack[k].ready) : e.id = id

IsWanted(id) == born[id].kind = "loop" /\ id \notin cancelled /\ ~Unloading(born[id].mod)

(* A loop that is neither cancelled nor unloaded goes on, whatever its own  *)
(* callback and other drains do to its timer, from one step to the next; a  *)
(* drain that retires what it collected needs its indexes to hold still.    *)
IndexesHold == \A e \in ToSet(Top.ready) :
  e.index \in DOMAIN delayed /\ delayed[e.index].id = e.id
LoopKeepsItsPlace ==
  [][\A id \in DOMAIN born' :
       (/\ IsWanted(id)' /\ (id \in DOMAIN born => GoesOn(id))
        /\ RetireReady => IndexesHold) => GoesOn(id)']_vars

(* "The loop continues until cancelled with CancelDelayedAction(handle)".   *)
LoopContinues == \A id \in DOMAIN born : IsWanted(id) => GoesOn(id)

(* Every action given to ExecuteInGameThread runs, unless its mod unloads.  *)
SimpleEventuallyRuns ==
  \A id \in Ids :
    (id \in DOMAIN born /\ born[id].kind = "simple")
      ~> (id \in ran \/ (id \in DOMAIN born /\ Unloading(born[id].mod)))
=============================================================================
