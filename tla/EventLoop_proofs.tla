-------------------------- MODULE EventLoop_proofs --------------------------
(***************************************************************************)
(* Proofs about EventLoop, for any number of mods, requests, frames, key    *)
(* presses and reloads.                                                     *)
(***************************************************************************)
EXTENDS EventLoop, TLAPS

(* Whatever a request does, m_mods keeps its type.                          *)
LEMMA PerformType ==
  ASSUME NEW request, Perform(request), current \in [Names -> Nat], born \in [Names -> Nat]
  PROVE  current' \in [Names -> Nat] /\ born' \in [Names -> Nat]
<1>1. ASSUME NEW names, Recreate(names)
      PROVE  current' \in [Names -> Nat] /\ born' \in [Names -> Nat]
  BY <1>1 DEF Recreate
<1>2. ASSUME NEW n, Remove(n)
      PROVE  current' \in [Names -> Nat] /\ born' \in [Names -> Nat]
  BY <1>2 DEF Remove
<1>3. CASE UNCHANGED modVars
  BY <1>3 DEF modVars
<1>4. \/ \E names : Recreate(names)
      \/ \E n : Remove(n)
      \/ UNCHANGED modVars
  BY Zenon DEF Perform
<1> QED BY <1>1, <1>2, <1>3, <1>4

(* Every action keeps the types, and a thread that queues has something to  *)
(* queue.                                                                   *)
LEMMA TypeStep ==
  TypeOK /\ WantIsKnown /\ [Next]_vars => TypeOK'
<1> SUFFICES ASSUME TypeOK, WantIsKnown, [Next]_vars
             PROVE  TypeOK'
  OBVIOUS
<1>1. CASE PressRestartAll
  <2>1. [op |-> "restartAll", arg |-> None] \in Request
    BY DEF Request, Global
  <2> QED BY <1>1, <2>1 DEF PressRestartAll, MayAsk, TypeOK, queueVars, inputVars, modVars, pollVars, clientVars, flagVars
<1>2. CASE PressRun
  <2>1. [op |-> "repl", arg |-> None] \in Request
    BY DEF Request, Global
  <2> QED BY <1>2, <2>1 DEF PressRun, MayAsk, TypeOK, queueVars, inputVars, modVars, pollVars, clientVars, flagVars
<1>3. CASE MarkPending
  BY <1>3 DEF MarkPending, TypeOK, LoopPCs, PollPCs, SyncStates, queueVars, inputVars, modVars, pollVars, clientVars, flagVars
<1>4. CASE TestProcessing
  BY <1>4 DEF TestProcessing, TypeOK, LoopPCs, PollPCs, SyncStates, queueVars, inputVars, modVars, pollVars, clientVars, flagVars
<1>5. CASE DropRequest
  BY <1>5 DEF DropRequest, Returned, TypeOK, LoopPCs, PollPCs, SyncStates, queueVars, inputVars, modVars, pollVars, clientVars, flagVars
<1>6. CASE QueueEvent
  <2>1. want \in Request
    BY <1>6 DEF QueueEvent, WantIsKnown
  <2>2. [id |-> asked + 1, request |-> want] \in Event
    BY <2>1 DEF Event, TypeOK
  <2> DEFINE e == [id |-> asked + 1, request |-> want]
  <2>3. queue' = Append(queue, e)
    BY <1>6 DEF QueueEvent
  <2>4. e \in Event
    BY <2>2
  <2> HIDE DEF e
  <2>5. queue' \in Seq(Event)
    BY <2>3, <2>4 DEF TypeOK
  <2> QED BY <1>6, <2>5 DEF QueueEvent, Returned, TypeOK, queueVars, inputVars, modVars, pollVars, clientVars, flagVars
<1>7. CASE StartLoop
  BY <1>7 DEF StartLoop, TypeOK, LoopPCs, PollPCs, SyncStates, queueVars, inputVars, modVars, pollVars, clientVars, flagVars
<1>8. CASE BeginFrame
  BY <1>8 DEF BeginFrame, TypeOK, LoopPCs, PollPCs, SyncStates, queueVars, inputVars, modVars, pollVars, clientVars, flagVars
<1>9. CASE RunEvent
  <2>1. /\ Perform(Head(queue).request) /\ queue' = Tail(queue)
        /\ served' = served + 1 /\ frame' = frame + 1 /\ queue # <<>> /\ frame < PerFrame
        /\ busy' \in BOOLEAN /\ replPending' \in BOOLEAN
        /\ UNCHANGED <<processing, paused, asked, loopPc, inputVars, sync, pollVars, stop,
                       clientVars>>
    BY <1>9 DEF RunEvent, Take, Execute
  <2>2. current' \in [Names -> Nat] /\ born' \in [Names -> Nat]
    BY <2>1, PerformType DEF TypeOK
  <2>3. queue' \in Seq(Event) /\ frame' \in 0..PerFrame /\ served' \in Nat
    BY <2>1, ConstantsAssumption DEF TypeOK
  <2> QED BY <2>1, <2>2, <2>3 DEF TypeOK, inputVars, pollVars, clientVars
<1>10. CASE LeaveEvents
  <2>1. frame' \in 0..PerFrame
    BY <1>10, ConstantsAssumption DEF LeaveEvents
  <2> QED BY <1>10, <2>1 DEF LeaveEvents, TypeOK, LoopPCs, PollPCs, SyncStates, queueVars, inputVars, modVars, pollVars, clientVars, flagVars
<1>11. CASE NoKey
  BY <1>11 DEF NoKey, TypeOK, LoopPCs, PollPCs, SyncStates, queueVars, inputVars, modVars, pollVars, clientVars, flagVars
<1>12. CASE CallHotReload
  <2>1. current' \in [Names -> Nat] /\ born' \in [Names -> Nat]
    BY <1>12 DEF CallHotReload, Recreate, TypeOK
  <2> QED BY <1>12, <2>1 DEF CallHotReload, TypeOK, queueVars, inputVars, modVars, pollVars, clientVars, flagVars
<1>13. CASE CallbackReturns
  BY <1>13 DEF CallbackReturns, TypeOK, LoopPCs, PollPCs, SyncStates, queueVars, inputVars, modVars, pollVars, clientVars, flagVars
<1>14. CASE CallsOver
  <2>1. meddled' \in BOOLEAN
    BY <1>14 DEF CallsOver
  <2> QED BY <1>14, <2>1 DEF CallsOver, TypeOK, LoopPCs, PollPCs, SyncStates, queueVars, inputVars, modVars, pollVars, clientVars, flagVars
<1>15. CASE NothingToSync
  BY <1>15 DEF NothingToSync, TypeOK, LoopPCs, PollPCs, SyncStates, queueVars, inputVars, modVars, pollVars, clientVars, flagVars
<1>16. CASE Park
  BY <1>16 DEF Park, WakePoller, TypeOK, LoopPCs, PollPCs, SyncStates, queueVars, inputVars, modVars, pollVars, clientVars, flagVars
<1>17. CASE WaitForOther
  BY <1>17 DEF WaitForOther, TypeOK, LoopPCs, PollPCs, SyncStates, queueVars, inputVars, modVars, pollVars, clientVars, flagVars
<1>18. CASE StoreIdle
  BY <1>18 DEF StoreIdle, TypeOK, LoopPCs, PollPCs, SyncStates, queueVars, inputVars, modVars, pollVars, clientVars, flagVars
<1>19. CASE LeaveLoop
  BY <1>19 DEF LeaveLoop, TypeOK, LoopPCs, PollPCs, SyncStates, queueVars, inputVars, modVars, pollVars, clientVars, flagVars
<1>20. CASE Joined
  BY <1>20 DEF Joined, TypeOK, LoopPCs, PollPCs, SyncStates, queueVars, inputVars, modVars, pollVars, clientVars, flagVars
<1>21. CASE WaitForMain
  BY <1>21 DEF WaitForMain, PollerSteps, TypeOK, LoopPCs, PollPCs, SyncStates, queueVars, inputVars, modVars, pollVars, clientVars, flagVars
<1>22. CASE NothingToReload
  BY <1>22 DEF NothingToReload, PollerSteps, TypeOK, LoopPCs, PollPCs, SyncStates, queueVars, inputVars, modVars, pollVars, clientVars, flagVars
<1>23. CASE PauseAndUninstall
  BY <1>23 DEF PauseAndUninstall, PollerSteps, TypeOK, LoopPCs, PollPCs, SyncStates, queueVars, inputVars, modVars, pollVars, clientVars, flagVars
<1>24. CASE Replace
  <2>1. current' \in [Names -> Nat] /\ born' \in [Names -> Nat]
    BY <1>24 DEF Replace, Recreate, TypeOK
  <2>2. paused' \in BOOLEAN
    BY <1>24 DEF Replace
  <2> QED BY <1>24, <2>1, <2>2 DEF Replace, PollerSteps, TypeOK, LoopPCs, PollPCs, SyncStates, queueVars, inputVars, modVars, pollVars, clientVars, flagVars
<1>25. CASE Release
  BY <1>25 DEF Release, TypeOK, LoopPCs, PollPCs, SyncStates, queueVars, inputVars, modVars, pollVars, clientVars, flagVars
<1>26. CASE StopPolling
  BY <1>26 DEF StopPolling, PollerSteps, TypeOK, LoopPCs, PollPCs, SyncStates, queueVars, inputVars, modVars, pollVars, clientVars, flagVars
<1>27. CASE EndProgram
  <2>1. processing' \in BOOLEAN
    BY <1>27 DEF EndProgram
  <2> QED BY <1>27, <2>1 DEF EndProgram, TypeOK, LoopPCs, PollPCs, SyncStates, queueVars, inputVars, modVars, pollVars, clientVars, flagVars
<1>28. ASSUME NEW request \in LuaRequest, AskLua(request) PROVE TypeOK'
  <2>1. request \in Request
    BY DEF LuaRequest, Request, ObjectOf, Present, Objects, TypeOK
  <2> QED BY <1>28, <2>1 DEF AskLua, MayAsk, TypeOK, queueVars, inputVars, modVars, pollVars, clientVars, flagVars
<1>29. ASSUME NEW request \in LuaRequest, CallbackAsks(request) PROVE TypeOK'
  <2>1. Perform(request)
    BY <1>29 DEF CallbackAsks
  <2>2. current' \in [Names -> Nat] /\ born' \in [Names -> Nat]
    BY <2>1, PerformType DEF TypeOK
  <2> QED BY <1>29, <2>2 DEF CallbackAsks, TypeOK, queueVars, inputVars, modVars, pollVars, clientVars, flagVars
<1>30. ASSUME NEW callbacks \in SUBSET Callbacks, PressKey(callbacks) PROVE TypeOK'
  <2>1. callbacks \subseteq Objects \cup {HotReload}
    BY DEF Callbacks, ObjectOf, Present, Objects, TypeOK
  <2>2. keys' \in 0..MaxKeys
    BY <1>30, ConstantsAssumption DEF PressKey, TypeOK
  <2>3. calls' = callbacks /\ loopPc' = "calls"
    BY <1>30 DEF PressKey
  <2> QED BY <1>30, <2>1, <2>2, <2>3 DEF PressKey, TypeOK, LoopPCs, PollPCs, SyncStates, queueVars, inputVars, modVars, pollVars, clientVars, flagVars
<1>31. ASSUME NEW o \in calls, CallMod(o) PROVE TypeOK'
  BY <1>31 DEF CallMod, TypeOK, LoopPCs, PollPCs, SyncStates, queueVars, inputVars, modVars, pollVars, clientVars, flagVars
<1>32. ASSUME NEW n \in Names, Ask(n) PROVE TypeOK'
  <2>1. early' \in BOOLEAN
    BY <1>32 DEF Ask, TypeOK
  <2>2. reloads' \in 0..MaxReloads
    BY <1>32, ConstantsAssumption DEF Ask, TypeOK
  <2>3. sync' = "WaitForMain" /\ pollPc' = "asked" /\ changed' = n
    BY <1>32 DEF Ask
  <2> QED BY <1>32, <2>1, <2>2, <2>3 DEF Ask, TypeOK, LoopPCs, PollPCs, SyncStates, queueVars, inputVars, modVars, pollVars, clientVars, flagVars
<1>33. CASE UNCHANGED vars
  BY <1>33 DEF vars, TypeOK, LoopPCs, PollPCs, SyncStates, queueVars, inputVars, modVars, pollVars, clientVars, flagVars
<1> QED
  BY <1>1, <1>2, <1>3, <1>4, <1>5, <1>6, <1>7, <1>8, <1>9, <1>10, <1>11, <1>12, 
     <1>13, <1>14, <1>15, <1>16, <1>17, <1>18, <1>19, <1>20, <1>21, <1>22, <1>23, 
     <1>24, <1>25, <1>26, <1>27, <1>28, <1>29, <1>30, <1>31, <1>32, <1>33
     DEF Next, LoopStep, FrameStep, EventStep, CallStep, SyncStep, PollStep

(* A thread in queue_event holds a request.                                 *)
LEMMA WantStep ==
  TypeOK /\ WantIsKnown /\ [Next]_vars => WantIsKnown'
<1> SUFFICES ASSUME TypeOK, WantIsKnown, [Next]_vars
             PROVE  WantIsKnown'
  OBVIOUS
<1>1. CASE PressRestartAll
  <2>1. [op |-> "restartAll", arg |-> None] \in Request
    BY DEF Request, Global
  <2> QED BY <1>1, <2>1 DEF PressRestartAll, WantIsKnown
<1>2. CASE PressRun
  <2>1. [op |-> "repl", arg |-> None] \in Request
    BY DEF Request, Global
  <2> QED BY <1>2, <2>1 DEF PressRun, WantIsKnown
<1>3. CASE MarkPending
  BY <1>3 DEF MarkPending, WantIsKnown, clientVars
<1>4. CASE TestProcessing
  BY <1>4 DEF TestProcessing, WantIsKnown, clientVars
<1>5. CASE DropRequest
  BY <1>5 DEF DropRequest, Returned, WantIsKnown, clientVars
<1>6. CASE QueueEvent
  BY <1>6 DEF QueueEvent, Returned, QueueHeld, WantIsKnown, clientVars
<1>7. CASE StartLoop
  BY <1>7 DEF StartLoop, WantIsKnown, clientVars
<1>8. CASE BeginFrame
  BY <1>8 DEF BeginFrame, WantIsKnown, clientVars
<1>9. CASE RunEvent
  BY <1>9 DEF RunEvent, Take, Execute, WantIsKnown, clientVars
<1>10. CASE LeaveEvents
  BY <1>10 DEF LeaveEvents, WantIsKnown, clientVars
<1>11. CASE NoKey
  BY <1>11 DEF NoKey, WantIsKnown, clientVars
<1>12. CASE CallHotReload
  BY <1>12 DEF CallHotReload, WantIsKnown, clientVars
<1>13. CASE CallbackReturns
  BY <1>13 DEF CallbackReturns, WantIsKnown, clientVars
<1>14. CASE CallsOver
  BY <1>14 DEF CallsOver, WantIsKnown, clientVars
<1>15. CASE NothingToSync
  BY <1>15 DEF NothingToSync, WantIsKnown, clientVars
<1>16. CASE Park
  BY <1>16 DEF Park, WakePoller, WantIsKnown, clientVars
<1>17. CASE WaitForOther
  BY <1>17 DEF WaitForOther, WantIsKnown, clientVars
<1>18. CASE StoreIdle
  BY <1>18 DEF StoreIdle, WantIsKnown, clientVars
<1>19. CASE LeaveLoop
  BY <1>19 DEF LeaveLoop, WantIsKnown, clientVars
<1>20. CASE Joined
  BY <1>20 DEF Joined, WantIsKnown, clientVars
<1>21. CASE WaitForMain
  BY <1>21 DEF WaitForMain, PollerSteps, WantIsKnown, clientVars
<1>22. CASE NothingToReload
  BY <1>22 DEF NothingToReload, PollerSteps, WantIsKnown, clientVars
<1>23. CASE PauseAndUninstall
  BY <1>23 DEF PauseAndUninstall, PollerSteps, WantIsKnown, clientVars
<1>24. CASE Replace
  BY <1>24 DEF Replace, PollerSteps, WantIsKnown, clientVars
<1>25. CASE Release
  BY <1>25 DEF Release, WantIsKnown, clientVars
<1>26. CASE StopPolling
  BY <1>26 DEF StopPolling, PollerSteps, WantIsKnown, clientVars
<1>27. CASE EndProgram
  BY <1>27 DEF EndProgram, WantIsKnown, clientVars
<1>28. ASSUME NEW request \in LuaRequest, AskLua(request) PROVE WantIsKnown'
  <2>1. request \in Request
    BY DEF LuaRequest, Request, ObjectOf, Present, Objects, TypeOK
  <2> QED BY <1>28, <2>1 DEF AskLua, WantIsKnown
<1>29. ASSUME NEW request \in LuaRequest, CallbackAsks(request) PROVE WantIsKnown'
  BY <1>29 DEF CallbackAsks, WantIsKnown, clientVars
<1>30. ASSUME NEW callbacks \in SUBSET Callbacks, PressKey(callbacks) PROVE WantIsKnown'
  BY <1>30 DEF PressKey, WantIsKnown, clientVars
<1>31. ASSUME NEW o \in calls, CallMod(o) PROVE WantIsKnown'
  BY <1>31 DEF CallMod, WantIsKnown, clientVars
<1>32. ASSUME NEW n \in Names, Ask(n) PROVE WantIsKnown'
  BY <1>32 DEF Ask, WantIsKnown, clientVars
<1>33. CASE UNCHANGED vars
  BY <1>33 DEF vars, WantIsKnown, clientVars
<1> QED
  BY <1>1, <1>2, <1>3, <1>4, <1>5, <1>6, <1>7, <1>8, <1>9, <1>10, <1>11, <1>12, 
     <1>13, <1>14, <1>15, <1>16, <1>17, <1>18, <1>19, <1>20, <1>21, <1>22, <1>23, 
     <1>24, <1>25, <1>26, <1>27, <1>28, <1>29, <1>30, <1>31, <1>32, <1>33
     DEF Next, LoopStep, FrameStep, EventStep, CallStep, SyncStep, PollStep

(* Requests keep their order and their number.                              *)
LEMMA OrderStep ==
  TypeOK /\ ServedInOrder /\ [Next]_vars => ServedInOrder'
<1> SUFFICES ASSUME TypeOK, ServedInOrder, [Next]_vars
             PROVE  ServedInOrder'
  OBVIOUS
<1>1. CASE PressRestartAll
  BY <1>1 DEF PressRestartAll, MayAsk, ServedInOrder, queueVars
<1>2. CASE PressRun
  BY <1>2 DEF PressRun, MayAsk, ServedInOrder, queueVars
<1>3. CASE MarkPending
  BY <1>3 DEF MarkPending, ServedInOrder, queueVars
<1>4. CASE TestProcessing
  BY <1>4 DEF TestProcessing, ServedInOrder, queueVars
<1>5. CASE DropRequest
  BY <1>5 DEF DropRequest, Returned, ServedInOrder, queueVars
<1>6. CASE QueueEvent
  <2> DEFINE e == [id |-> asked + 1, request |-> want]
  <2>1. /\ queue' = Append(queue, e) /\ asked' = asked + 1 /\ served' = served
        /\ e.id = asked + 1
    BY <1>6 DEF QueueEvent
  <2> HIDE DEF e
  <2>2. /\ Len(queue) \in Nat /\ Len(queue') = Len(queue) + 1
        /\ DOMAIN queue' = 1..(Len(queue) + 1) /\ DOMAIN queue = 1..Len(queue)
        /\ \A i \in DOMAIN queue : queue'[i] = queue[i]
        /\ queue'[Len(queue) + 1] = e
    BY <2>1 DEF TypeOK
  <2>3. asked = served + Len(queue)
    BY DEF ServedInOrder
  <2>4. \A i \in DOMAIN queue' : queue'[i].id = served + i
    <3> SUFFICES ASSUME NEW i \in DOMAIN queue' PROVE queue'[i].id = served + i
      OBVIOUS
    <3>1. CASE i \in DOMAIN queue
      BY <3>1, <2>2 DEF ServedInOrder
    <3>2. CASE i = Len(queue) + 1
      BY <3>2, <2>1, <2>2, <2>3 DEF TypeOK
    <3> QED BY <3>1, <3>2, <2>2
  <2> QED BY <2>1, <2>2, <2>3, <2>4 DEF ServedInOrder, TypeOK
<1>7. CASE StartLoop
  BY <1>7 DEF StartLoop, ServedInOrder, queueVars
<1>8. CASE BeginFrame
  BY <1>8 DEF BeginFrame, ServedInOrder, queueVars
<1>9. CASE RunEvent
  <2>1. queue' = Tail(queue) /\ served' = served + 1 /\ queue # <<>> /\ asked' = asked
    BY <1>9 DEF RunEvent, Take
  <2>2. /\ Len(queue) \in Nat \ {0} /\ Len(queue') = Len(queue) - 1
        /\ \A i \in DOMAIN queue' : i + 1 \in DOMAIN queue /\ queue'[i] = queue[i + 1]
        /\ DOMAIN queue' \subseteq Nat
    BY <2>1 DEF TypeOK
  <2>3. \A i \in DOMAIN queue' : queue'[i].id = served + (i + 1)
    BY <2>2 DEF ServedInOrder
  <2>4. served' + Len(queue') = asked'
    <3>1. served \in Nat /\ asked = served + Len(queue)
      BY DEF ServedInOrder, TypeOK
    <3>2. Len(queue) \in Nat \ {0} /\ Len(queue') = Len(queue) - 1
      BY <2>2
    <3> QED BY <2>1, <3>1, <3>2
  <2>5. \A i \in DOMAIN queue' : queue'[i].id = served' + i
    <3> SUFFICES ASSUME NEW i \in DOMAIN queue' PROVE queue'[i].id = served' + i
      OBVIOUS
    <3>1. i \in Nat /\ served \in Nat /\ served' = served + 1
      BY <2>1, <2>2 DEF TypeOK
    <3>2. queue'[i].id = served + (i + 1)
      BY <2>3
    <3>3. served + (i + 1) = (served + 1) + i
      BY <3>1
    <3> QED BY <3>1, <3>2, <3>3
  <2> QED BY <2>4, <2>5 DEF ServedInOrder
<1>10. CASE LeaveEvents
  BY <1>10 DEF LeaveEvents, ServedInOrder, queueVars
<1>11. CASE NoKey
  BY <1>11 DEF NoKey, ServedInOrder, queueVars
<1>12. CASE CallHotReload
  BY <1>12 DEF CallHotReload, ServedInOrder, queueVars
<1>13. CASE CallbackReturns
  BY <1>13 DEF CallbackReturns, ServedInOrder, queueVars
<1>14. CASE CallsOver
  BY <1>14 DEF CallsOver, ServedInOrder, queueVars
<1>15. CASE NothingToSync
  BY <1>15 DEF NothingToSync, ServedInOrder, queueVars
<1>16. CASE Park
  BY <1>16 DEF Park, WakePoller, ServedInOrder, queueVars
<1>17. CASE WaitForOther
  BY <1>17 DEF WaitForOther, ServedInOrder, queueVars
<1>18. CASE StoreIdle
  BY <1>18 DEF StoreIdle, ServedInOrder, queueVars
<1>19. CASE LeaveLoop
  BY <1>19 DEF LeaveLoop, ServedInOrder, queueVars
<1>20. CASE Joined
  BY <1>20 DEF Joined, ServedInOrder, queueVars
<1>21. CASE WaitForMain
  BY <1>21 DEF WaitForMain, PollerSteps, ServedInOrder, queueVars
<1>22. CASE NothingToReload
  BY <1>22 DEF NothingToReload, PollerSteps, ServedInOrder, queueVars
<1>23. CASE PauseAndUninstall
  BY <1>23 DEF PauseAndUninstall, PollerSteps, ServedInOrder, queueVars
<1>24. CASE Replace
  BY <1>24 DEF Replace, PollerSteps, ServedInOrder, queueVars
<1>25. CASE Release
  BY <1>25 DEF Release, ServedInOrder, queueVars
<1>26. CASE StopPolling
  BY <1>26 DEF StopPolling, PollerSteps, ServedInOrder, queueVars
<1>27. CASE EndProgram
  BY <1>27 DEF EndProgram, ServedInOrder, queueVars
<1>28. ASSUME NEW request \in LuaRequest, AskLua(request) PROVE ServedInOrder'
  BY <1>28 DEF AskLua, MayAsk, ServedInOrder, queueVars
<1>29. ASSUME NEW request \in LuaRequest, CallbackAsks(request) PROVE ServedInOrder'
  BY <1>29 DEF CallbackAsks, ServedInOrder, queueVars
<1>30. ASSUME NEW callbacks \in SUBSET Callbacks, PressKey(callbacks) PROVE ServedInOrder'
  BY <1>30 DEF PressKey, ServedInOrder, queueVars
<1>31. ASSUME NEW o \in calls, CallMod(o) PROVE ServedInOrder'
  BY <1>31 DEF CallMod, ServedInOrder, queueVars
<1>32. ASSUME NEW n \in Names, Ask(n) PROVE ServedInOrder'
  BY <1>32 DEF Ask, ServedInOrder, queueVars
<1>33. CASE UNCHANGED vars
  BY <1>33 DEF vars, ServedInOrder, queueVars
<1> QED
  BY <1>1, <1>2, <1>3, <1>4, <1>5, <1>6, <1>7, <1>8, <1>9, <1>10, <1>11, <1>12, 
     <1>13, <1>14, <1>15, <1>16, <1>17, <1>18, <1>19, <1>20, <1>21, <1>22, <1>23, 
     <1>24, <1>25, <1>26, <1>27, <1>28, <1>29, <1>30, <1>31, <1>32, <1>33
     DEF Next, LoopStep, FrameStep, EventStep, CallStep, SyncStep, PollStep

(* The handshake: each side is where the value of the ThreadState says.     *)
LEMMA HandshakeStep ==
  TypeOK /\ SyncAgrees /\ CallbackAlone /\ [Next]_vars => (SyncAgrees /\ CallbackAlone)'
<1> SUFFICES ASSUME TypeOK, SyncAgrees, CallbackAlone, [Next]_vars
             PROVE  (SyncAgrees /\ CallbackAlone)'
  OBVIOUS
<1>1. CASE PressRestartAll
  BY <1>1 DEF PressRestartAll, MayAsk, TypeOK, SyncAgrees, CallbackAlone, pollVars
<1>2. CASE PressRun
  BY <1>2 DEF PressRun, MayAsk, TypeOK, SyncAgrees, CallbackAlone, pollVars
<1>3. CASE MarkPending
  BY <1>3 DEF MarkPending, TypeOK, SyncAgrees, CallbackAlone, pollVars
<1>4. CASE TestProcessing
  BY <1>4 DEF TestProcessing, TypeOK, SyncAgrees, CallbackAlone, pollVars
<1>5. CASE DropRequest
  BY <1>5 DEF DropRequest, Returned, TypeOK, SyncAgrees, CallbackAlone, pollVars
<1>6. CASE QueueEvent
  BY <1>6 DEF QueueEvent, Returned, QueueHeld, TypeOK, SyncAgrees, CallbackAlone, pollVars
<1>7. CASE StartLoop
  BY <1>7 DEF StartLoop, TypeOK, SyncAgrees, CallbackAlone, pollVars
<1>8. CASE BeginFrame
  BY <1>8 DEF BeginFrame, TypeOK, SyncAgrees, CallbackAlone, pollVars
<1>9. CASE RunEvent
  BY <1>9 DEF RunEvent, Take, Execute, TypeOK, SyncAgrees, CallbackAlone, pollVars
<1>10. CASE LeaveEvents
  BY <1>10 DEF LeaveEvents, TypeOK, SyncAgrees, CallbackAlone, pollVars
<1>11. CASE NoKey
  BY <1>11 DEF NoKey, TypeOK, SyncAgrees, CallbackAlone, pollVars
<1>12. CASE CallHotReload
  BY <1>12 DEF CallHotReload, TypeOK, SyncAgrees, CallbackAlone, pollVars
<1>13. CASE CallbackReturns
  BY <1>13 DEF CallbackReturns, TypeOK, SyncAgrees, CallbackAlone, pollVars
<1>14. CASE CallsOver
  BY <1>14 DEF CallsOver, TypeOK, SyncAgrees, CallbackAlone, pollVars
<1>15. CASE NothingToSync
  BY <1>15 DEF NothingToSync, TypeOK, SyncAgrees, CallbackAlone, pollVars
<1>16. CASE Park
  BY <1>16 DEF Park, WakePoller, TypeOK, SyncAgrees, CallbackAlone, pollVars
<1>17. CASE WaitForOther
  BY <1>17 DEF WaitForOther, TypeOK, SyncAgrees, CallbackAlone, pollVars
<1>18. CASE StoreIdle
  BY <1>18 DEF StoreIdle, TypeOK, SyncAgrees, CallbackAlone, pollVars
<1>19. CASE LeaveLoop
  BY <1>19 DEF LeaveLoop, TypeOK, SyncAgrees, CallbackAlone, pollVars
<1>20. CASE Joined
  BY <1>20 DEF Joined, TypeOK, SyncAgrees, CallbackAlone, pollVars
<1>21. CASE WaitForMain
  BY <1>21 DEF WaitForMain, PollerSteps, TypeOK, SyncAgrees, CallbackAlone, pollVars
<1>22. CASE NothingToReload
  BY <1>22 DEF NothingToReload, PollerSteps, TypeOK, SyncAgrees, CallbackAlone, pollVars
<1>23. CASE PauseAndUninstall
  BY <1>23 DEF PauseAndUninstall, PollerSteps, TypeOK, SyncAgrees, CallbackAlone, pollVars
<1>24. CASE Replace
  BY <1>24 DEF Replace, PollerSteps, TypeOK, SyncAgrees, CallbackAlone, pollVars
<1>25. CASE Release
  BY <1>25 DEF Release, TypeOK, SyncAgrees, CallbackAlone, pollVars
<1>26. CASE StopPolling
  BY <1>26 DEF StopPolling, PollerSteps, TypeOK, SyncAgrees, CallbackAlone, pollVars
<1>27. CASE EndProgram
  BY <1>27 DEF EndProgram, TypeOK, SyncAgrees, CallbackAlone, pollVars
<1>28. ASSUME NEW request \in LuaRequest, AskLua(request) PROVE (SyncAgrees /\ CallbackAlone)'
  BY <1>28 DEF AskLua, MayAsk, TypeOK, SyncAgrees, CallbackAlone, pollVars
<1>29. ASSUME NEW request \in LuaRequest, CallbackAsks(request) PROVE (SyncAgrees /\ CallbackAlone)'
  BY <1>29 DEF CallbackAsks, TypeOK, SyncAgrees, CallbackAlone, pollVars
<1>30. ASSUME NEW callbacks \in SUBSET Callbacks, PressKey(callbacks) PROVE (SyncAgrees /\ CallbackAlone)'
  BY <1>30 DEF PressKey, TypeOK, SyncAgrees, CallbackAlone, pollVars
<1>31. ASSUME NEW o \in calls, CallMod(o) PROVE (SyncAgrees /\ CallbackAlone)'
  BY <1>31 DEF CallMod, TypeOK, SyncAgrees, CallbackAlone, pollVars
<1>32. ASSUME NEW n \in Names, Ask(n) PROVE (SyncAgrees /\ CallbackAlone)'
  BY <1>32 DEF Ask, TypeOK, SyncAgrees, CallbackAlone, pollVars
<1>33. CASE UNCHANGED vars
  BY <1>33 DEF vars, TypeOK, SyncAgrees, CallbackAlone, pollVars
<1> QED
  BY <1>1, <1>2, <1>3, <1>4, <1>5, <1>6, <1>7, <1>8, <1>9, <1>10, <1>11, <1>12, 
     <1>13, <1>14, <1>15, <1>16, <1>17, <1>18, <1>19, <1>20, <1>21, <1>22, <1>23, 
     <1>24, <1>25, <1>26, <1>27, <1>28, <1>29, <1>30, <1>31, <1>32, <1>33
     DEF Next, LoopStep, FrameStep, EventStep, CallStep, SyncStep, PollStep

(* A callback that is called belongs to an object that was not replaced: a  *)
(* reload of the watcher finds the loop parked, an event finds no callback. *)
LEMMA CallsStep ==
  TypeOK /\ CallbackAlone /\ RunningOnlyInCallback /\ CallsAreOpen /\ [Next]_vars => (RunningOnlyInCallback /\ CallsAreOpen)'
<1> SUFFICES ASSUME TypeOK, CallbackAlone, RunningOnlyInCallback, CallsAreOpen, [Next]_vars
             PROVE  (RunningOnlyInCallback /\ CallsAreOpen)'
  OBVIOUS
<1>1. CASE PressRestartAll
  BY <1>1 DEF PressRestartAll, MayAsk, RunningOnlyInCallback, CallsAreOpen, IsCurrent, inputVars, modVars, pollVars
<1>2. CASE PressRun
  BY <1>2 DEF PressRun, MayAsk, RunningOnlyInCallback, CallsAreOpen, IsCurrent, inputVars, modVars, pollVars
<1>3. CASE MarkPending
  BY <1>3 DEF MarkPending, RunningOnlyInCallback, CallsAreOpen, IsCurrent, inputVars, modVars, pollVars
<1>4. CASE TestProcessing
  BY <1>4 DEF TestProcessing, RunningOnlyInCallback, CallsAreOpen, IsCurrent, inputVars, modVars, pollVars
<1>5. CASE DropRequest
  BY <1>5 DEF DropRequest, Returned, RunningOnlyInCallback, CallsAreOpen, IsCurrent, inputVars, modVars, pollVars
<1>6. CASE QueueEvent
  BY <1>6 DEF QueueEvent, Returned, QueueHeld, RunningOnlyInCallback, CallsAreOpen, IsCurrent, inputVars, modVars, pollVars
<1>7. CASE StartLoop
  BY <1>7 DEF StartLoop, RunningOnlyInCallback, CallsAreOpen, IsCurrent, inputVars, modVars, pollVars
<1>8. CASE BeginFrame
  BY <1>8 DEF BeginFrame, RunningOnlyInCallback, CallsAreOpen, IsCurrent, inputVars, modVars, pollVars
<1>9. CASE RunEvent
  BY <1>9 DEF RunEvent, Take, TypeOK, RunningOnlyInCallback, CallsAreOpen, inputVars
<1>10. CASE LeaveEvents
  BY <1>10 DEF LeaveEvents, RunningOnlyInCallback, CallsAreOpen, IsCurrent, inputVars, modVars, pollVars
<1>11. CASE NoKey
  BY <1>11 DEF NoKey, RunningOnlyInCallback, CallsAreOpen, IsCurrent, inputVars, modVars, pollVars
<1>12. CASE CallHotReload
  BY <1>12 DEF CallHotReload, RunningOnlyInCallback, CallsAreOpen
<1>13. CASE CallbackReturns
  BY <1>13 DEF CallbackReturns, RunningOnlyInCallback, CallsAreOpen, IsCurrent, inputVars, modVars, pollVars
<1>14. CASE CallsOver
  BY <1>14 DEF CallsOver, RunningOnlyInCallback, CallsAreOpen, IsCurrent, inputVars, modVars, pollVars
<1>15. CASE NothingToSync
  BY <1>15 DEF NothingToSync, RunningOnlyInCallback, CallsAreOpen, IsCurrent, inputVars, modVars, pollVars
<1>16. CASE Park
  BY <1>16 DEF Park, WakePoller, RunningOnlyInCallback, CallsAreOpen, IsCurrent, inputVars, modVars, pollVars
<1>17. CASE WaitForOther
  BY <1>17 DEF WaitForOther, RunningOnlyInCallback, CallsAreOpen, IsCurrent, inputVars, modVars, pollVars
<1>18. CASE StoreIdle
  BY <1>18 DEF StoreIdle, RunningOnlyInCallback, CallsAreOpen, IsCurrent, inputVars, modVars, pollVars
<1>19. CASE LeaveLoop
  BY <1>19 DEF LeaveLoop, RunningOnlyInCallback, CallsAreOpen, IsCurrent, inputVars, modVars, pollVars
<1>20. CASE Joined
  BY <1>20 DEF Joined, RunningOnlyInCallback, CallsAreOpen, IsCurrent, inputVars, modVars, pollVars
<1>21. CASE WaitForMain
  BY <1>21 DEF WaitForMain, PollerSteps, RunningOnlyInCallback, CallsAreOpen, IsCurrent, inputVars, modVars, pollVars
<1>22. CASE NothingToReload
  BY <1>22 DEF NothingToReload, PollerSteps, RunningOnlyInCallback, CallsAreOpen, IsCurrent, inputVars, modVars, pollVars
<1>23. CASE PauseAndUninstall
  BY <1>23 DEF PauseAndUninstall, PollerSteps, RunningOnlyInCallback, CallsAreOpen, IsCurrent, inputVars, modVars, pollVars
<1>24. CASE Replace
  BY <1>24 DEF Replace, PollerSteps, RunningOnlyInCallback, CallsAreOpen, CallbackAlone, inputVars
<1>25. CASE Release
  BY <1>25 DEF Release, RunningOnlyInCallback, CallsAreOpen, IsCurrent, inputVars, modVars, pollVars
<1>26. CASE StopPolling
  BY <1>26 DEF StopPolling, PollerSteps, RunningOnlyInCallback, CallsAreOpen, IsCurrent, inputVars, modVars, pollVars
<1>27. CASE EndProgram
  BY <1>27 DEF EndProgram, RunningOnlyInCallback, CallsAreOpen, IsCurrent, inputVars, modVars, pollVars
<1>28. ASSUME NEW request \in LuaRequest, AskLua(request) PROVE (RunningOnlyInCallback /\ CallsAreOpen)'
  BY <1>28 DEF AskLua, MayAsk, RunningOnlyInCallback, CallsAreOpen, IsCurrent, inputVars, modVars, pollVars
<1>29. ASSUME NEW request \in LuaRequest, CallbackAsks(request) PROVE (RunningOnlyInCallback /\ CallsAreOpen)'
  BY <1>29 DEF CallbackAsks, RunningOnlyInCallback, CallsAreOpen
<1>30. ASSUME NEW callbacks \in SUBSET Callbacks, PressKey(callbacks) PROVE (RunningOnlyInCallback /\ CallsAreOpen)'
  <2>1. \A o \in callbacks \ {HotReload} : IsCurrent(o)
    BY DEF Callbacks, ObjectOf, IsCurrent
  <2>2. /\ calls' = callbacks /\ running' = running /\ loopPc = "input" /\ loopPc' = "calls"
        /\ current' = current
    BY <1>30 DEF PressKey, modVars
  <2>3. running' = None
    BY <2>2 DEF RunningOnlyInCallback
  <2> QED BY <2>1, <2>2, <2>3 DEF RunningOnlyInCallback, CallsAreOpen, IsCurrent
<1>31. ASSUME NEW o \in calls, CallMod(o) PROVE (RunningOnlyInCallback /\ CallsAreOpen)'
  BY <1>31 DEF CallMod, RunningOnlyInCallback, CallsAreOpen, IsCurrent, modVars, pollVars
<1>32. ASSUME NEW n \in Names, Ask(n) PROVE (RunningOnlyInCallback /\ CallsAreOpen)'
  BY <1>32 DEF Ask, RunningOnlyInCallback, CallsAreOpen, IsCurrent, inputVars, modVars, pollVars
<1>33. CASE UNCHANGED vars
  BY <1>33 DEF vars, RunningOnlyInCallback, CallsAreOpen, IsCurrent, inputVars, modVars, pollVars
<1> QED
  BY <1>1, <1>2, <1>3, <1>4, <1>5, <1>6, <1>7, <1>8, <1>9, <1>10, <1>11, <1>12, 
     <1>13, <1>14, <1>15, <1>16, <1>17, <1>18, <1>19, <1>20, <1>21, <1>22, <1>23, 
     <1>24, <1>25, <1>26, <1>27, <1>28, <1>29, <1>30, <1>31, <1>32, <1>33
     DEF Next, LoopStep, FrameStep, EventStep, CallStep, SyncStep, PollStep

(* The initial state.                                                       *)
LEMMA InitInv == Init => IInv
<1> SUFFICES ASSUME Init PROVE IInv
  OBVIOUS
<1>1. TypeOK
  <2>1. queue \in Seq(Event) /\ frame \in 0..PerFrame /\ keys \in 0..MaxKeys
        /\ reloads \in 0..MaxReloads
    BY ConstantsAssumption DEF Init
  <2>2. current \in [Names -> Nat] /\ born \in [Names -> Nat]
    BY DEF Init
  <2>3. /\ processing \in BOOLEAN /\ paused \in BOOLEAN /\ meddled \in BOOLEAN
        /\ stop \in BOOLEAN /\ early \in BOOLEAN /\ busy \in BOOLEAN /\ replPending \in BOOLEAN
    BY DEF Init
  <2> QED BY <2>1, <2>2, <2>3 DEF Init, TypeOK, LoopPCs, PollPCs, SyncStates
<1>2. ServedInOrder /\ WantIsKnown
  BY DEF Init, ServedInOrder, WantIsKnown
<1>3. SyncAgrees /\ CallbackAlone /\ RunningOnlyInCallback /\ CallsAreOpen
  BY DEF Init, SyncAgrees, CallbackAlone, RunningOnlyInCallback, CallsAreOpen
<1> QED BY <1>1, <1>2, <1>3 DEF IInv

(* The whole invariant, and with it the types, holds in every state of      *)
(* update() and of the threads that wait for it.                            *)
THEOREM InvHolds == Spec => []IInv
<1>1. IInv /\ [Next]_vars => IInv'
  BY TypeStep, WantStep, OrderStep, HandshakeStep, CallsStep DEF IInv
<1> QED BY InitInv, <1>1, PTL DEF Spec

(* queue_event and the event loop lose no request, execute none twice and   *)
(* keep their order, whatever the limit of a frame is.                      *)
THEOREM ServedInOrderHolds == Spec => []ServedInOrder
<1>1. IInv => ServedInOrder
  BY DEF IInv
<1> QED BY InvHolds, <1>1, PTL

(* Sync.hpp's handshake keeps its promise: the file watcher's callback runs *)
(* while the event loop is parked (until it asks while its last request is  *)
(* still being finished).                                                   *)
THEOREM CallbackAloneHolds == Spec => []CallbackAlone
<1>1. IInv => CallbackAlone
  BY DEF IInv
<1> QED BY InvHolds, <1>1, PTL

(* A keybind callback is called on a mod that is still there, unless one    *)
(* before it, for the same key, asked for a restart.                        *)
THEOREM CallsAreOpenHolds == Spec => []CallsAreOpen
<1>1. IInv => CallsAreOpen
  BY DEF IInv
<1> QED BY InvHolds, <1>1, PTL
=============================================================================
