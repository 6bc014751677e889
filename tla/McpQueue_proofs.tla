---------------------------- MODULE McpQueue_proofs ----------------------------
(***************************************************************************)
(* Proofs about McpQueue: the inductive invariant IInv, and that every step *)
(* of the queue is a step of EvalService.                                   *)
(***************************************************************************)
EXTENDS McpQueue, SequenceTheorems, TLAPS

Elems(s) == {s[i] : i \in DOMAIN s}

(* Appending a new element: the sequence has one element more, and no two   *)
(* positions agree.                                                         *)
LEMMA AppendElems ==
  ASSUME NEW S, NEW s \in Seq(S), NEW e \in S
  PROVE  /\ Append(s, e) \in Seq(S)
         /\ Elems(Append(s, e)) = Elems(s) \cup {e}
         /\ (Distinct(s) /\ e \notin Elems(s)) => Distinct(Append(s, e))
<1> DEFINE t == Append(s, e)
<1>1. t \in Seq(S) /\ Len(t) = Len(s) + 1 /\ DOMAIN t = 1..Len(t) /\ DOMAIN s = 1..Len(s)
      /\ Len(s) \in Nat
  OBVIOUS
<1>2. (\A i \in 1..Len(s) : t[i] = s[i]) /\ t[Len(s) + 1] = e
  OBVIOUS
<1> HIDE DEF t
<1>3. \A i \in DOMAIN t : i \in DOMAIN s \/ i = Len(s) + 1
  BY <1>1
<1>4. Len(s) + 1 \in DOMAIN t /\ \A i \in DOMAIN s : i \in DOMAIN t
  BY <1>1
<1>5. Elems(t) = Elems(s) \cup {e}
  BY <1>1, <1>2, <1>3, <1>4 DEF Elems
<1>6. (Distinct(s) /\ e \notin Elems(s)) => Distinct(t)
  BY <1>1, <1>2, <1>3 DEF Elems, Distinct
<1> QED BY <1>1, <1>5, <1>6 DEF t

(* Taking the head off a sequence without repetitions takes it out of the   *)
(* set of its elements.                                                     *)
LEMMA TailElems ==
  ASSUME NEW S, NEW s \in Seq(S), s # <<>>, Distinct(s)
  PROVE  /\ Tail(s) \in Seq(S) /\ Distinct(Tail(s))
         /\ Head(s) = s[1] /\ Head(s) \in Elems(s) /\ Head(s) \in S
         /\ Elems(Tail(s)) = Elems(s) \ {Head(s)}
<1> DEFINE t == Tail(s)
<1>1. t \in Seq(S) /\ Len(t) = Len(s) - 1 /\ DOMAIN t = 1..Len(t) /\ DOMAIN s = 1..Len(s)
      /\ Len(s) \in Nat /\ Len(s) >= 1 /\ Head(s) = s[1]
  OBVIOUS
<1>2. \A i \in 1..Len(t) : t[i] = s[i + 1]
  OBVIOUS
<1> HIDE DEF t
<1>3. \A i \in DOMAIN t : i + 1 \in DOMAIN s /\ i + 1 # 1
  BY <1>1
<1>4. \A i \in DOMAIN s : i # 1 => i - 1 \in DOMAIN t /\ t[i - 1] = s[i]
  <2> SUFFICES ASSUME NEW i \in DOMAIN s, i # 1
               PROVE  i - 1 \in DOMAIN t /\ t[i - 1] = s[i]
    OBVIOUS
  <2>1. i - 1 \in 1..Len(t) /\ i = (i - 1) + 1
    BY <1>1
  <2> QED BY <1>1, <1>2, <2>1
<1>5. 1 \in DOMAIN s /\ \A i \in DOMAIN s : s[i] = s[1] => i = 1
  BY <1>1 DEF Distinct
<1>6. Elems(t) = Elems(s) \ {Head(s)}
  <2>1. \A x \in Elems(t) : x \in Elems(s) /\ x # Head(s)
    BY <1>1, <1>2, <1>3, <1>5 DEF Elems
  <2>2. \A x \in Elems(s) : x # Head(s) => x \in Elems(t)
    BY <1>1, <1>4 DEF Elems
  <2> QED BY <2>1, <2>2
<1>7. Distinct(t)
  <2> SUFFICES ASSUME NEW i \in DOMAIN t, NEW j \in DOMAIN t, t[i] = t[j]
               PROVE  i = j
    BY DEF Distinct
  <2>1. s[i + 1] = s[j + 1] /\ i + 1 \in DOMAIN s /\ j + 1 \in DOMAIN s
    BY <1>1, <1>2, <1>3
  <2>2. i + 1 = j + 1
    BY <2>1 DEF Distinct
  <2> QED BY <1>1, <2>2
<1>8. Head(s) \in S /\ Head(s) \in Elems(s)
  BY <1>1, <1>5 DEF Elems
<1> QED BY <1>1, <1>6, <1>7, <1>8 DEF t

LEMMA InQueueElems == InQueue = Elems(queue) /\ InBatch = Elems(batch)
BY DEF InQueue, InBatch, Elems

LEMMA InQueueElemsNext == InQueue' = Elems(queue') /\ InBatch' = Elems(batch')
BY DEF InQueue, InBatch, Elems

LEMMA InitInv == Init => IInv
<1> SUFFICES ASSUME Init PROVE IInv
  OBVIOUS
<1>1. TypeOK
  <2>1. <<>> \in Seq(Requests)
    OBVIOUS
  <2>2. call \in [Requests -> CallStates]
    BY DEF Init, CallStates
  <2> QED BY <2>1, <2>2 DEF Init, TypeOK, GamePCs
<1>2. InQueue = {} /\ InBatch = {}
  BY DEF Init, InQueue, InBatch
<1>3. NoRequestLost
  BY <1>2 DEF Init, NoRequestLost, Distinct
<1>4. FlagsAgree
  BY <1>2 DEF Init, FlagsAgree
<1> QED BY <1>1, <1>3, <1>4 DEF IInv

(* The steps of the clients change neither the queue nor the batch, except  *)
(* for the request that is queued.                                          *)
LEMMA StepInv == IInv /\ [Next]_vars => IInv'
<1> SUFFICES ASSUME IInv, [Next]_vars PROVE IInv'
  OBVIOUS
<1> USE DEF IInv
<1> USE InQueueElems, InQueueElemsNext
<1>1. ASSUME NEW r \in Requests, QueueAndWait(r) PROVE IInv'
  <2>1. r \notin Elems(queue) /\ r \notin Elems(batch)
    BY <1>1 DEF QueueAndWait, FlagsAgree
  <2>2. /\ queue' \in Seq(Requests) /\ Elems(queue') = Elems(queue) \cup {r}
        /\ Distinct(queue') /\ arrived' \in Seq(Requests)
    BY <1>1, <2>1, AppendElems DEF QueueAndWait, TypeOK, NoRequestLost
  <2>3. TypeOK'
    BY <1>1, <2>2 DEF QueueAndWait, TypeOK, CallStates, gameVars
  <2>4. NoRequestLost'
    BY <1>1, <2>1, <2>2 DEF QueueAndWait, NoRequestLost, TypeOK, gameVars, Distinct
  <2>5. call' = [call EXCEPT ![r] = "waiting"] /\ r \notin done /\ call[r] = "idle" /\ ~shutting
        /\ UNCHANGED <<shutting, done, abandoned, gamePc, batch>>
    BY <1>1 DEF QueueAndWait, FlagsAgree, gameVars
  <2>6. r \notin abandoned
    BY <1>1, <2>5 DEF FlagsAgree
  <2>7. \A q \in Requests : call'[q] = IF q = r THEN "waiting" ELSE call[q]
    BY <2>5 DEF TypeOK
  <2>8. \A q \in Elems(queue') \cup Elems(batch') :
          q \in Requests /\ q \notin done /\ call'[q] \notin {"idle", "refused"}
    <3> TAKE q \in Elems(queue') \cup Elems(batch')
    <3>1. q = r \/ (q # r /\ q \in InQueue \cup InBatch)
      BY <2>2, <2>5
    <3>2. q \in Requests
      BY <2>2, <2>5 DEF TypeOK, Elems
    <3>3. q # r => q \notin done /\ call[q] \notin {"idle", "refused"}
      BY <3>1 DEF FlagsAgree
    <3> QED BY <2>5, <2>7, <3>1, <3>2, <3>3
  <2>9. FlagsAgree'
    BY <2>5, <2>6, <2>7, <2>8 DEF FlagsAgree
  <2> QED BY <2>3, <2>4, <2>9
<1>2. ASSUME NEW r \in Requests, Refuse(r) PROVE IInv'
  BY <1>2 DEF Refuse, TypeOK, NoRequestLost, FlagsAgree, CallStates, gameVars, Distinct
<1>3. ASSUME NEW r \in Requests, Expire(r) PROVE IInv'
  BY <1>3 DEF Expire, TypeOK, NoRequestLost, FlagsAgree, gameVars, Distinct
<1>4. ASSUME NEW r \in Requests, SleepAgain(r) PROVE IInv'
  BY <1>4 DEF SleepAgain, TypeOK, NoRequestLost, FlagsAgree, gameVars, Distinct
<1>5. ASSUME NEW r \in Requests, Answer(r) PROVE IInv'
  BY <1>5 DEF Answer, MayLook, Return, TypeOK, NoRequestLost, FlagsAgree, CallStates, gameVars, Distinct
<1>6. ASSUME NEW r \in Requests, TimeOut(r) PROVE IInv'
  BY <1>6 DEF TimeOut, MayLook, Return, TypeOK, NoRequestLost, FlagsAgree, CallStates, gameVars, Distinct
<1>7. ASSUME NEW r \in Requests, ToldStopped(r) PROVE IInv'
  BY <1>7 DEF ToldStopped, MayLook, Return, TypeOK, NoRequestLost, FlagsAgree, CallStates, gameVars, Distinct
<1>8. CASE TakeBatch
  <2>1. batch = <<>> => Elems(batch) = {}
    BY DEF Elems
  <2>2. queue' = <<>> /\ batch' = queue /\ Elems(queue') = {} /\ batch = <<>>
    BY <1>8 DEF TakeBatch, Elems, FlagsAgree
  <2>3. TypeOK'
    BY <1>8, <2>2 DEF TakeBatch, TypeOK, GamePCs, clientVars
  <2>4. NoRequestLost'
    BY <1>8, <2>1, <2>2 DEF TakeBatch, NoRequestLost, clientVars, Distinct
  <2>5. FlagsAgree'
    BY <1>8, <2>1, <2>2 DEF TakeBatch, FlagsAgree, clientVars
  <2> QED BY <2>3, <2>4, <2>5
<1>9. CASE SkipAbandoned
  <2>1. /\ batch' = Tail(batch) /\ batch' \in Seq(Requests) /\ Distinct(batch')
        /\ Head(batch) \in Elems(batch) /\ Elems(batch') = Elems(batch) \ {Head(batch)}
        /\ Head(batch) \in abandoned /\ gamePc = "look"
        /\ UNCHANGED <<queue, shutting, stopPc, done, clientVars, gamePc, arrived, started>>
    BY <1>9, TailElems DEF SkipAbandoned, TypeOK, NoRequestLost
  <2>2. TypeOK'
    BY <2>1 DEF TypeOK, clientVars
  <2>3. Head(batch) \in Requests /\ (call[Head(batch)] = "waiting" => shutting)
    BY <2>1 DEF TypeOK, FlagsAgree
  <2>4. NoRequestLost'
    BY <2>1, <2>3 DEF NoRequestLost, clientVars, Distinct
  <2>5. FlagsAgree'
    BY <2>1 DEF FlagsAgree, clientVars
  <2> QED BY <2>2, <2>4, <2>5
<1>16. CASE ChooseEval
  BY <1>16 DEF ChooseEval, TypeOK, NoRequestLost, FlagsAgree, GamePCs, clientVars, Distinct
<1>10. CASE StartEval
  <2>1. /\ Head(batch) = batch[1] /\ batch # <<>>
        /\ started' = Append(started, Head(batch)) /\ gamePc' = "eval" /\ gamePc = "chosen"
        /\ UNCHANGED <<queue, shutting, stopPc, done, clientVars, batch, arrived>>
    BY <1>10 DEF StartEval, FlagsAgree
  <2>2. started' \in Seq(Requests)
    BY <2>1 DEF TypeOK
  <2>3. TypeOK'
    BY <2>1, <2>2 DEF TypeOK, clientVars, GamePCs
  <2>4. NoRequestLost'
    BY <2>1 DEF NoRequestLost, clientVars, Distinct
  <2>5. FlagsAgree'
    BY <2>1 DEF FlagsAgree, clientVars
  <2> QED BY <2>3, <2>4, <2>5
<1>11. CASE StoreResult
  <2>1. batch # <<>>
    BY <1>11 DEF StoreResult, FlagsAgree
  <2>2. /\ batch' = Tail(batch) /\ batch' \in Seq(Requests) /\ Distinct(batch')
        /\ Head(batch) \in Elems(batch) /\ Elems(batch') = Elems(batch) \ {Head(batch)}
        /\ Head(batch) \in Requests /\ done' = done \cup {Head(batch)} /\ gamePc' = "look"
        /\ UNCHANGED <<queue, shutting, stopPc, clientVars, arrived, started>>
    BY <1>11, <2>1, TailElems DEF StoreResult, TypeOK, NoRequestLost
  <2>3. TypeOK'
    BY <2>2 DEF TypeOK, clientVars, GamePCs
  <2>4. NoRequestLost'
    BY <2>2 DEF NoRequestLost, clientVars, Distinct
  <2>5. FlagsAgree'
    BY <2>2 DEF FlagsAgree, NoRequestLost, clientVars
  <2> QED BY <2>3, <2>4, <2>5
<1>12. CASE NotifyAfterBatch
  BY <1>12 DEF NotifyAfterBatch, Waiting, TypeOK, NoRequestLost, FlagsAgree, GamePCs, Distinct
<1>13. CASE StopMarks
  <2>1. /\ shutting' = TRUE /\ queue' = <<>> /\ Elems(queue') = {}
        /\ abandoned' = abandoned \cup Elems(queue) /\ stopPc' = "notify"
        /\ UNCHANGED <<call, done, notified, expired, arrived, gameVars>>
    BY <1>13 DEF StopMarks, Elems
  <2>2. Elems(queue) \subseteq Requests
    BY DEF TypeOK, Elems
  <2>3. TypeOK'
    BY <2>1, <2>2 DEF TypeOK, gameVars
  <2>4. NoRequestLost'
    BY <2>1 DEF NoRequestLost, gameVars, Distinct
  <2>5. FlagsAgree'
    BY <2>1 DEF FlagsAgree, gameVars
  <2> QED BY <2>3, <2>4, <2>5
<1>14. CASE StopNotifies
  BY <1>14 DEF StopNotifies, Waiting, TypeOK, NoRequestLost, FlagsAgree, gameVars, Distinct
<1>15. CASE UNCHANGED vars
  BY <1>15 DEF vars, TypeOK, NoRequestLost, FlagsAgree, Distinct
<1> QED
  BY <1>1, <1>2, <1>3, <1>4, <1>5, <1>6, <1>7, <1>8, <1>9, <1>10, <1>11, <1>12, <1>13, <1>14,
     <1>15, <1>16 DEF Next, Look, GameStep

(* In every reachable state a waiting request is in one place, and what its *)
(* caller was told agrees with its flags.                                   *)
THEOREM InvHolds == Spec => []IInv
BY InitInv, StepInv, PTL DEF Spec

(* No request is lost or kept twice (the queue, the batch, the swap and the *)
(* skips of MCPServer.cpp).                                                 *)
THEOREM NoRequestLostHolds == Spec => []NoRequestLost
BY InvHolds, PTL DEF IInv

THEOREM TypeOKHolds == Spec => []TypeOK
BY InvHolds, PTL DEF IInv

-----------------------------------------------------------------------------
(* The refinement.                                                          *)

LEMMA InitRefines == Init => Service!Init
BY DEF Init, Service!Init, Told, Executed

LEMMA StepRefines == IInv /\ [Next]_vars => [Service!Next]_(Service!vars)
<1> SUFFICES ASSUME IInv, [Next]_vars PROVE [Service!Next]_(Service!vars)
  OBVIOUS
<1> USE DEF IInv
<1> DEFINE c == [r \in Requests |-> Told(r)]
           x == [r \in Requests |-> Executed(r)]
<1> USE DEF Service!Next, Service!Ask, Service!Choose, Service!Begin, Service!Finish, Service!Answer,
            Service!GiveUp, Service!vars
(* A step that changes no call and nothing the game thread did stutters.    *)
<1>1. ASSUME UNCHANGED <<call, done, gamePc, batch>> PROVE UNCHANGED <<c, x>>
  BY <1>1 DEF Told, Executed
(* A caller goes from one state to another while the game thread does not   *)
(* move.                                                                    *)
<1>2. ASSUME NEW r \in Requests, NEW to \in CallStates, call' = [call EXCEPT ![r] = to],
             UNCHANGED <<done, gamePc, batch>>
      PROVE  c' = [c EXCEPT ![r] = Told(r)'] /\ x' = x /\ call'[r] = to
  <2>1. \A q \in Requests : call'[q] = IF q = r THEN to ELSE call[q]
    BY <1>2 DEF TypeOK
  <2>2. \A q \in Requests : q # r => Told(q)' = Told(q)
    BY <2>1 DEF Told
  <2>3. \A q \in Requests : Executed(q)' = Executed(q)
    BY <1>2 DEF Executed
  <2> QED BY <2>1, <2>2, <2>3
<1>3. ASSUME NEW r \in Requests, QueueAndWait(r) PROVE Service!Ask(r)
  <2>1. call' = [call EXCEPT ![r] = "waiting"] /\ call[r] = "idle" /\ UNCHANGED <<done, gamePc, batch>>
    BY <1>3 DEF QueueAndWait, gameVars
  <2>2. Told(r) = "idle" /\ Told(r)' = "open"
    BY <1>2, <2>1 DEF Told, CallStates
  <2> QED BY <1>2, <2>1, <2>2 DEF CallStates
<1>4. ASSUME NEW r \in Requests, Refuse(r) PROVE Service!Ask(r)
  <2>1. call' = [call EXCEPT ![r] = "refused"] /\ call[r] = "idle" /\ UNCHANGED <<done, gamePc, batch>>
    BY <1>4 DEF Refuse, gameVars
  <2>2. Told(r) = "idle" /\ Told(r)' = "failed"
    BY <1>2, <2>1 DEF Told, CallStates
  <2> QED BY <1>2, <2>1, <2>2 DEF CallStates
<1>5. ASSUME NEW r \in Requests, Answer(r) PROVE Service!Answer(r)
  <2>1. /\ call' = [call EXCEPT ![r] = "answered"] /\ call[r] = "waiting" /\ r \in done
        /\ UNCHANGED <<done, gamePc, batch>>
    BY <1>5 DEF Answer, MayLook, Return, gameVars
  <2>2. Told(r) = "open" /\ Told(r)' = "answered" /\ Executed(r) = "finished"
    BY <1>2, <2>1 DEF Told, Executed, CallStates
  <2> QED BY <1>2, <2>1, <2>2 DEF CallStates
<1>6. ASSUME NEW r \in Requests, TimeOut(r) \/ ToldStopped(r) PROVE Service!GiveUp(r)
  <2>1. PICK how \in {"timedOut", "stopped"} :
          /\ call' = [call EXCEPT ![r] = how] /\ call[r] = "waiting" /\ r \notin done
          /\ UNCHANGED <<done, gamePc, batch>>
    BY <1>6 DEF TimeOut, ToldStopped, MayLook, Return, gameVars
  <2>2. Told(r) = "open" /\ Told(r)' = "failed" /\ Executed(r) # "finished"
    BY <1>2, <2>1 DEF Told, Executed, CallStates
  <2> QED BY <1>2, <2>1, <2>2 DEF CallStates
<1>7. CASE ChooseEval
  <2>0. batch # <<>> /\ batch[1] \in InBatch /\ batch[1] \in Requests
    BY <1>7 DEF ChooseEval, InBatch, TypeOK
  <2> PICK r \in Requests : r = batch[1]
    BY <2>0
  <2>1. /\ batch # <<>> /\ r \notin abandoned /\ gamePc = "look" /\ gamePc' = "chosen"
        /\ UNCHANGED <<call, done, batch>>
    BY <1>7 DEF ChooseEval, clientVars
  <2>2. r \in InBatch
    BY <2>0
  <2>3. call[r] = "waiting" /\ r \notin done
    BY <2>1, <2>2 DEF FlagsAgree, TypeOK, CallStates
  <2>4. Told(r) = "open" /\ \A q \in Requests : Executed(q) \notin {"chosen", "running"}
    BY <2>1, <2>3 DEF Told, Executed
  <2>5. Executed(r) = "no" /\ Executed(r)' = "chosen"
    BY <2>1, <2>3 DEF Executed
  <2>6. \A q \in Requests : Told(q)' = Told(q) /\ (q # r => Executed(q)' = Executed(q))
    BY <2>1 DEF Told, Executed
  <2>7. Service!Choose(r)
    BY <2>4, <2>5, <2>6
  <2> QED BY <2>7
(* The caller may be told anything by now: the code starts all the same.    *)
<1>11. CASE StartEval
  <2>0. batch # <<>> /\ batch[1] \in InBatch /\ batch[1] \in Requests
    BY <1>11 DEF StartEval, FlagsAgree, InBatch, TypeOK
  <2> PICK r \in Requests : r = batch[1]
    BY <2>0
  <2>1. /\ gamePc = "chosen" /\ gamePc' = "eval" /\ UNCHANGED <<call, done, batch>>
    BY <1>11 DEF StartEval, clientVars
  <2>2. r \notin done
    BY <2>0 DEF FlagsAgree
  <2>3. Executed(r) = "chosen" /\ Executed(r)' = "running"
    BY <2>1, <2>2 DEF Executed
  <2>4. \A q \in Requests : Told(q)' = Told(q) /\ (q # r => Executed(q)' = Executed(q))
    BY <2>1 DEF Told, Executed
  <2>5. Service!Begin(r)
    BY <2>3, <2>4
  <2> QED BY <2>5
<1>8. CASE StoreResult
  <2>0. batch # <<>> /\ batch[1] \in InBatch /\ batch[1] \in Requests
    BY <1>8 DEF StartEval, StoreResult, FlagsAgree, InBatch, TypeOK
  <2> PICK r \in Requests : r = batch[1]
    BY <2>0
  <2>1. /\ batch # <<>> /\ gamePc = "eval" /\ gamePc' = "look" /\ done' = done \cup {r}
        /\ UNCHANGED call
    BY <1>8 DEF StoreResult, clientVars, FlagsAgree
  <2>2. r \in InBatch
    BY <2>0
  <2>3. r \notin done
    BY <2>1, <2>2 DEF FlagsAgree
  <2>4. Executed(r) = "running" /\ Executed(r)' = "finished"
    BY <2>1, <2>3 DEF Executed
  <2>5. \A q \in Requests : Told(q)' = Told(q) /\ (q # r => Executed(q)' = Executed(q))
    BY <2>1 DEF Told, Executed
  <2>6. Service!Finish(r)
    BY <2>4, <2>5
  <2> QED BY <2>6
(* The batch changes only while no code runs.                               *)
<1>9. CASE TakeBatch \/ SkipAbandoned \/ NotifyAfterBatch
  <2>1. {gamePc, gamePc'} \cap {"chosen", "eval"} = {} /\ UNCHANGED <<call, done>>
    BY <1>9 DEF TakeBatch, SkipAbandoned, NotifyAfterBatch, clientVars
  <2> QED BY <2>1 DEF Told, Executed
<1>10. CASE (\E r \in Requests : Expire(r) \/ SleepAgain(r)) \/ StopMarks \/ StopNotifies \/ UNCHANGED vars
  BY <1>1, <1>10 DEF Expire, SleepAgain, StopMarks, StopNotifies, gameVars, vars
<1> QED
  BY <1>3, <1>4, <1>5, <1>6, <1>7, <1>8, <1>9, <1>10, <1>11 DEF Next, Look, GameStep

(* The queue keeps the promise of EvalService (queue_and_wait,              *)
(* process_game_thread_queue and stop of MCPServer.cpp), for any number of  *)
(* requests.                                                                *)
THEOREM Refines == Spec => ServiceSpec
BY InitRefines, StepRefines, InvHolds, PTL DEF Spec, ServiceSpec, Service!Spec
-----------------------------------------------------------------------------
(* The order of the calls.                                                  *)

(* OrderKept made inductive: what started came before what is in the batch, *)
(* that before what is in the queue, and both are in order of arrival.      *)
QueuesInOrder ==
  /\ \A i, j \in DOMAIN queue : i < j => CameBefore(queue[i], queue[j])
  /\ \A i, j \in DOMAIN batch : i < j => CameBefore(batch[i], batch[j])
  /\ \A i \in DOMAIN batch, j \in DOMAIN queue : CameBefore(batch[i], queue[j])

StartedFirst ==
  /\ \A i \in DOMAIN started, j \in DOMAIN queue : CameBefore(started[i], queue[j])
  /\ \A i \in DOMAIN started, j \in DOMAIN batch :
       (gamePc = "eval" => j > 1) => CameBefore(started[i], batch[j])

HasArrived(a) == \E k \in DOMAIN arrived : arrived[k] = a

AllArrived ==
  /\ \A i \in DOMAIN queue : HasArrived(queue[i])
  /\ \A i \in DOMAIN batch : HasArrived(batch[i])
  /\ \A i \in DOMAIN started : HasArrived(started[i])

OrderInv == QueuesInOrder /\ StartedFirst /\ AllArrived /\ OrderKept

LEMMA SeqDomain ==
  ASSUME NEW S, NEW s \in Seq(S) PROVE DOMAIN s = 1..Len(s) /\ Len(s) \in Nat
OBVIOUS

LEMMA TailIndex ==
  ASSUME NEW S, NEW s \in Seq(S), s # <<>>
  PROVE  /\ Tail(s) \in Seq(S) /\ 1 \in DOMAIN s /\ Head(s) = s[1]
         /\ \A i \in DOMAIN Tail(s) : /\ i \in Nat /\ i + 1 > 1 /\ i + 1 \in DOMAIN s
                                     /\ Tail(s)[i] = s[i + 1]
OBVIOUS

LEMMA OrderInit == Init => OrderInv
BY DEF Init, OrderInv, QueuesInOrder, StartedFirst, AllArrived, OrderKept

LEMMA OrderStep == IInv /\ OrderInv /\ [Next]_vars => OrderInv'
<1> SUFFICES ASSUME IInv, OrderInv, [Next]_vars PROVE OrderInv'
  OBVIOUS
<1> USE DEF OrderInv
<1>t. queue \in Seq(Requests) /\ batch \in Seq(Requests) /\ arrived \in Seq(Requests)
      /\ started \in Seq(Requests)
  BY DEF IInv, TypeOK
<1>1. ASSUME NEW r \in Requests, QueueAndWait(r) PROVE OrderInv'
  <2>1. /\ queue' = Append(queue, r) /\ arrived' = Append(arrived, r)
        /\ UNCHANGED <<batch, started, gamePc>>
    BY <1>1 DEF QueueAndWait, gameVars
  <2>2. \A i \in DOMAIN queue' :
          (i \in DOMAIN queue /\ queue'[i] = queue[i]) \/ (i = Len(queue) + 1 /\ queue'[i] = r)
    BY <1>t, <2>1
  <2>3. /\ \A i \in DOMAIN arrived : i \in DOMAIN arrived' /\ arrived'[i] = arrived[i]
        /\ Len(arrived) + 1 \in DOMAIN arrived' /\ arrived'[Len(arrived) + 1] = r
        /\ \A i \in DOMAIN arrived : i < Len(arrived) + 1
    BY <1>t, <2>1
  <2>4. \A a, b : CameBefore(a, b) => CameBefore(a, b)'
    BY <2>3 DEF CameBefore
  <2>5. /\ \A a : HasArrived(a) => CameBefore(a, r)'
        /\ \A a : HasArrived(a) => HasArrived(a)'
        /\ HasArrived(r)'
    BY <2>3 DEF CameBefore, HasArrived
  <2>6. \A i \in DOMAIN queue : i < Len(queue) + 1
    BY <1>t
  <2>7. (\A i, j \in DOMAIN queue : i < j => CameBefore(queue[i], queue[j]))'
    <3> SUFFICES ASSUME NEW i \in DOMAIN queue', NEW j \in DOMAIN queue', i < j
                 PROVE  CameBefore(queue[i], queue[j])'
      OBVIOUS
    <3>1. i \in DOMAIN queue /\ queue'[i] = queue[i]
      BY <1>t, <2>2, <2>1
    <3>2. CASE j \in DOMAIN queue /\ queue'[j] = queue[j]
      BY <3>1, <3>2, <2>4 DEF QueuesInOrder
    <3>3. CASE queue'[j] = r
      BY <3>1, <3>3, <2>5 DEF AllArrived
    <3> QED BY <2>2, <3>2, <3>3
  <2>8. QueuesInOrder'
    BY <2>1, <2>2, <2>4, <2>5, <2>7 DEF QueuesInOrder, AllArrived
  <2>9. StartedFirst'
    BY <2>1, <2>2, <2>4, <2>5 DEF StartedFirst, AllArrived
  <2>10. AllArrived'
    BY <2>1, <2>2, <2>5 DEF AllArrived
  <2>11. OrderKept'
    BY <2>1, <2>4 DEF OrderKept
  <2> QED BY <2>8, <2>9, <2>10, <2>11
<1>2. CASE TakeBatch
  <2>1. /\ batch' = queue /\ queue' = <<>> /\ gamePc' = "look" /\ UNCHANGED <<arrived, started>>
    BY <1>2 DEF TakeBatch
  <2> QED BY <2>1 DEF QueuesInOrder, StartedFirst, AllArrived, OrderKept, CameBefore, HasArrived
<1>3. ASSUME batch # <<>>, batch' = Tail(batch), gamePc' = "look",
             UNCHANGED <<queue, arrived, started>>
      PROVE  OrderInv'
  <2>1. \A i \in DOMAIN batch' : i \in Nat /\ i + 1 > 1 /\ i + 1 \in DOMAIN batch /\ batch'[i] = batch[i + 1]
    BY <1>t, <1>3, TailIndex
  <2>2. \A a, b : CameBefore(a, b)' = CameBefore(a, b) /\ HasArrived(a)' = HasArrived(a)
    BY <1>3 DEF CameBefore, HasArrived
  <2>3. QueuesInOrder'
    BY <1>3, <2>1, <2>2 DEF QueuesInOrder
  <2>4. StartedFirst'
    BY <1>3, <2>1, <2>2 DEF StartedFirst
  <2>5. AllArrived'
    BY <1>3, <2>1, <2>2 DEF AllArrived
  <2> QED BY <1>3, <2>2, <2>3, <2>4, <2>5 DEF OrderKept
<1>4. CASE StartEval
  <2>0. batch # <<>>
    BY <1>4 DEF StartEval, IInv, FlagsAgree
  <2>1. /\ batch # <<>> /\ started' = Append(started, batch[1]) /\ gamePc = "chosen"
        /\ gamePc' = "eval" /\ UNCHANGED <<queue, arrived, batch>> /\ 1 \in DOMAIN batch
    BY <1>4, <1>t, <2>0, TailIndex DEF StartEval
  <2>2. \A i \in DOMAIN started' : \/ (i \in DOMAIN started /\ started'[i] = started[i])
                                  \/ (i = Len(started) + 1 /\ started'[i] = batch[1])
    BY <1>t, <2>1
  <2>3. \A a, b : CameBefore(a, b)' = CameBefore(a, b) /\ HasArrived(a)' = HasArrived(a)
    BY <2>1 DEF CameBefore, HasArrived
  <2>4. QueuesInOrder'
    BY <2>1, <2>3 DEF QueuesInOrder
  <2>5. StartedFirst'
    BY <1>t, <2>1, <2>2, <2>3 DEF StartedFirst, QueuesInOrder
  <2>6. AllArrived'
    BY <2>1, <2>2, <2>3 DEF AllArrived
  <2>7. OrderKept'
    <3> SUFFICES ASSUME NEW i \in DOMAIN started', NEW j \in DOMAIN started', i < j
                 PROVE  CameBefore(started[i], started[j])'
      BY DEF OrderKept
    <3>1. i \in DOMAIN started /\ started'[i] = started[i]
      BY <1>t, <2>1, <2>2
    <3>2. CASE j \in DOMAIN started /\ started'[j] = started[j]
      BY <2>3, <3>1, <3>2 DEF OrderKept
    <3>3. CASE started'[j] = batch[1]
      BY <2>3, <3>1, <3>3, <2>1 DEF StartedFirst
    <3> QED BY <2>2, <3>2, <3>3
  <2> QED BY <2>4, <2>5, <2>6, <2>7
<1>5. ASSUME \/ UNCHANGED queue
             \/ queue' = <<>>,
             UNCHANGED <<arrived, batch, started>>,
             gamePc' = gamePc \/ gamePc # "eval" \/ batch = <<>>
      PROVE  OrderInv'
  <2>1. \A a, b : CameBefore(a, b)' = CameBefore(a, b) /\ HasArrived(a)' = HasArrived(a)
    BY <1>5 DEF CameBefore, HasArrived
  <2>2. \A i \in DOMAIN queue' : i \in DOMAIN queue /\ queue'[i] = queue[i]
    BY <1>5
  <2>3. QueuesInOrder'
    BY <1>5, <2>1, <2>2 DEF QueuesInOrder
  <2>4. StartedFirst'
    BY <1>5, <2>1, <2>2 DEF StartedFirst
  <2>5. AllArrived'
    BY <1>5, <2>1, <2>2 DEF AllArrived
  <2> QED BY <1>5, <2>1, <2>3, <2>4, <2>5 DEF OrderKept
<1>6. CASE SkipAbandoned
  BY <1>3, <1>6 DEF SkipAbandoned
<1>7. CASE StoreResult
  BY <1>3, <1>7 DEF StoreResult, IInv, FlagsAgree
<1>8. CASE ChooseEval \/ NotifyAfterBatch \/ StopMarks \/ StopNotifies \/ UNCHANGED vars
  BY <1>5, <1>8 DEF ChooseEval, clientVars, NotifyAfterBatch, StopMarks, StopNotifies, gameVars, vars
<1>9. ASSUME NEW r \in Requests, Refuse(r) \/ Expire(r) \/ Look(r) PROVE OrderInv'
  BY <1>5, <1>9 DEF Refuse, Expire, Look, SleepAgain, Answer, TimeOut, ToldStopped, Return, gameVars
<1> QED
  BY <1>1, <1>2, <1>4, <1>6, <1>7, <1>8, <1>9 DEF Next, GameStep

(* Code starts in the order the calls came (the swap, the skips and the     *)
(* clear of stop() in MCPServer.cpp), for any number of requests.           *)
THEOREM OrderKeptHolds == Spec => []OrderKept
<1>1. IInv /\ OrderInv /\ [Next]_vars => (OrderInv /\ IInv)'
  BY OrderStep, StepInv
<1> QED BY <1>1, OrderInit, InitInv, PTL DEF Spec, OrderInv
=============================================================================
