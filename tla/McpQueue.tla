------------------------------- MODULE McpQueue -------------------------------
(***************************************************************************)
(* The MCP server's way to the game thread (UE4SS/src/MCP/MCPServer.cpp).   *)
(*                                                                         *)
(* A tool call (lua_eval_cb, execute_console_command_cb) arrives on a       *)
(* worker thread, parks a request in g_queue and waits on g_queue_cv for a  *)
(* limited time.  The engine tick swaps the queue into a batch, runs the    *)
(* requests nobody gave up on, and notifies once, after the whole batch.    *)
(* The program's destructor stops the server under the waiters' feet.       *)
(*                                                                         *)
(* Each critical section of g_queue_mutex is one action.  A waiter looks at *)
(* its predicate when it was notified or when its time is over: `notified'  *)
(* and `expired' say which waiters may look.                                *)
(***************************************************************************)
EXTENDS Naturals, Sequences

CONSTANT Requests   (* bound: the tool calls that need the game thread *)

VARIABLES
  queue,      (* g_queue                                                     *)
  shutting,   (* g_shutting_down                                             *)
  stopPc,     (* MCPServer::stop: not called, about to notify, past it       *)
  call,       (* per request: where queue_and_wait is, or what it returned   *)
  done,       (* PendingEval::done                                           *)
  abandoned,  (* PendingEval::abandoned                                      *)
  notified,   (* waiters a notify_all reached                                *)
  expired,    (* waiters whose timeout is over                               *)
  gamePc,     (* process_game_thread_queue                                   *)
  batch,      (* its batch, from the request it is at                        *)
  arrived,    (* history: requests in the order they were queued             *)
  started     (* history: requests in the order their code started           *)

clientVars == <<call, abandoned, notified, expired>>
gameVars == <<gamePc, batch, started>>
vars == <<queue, shutting, stopPc, call, done, abandoned, notified, expired,
          gamePc, batch, arrived, started>>

CallStates == {"idle", "waiting", "answered", "timedOut", "stopped", "refused"}
GamePCs == {"tick", "look", "chosen", "eval"}

Init ==
  /\ queue = <<>> /\ batch = <<>> /\ arrived = <<>> /\ started = <<>>
  /\ shutting = FALSE /\ stopPc = "running"
  /\ call = [r \in Requests |-> "idle"]
  /\ done = {} /\ abandoned = {} /\ notified = {} /\ expired = {}
  /\ gamePc = "tick"

-----------------------------------------------------------------------------
(* queue_and_wait on a worker thread.                                       *)

(* Mutant: a new request goes in front of the ones that wait.               *)
QueueInFront(r) ==
  /\ call[r] = "idle" /\ ~shutting
  /\ queue' = <<r>> \o queue
  /\ arrived' = Append(arrived, r)
  /\ call' = [call EXCEPT ![r] = "waiting"]
  /\ UNCHANGED <<shutting, stopPc, done, abandoned, notified, expired, gameVars>>

QueueAndWait(r) ==
  /\ call[r] = "idle" /\ ~shutting
  /\ queue' = Append(queue, r)
  /\ arrived' = Append(arrived, r)
  /\ call' = [call EXCEPT ![r] = "waiting"]
  /\ UNCHANGED <<shutting, stopPc, done, abandoned, notified, expired, gameVars>>

Refuse(r) ==
  /\ call[r] = "idle" /\ shutting
  /\ call' = [call EXCEPT ![r] = "refused"]
  /\ UNCHANGED <<queue, shutting, stopPc, done, abandoned, notified, expired, arrived, gameVars>>

Expire(r) ==
  /\ call[r] = "waiting" /\ r \notin expired
  /\ expired' = expired \cup {r}
  /\ UNCHANGED <<queue, shutting, stopPc, call, done, abandoned, notified, arrived, gameVars>>

(* The waiter holds the mutex and evaluates `done || g_shutting_down'.      *)
MayLook(r) == call[r] = "waiting" /\ r \in notified \cup expired

SleepAgain(r) ==
  /\ MayLook(r) /\ r \notin done /\ ~shutting /\ r \notin expired
  /\ notified' = notified \ {r}
  /\ UNCHANGED <<queue, shutting, stopPc, call, done, abandoned, expired, arrived, gameVars>>

(* Return to the client; giving up marks the request abandoned.             *)
Return(r, how) ==
  /\ call' = [call EXCEPT ![r] = how]
  /\ abandoned' = IF how = "answered" THEN abandoned ELSE abandoned \cup {r}
  /\ notified' = notified \ {r} /\ expired' = expired \ {r}
  /\ UNCHANGED <<queue, shutting, stopPc, done, arrived, gameVars>>

Answer(r) == MayLook(r) /\ r \in done /\ Return(r, "answered")

(* Mutant: a request the game thread has in its batch is waited for.        *)
TimeOutInQueue(r) ==
  /\ MayLook(r) /\ r \in expired /\ r \notin done /\ ~shutting
  /\ \E i \in DOMAIN queue : queue[i] = r
  /\ Return(r, "timedOut")

TimeOut(r) ==
  MayLook(r) /\ r \in expired /\ r \notin done /\ ~shutting /\ Return(r, "timedOut")

(* Mutant: only stop() marks requests abandoned when the server stops.      *)
ToldStoppedUnmarked(r) ==
  /\ MayLook(r) /\ r \notin done /\ shutting
  /\ call' = [call EXCEPT ![r] = "stopped"]
  /\ notified' = notified \ {r} /\ expired' = expired \ {r}
  /\ UNCHANGED <<queue, shutting, stopPc, done, abandoned, arrived, gameVars>>

ToldStopped(r) == MayLook(r) /\ r \notin done /\ shutting /\ Return(r, "stopped")

-----------------------------------------------------------------------------
(* process_game_thread_queue, in the engine tick pre callback.              *)

(* Mutant: the batch is copied and the queue is not emptied.                *)
CopyBatch ==
  /\ gamePc = "tick" /\ queue # <<>>
  /\ batch' = queue
  /\ gamePc' = "look"
  /\ UNCHANGED <<queue, shutting, stopPc, done, clientVars, arrived, started>>

TakeBatch ==
  /\ gamePc = "tick" /\ queue # <<>>
  /\ batch' = queue /\ queue' = <<>>
  /\ gamePc' = "look"
  /\ UNCHANGED <<shutting, stopPc, done, clientVars, arrived, started>>

SkipAbandoned ==
  /\ gamePc = "look" /\ batch # <<>> /\ Head(batch) \in abandoned
  /\ batch' = Tail(batch)
  /\ UNCHANGED <<queue, shutting, stopPc, done, clientVars, gamePc, arrived, started>>

(* The look at `abandoned' is under the mutex, the call that follows is not: *)
(* the caller may give up, or the server stop, in between.                  *)
ChooseEval ==
  /\ gamePc = "look" /\ batch # <<>> /\ Head(batch) \notin abandoned
  /\ gamePc' = "chosen"
  /\ UNCHANGED <<queue, shutting, stopPc, done, clientVars, batch, arrived, started>>

(* LuaMod::mcp_eval is entered with no lock held.                           *)
StartEval ==
  /\ gamePc = "chosen"
  /\ gamePc' = "eval"
  /\ started' = Append(started, Head(batch))
  /\ UNCHANGED <<queue, shutting, stopPc, done, clientVars, batch, arrived>>

(* It returned or threw; output, ok and done are set under the mutex.       *)
StoreResult ==
  /\ gamePc = "eval"
  /\ done' = done \cup {Head(batch)}
  /\ batch' = Tail(batch)
  /\ gamePc' = "look"
  /\ UNCHANGED <<queue, shutting, stopPc, clientVars, arrived, started>>

Waiting == {r \in Requests : call[r] = "waiting"}

(* Mutant: notify_one.                                                      *)
NotifyOneAfterBatch ==
  /\ gamePc = "look" /\ batch = <<>>
  /\ IF Waiting = {} THEN UNCHANGED notified
     ELSE \E r \in Waiting : notified' = notified \cup {r}
  /\ gamePc' = "tick"
  /\ UNCHANGED <<queue, shutting, stopPc, call, abandoned, expired, done, batch, arrived, started>>

NotifyAfterBatch ==
  /\ gamePc = "look" /\ batch = <<>>
  /\ notified' = notified \cup Waiting
  /\ gamePc' = "tick"
  /\ UNCHANGED <<queue, shutting, stopPc, call, abandoned, expired, done, batch, arrived, started>>

-----------------------------------------------------------------------------
(* MCPServer::stop, from the destructor of the program.                     *)

InQueue == {queue[i] : i \in DOMAIN queue}
InBatch == {batch[i] : i \in DOMAIN batch}

StopMarks ==
  /\ stopPc = "running"
  /\ stopPc' = "notify" /\ shutting' = TRUE
  /\ abandoned' = abandoned \cup InQueue
  /\ queue' = <<>>
  /\ UNCHANGED <<call, done, notified, expired, arrived, gameVars>>

StopNotifies ==
  /\ stopPc = "notify"
  /\ stopPc' = "stopped"
  /\ notified' = notified \cup Waiting
  /\ UNCHANGED <<queue, shutting, call, done, abandoned, expired, arrived, gameVars>>

-----------------------------------------------------------------------------
Look(r) == SleepAgain(r) \/ Answer(r) \/ TimeOut(r) \/ ToldStopped(r)
GameStep ==
  TakeBatch \/ SkipAbandoned \/ ChooseEval \/ StartEval \/ StoreResult \/ NotifyAfterBatch

Next ==
  \/ \E r \in Requests : QueueAndWait(r) \/ Refuse(r) \/ Expire(r) \/ Look(r)
  \/ GameStep
  \/ StopMarks \/ StopNotifies

Spec == Init /\ [][Next]_vars

(* A worker that may look is scheduled, the game thread goes on with a      *)
(* batch it took, stop() goes on once called.  Evaluated code may run for    *)
(* ever and the engine may stop ticking: StoreResult and TakeBatch are not  *)
(* fair, and nobody depends on the clock, so Expire is not either.          *)
Fairness ==
  /\ \A r \in Requests : WF_vars(Look(r))
  /\ WF_vars(SkipAbandoned \/ ChooseEval \/ StartEval) /\ WF_vars(NotifyAfterBatch)
  /\ WF_vars(StopNotifies)

LiveSpec == Spec /\ Fairness

-----------------------------------------------------------------------------
TypeOK ==
  /\ queue \in Seq(Requests) /\ batch \in Seq(Requests)
  /\ arrived \in Seq(Requests) /\ started \in Seq(Requests)
  /\ shutting \in BOOLEAN /\ stopPc \in {"running", "notify", "stopped"}
  /\ call \in [Requests -> CallStates]
  /\ done \subseteq Requests /\ abandoned \subseteq Requests
  /\ notified \subseteq Requests /\ expired \subseteq Requests
  /\ gamePc \in GamePCs

Distinct(s) == \A i, j \in DOMAIN s : s[i] = s[j] => i = j

(* A request that waits and was not answered is held in exactly one place,  *)
(* the queue or the rest of the batch, until the server stops: neither the  *)
(* swap nor an abandoned neighbour loses it or runs it twice.               *)
NoRequestLost ==
  /\ \A r \in Requests : (call[r] = "waiting" /\ r \notin done /\ ~shutting) =>
       r \in InQueue \cup InBatch
  /\ Distinct(queue) /\ Distinct(batch) /\ InQueue \cap InBatch = {}

(* Code starts in the order the requests came, over all batches and however *)
(* many in between were given up.                                           *)
CameBefore(a, b) == \E k, l \in DOMAIN arrived : k < l /\ arrived[k] = a /\ arrived[l] = b

OrderKept ==
  \A i, j \in DOMAIN started : i < j => CameBefore(started[i], started[j])

(* What a caller was told agrees with the flags of its request: the         *)
(* strengthening that makes the refinement inductive.                       *)
FlagsAgree ==
  /\ \A r \in Requests :
       /\ call[r] = "answered" => r \in done
       /\ call[r] \in {"timedOut", "stopped"} => r \in abandoned
       /\ call[r] \in {"idle", "refused"} => r \notin done \cup abandoned
       /\ (call[r] = "waiting" /\ r \in abandoned) => shutting
  /\ \A r \in InQueue \cup InBatch : r \notin done /\ call[r] \notin {"idle", "refused"}
  /\ gamePc \in {"chosen", "eval"} => batch # <<>>
  /\ gamePc = "tick" => batch = <<>>

IInv == TypeOK /\ NoRequestLost /\ FlagsAgree

(* The refinement: EvalService with what the callers know and what the      *)
(* game thread did.                                                         *)
Told(r) == CASE call[r] = "idle" -> "idle"
             [] call[r] = "waiting" -> "open"
             [] call[r] = "answered" -> "answered"
             [] OTHER -> "failed"

Executed(r) == IF r \in done THEN "finished"
               ELSE IF gamePc = "eval" /\ batch[1] = r THEN "running"
               ELSE IF gamePc = "chosen" /\ batch[1] = r THEN "chosen" ELSE "no"

Service == INSTANCE EvalService
             WITH call <- [r \in Requests |-> Told(r)], exec <- [r \in Requests |-> Executed(r)]

(* Every step is a step of EvalService: code runs one request at a time and *)
(* is chosen only while its caller waits, even in a batch the game thread   *)
(* took before; no other request's code comes between the choice and the    *)
(* start; and a caller whose result is stored is not told that it timed out *)
(* or that the server stopped.  A caller that gives up between the choice   *)
(* and the start does not stop the code.                                   *)
ServiceSpec == Service!Spec

(* "a game thread stuck in a map load must not hang the HTTP request        *)
(* forever": once its time is over, or the server stops, a call returns     *)
(* although the game thread may never finish or never tick again.           *)
CallsEnd ==
  \A r \in Requests : (r \in expired \/ shutting) ~> call[r] # "waiting"

(* The one notification after the whole batch reaches every caller with a   *)
(* result: none has to wait for its timeout.                                *)
DoneIsDelivered ==
  \A r \in Requests : (r \in done /\ gamePc = "tick") ~> call[r] # "waiting"
=============================================================================
