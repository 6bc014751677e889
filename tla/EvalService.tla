----------------------------- MODULE EvalService -----------------------------
(***************************************************************************)
(* What the MCP server promises to the callers of lua_eval and              *)
(* execute_console_command: code runs on the game thread one request at a   *)
(* time, it is chosen to run only for a caller that has not been told it    *)
(* failed, and a caller is told it failed only while there is no result.    *)
(* Between the choice and the start the caller may still be told so: the    *)
(* promise is about one request at a time, the one that is chosen.          *)
(* McpQueue implements it with a queue, a batch and a condition variable.   *)
(***************************************************************************)
CONSTANT Requests   (* the requests clients may make *)

VARIABLES
  call,   (* what each caller knows *)
  exec    (* what the game thread did with each request's code *)

vars == <<call, exec>>

Init ==
  /\ call = [r \in Requests |-> "idle"]
  /\ exec = [r \in Requests |-> "no"]

Ask(r) ==
  /\ call[r] = "idle"
  /\ \E told \in {"open", "failed"} : call' = [call EXCEPT ![r] = told]
  /\ UNCHANGED exec

Choose(r) ==
  /\ call[r] = "open" /\ exec[r] = "no"
  /\ \A q \in Requests : exec[q] \notin {"chosen", "running"}
  /\ exec' = [exec EXCEPT ![r] = "chosen"]
  /\ UNCHANGED call

Begin(r) ==
  /\ exec[r] = "chosen"
  /\ exec' = [exec EXCEPT ![r] = "running"]
  /\ UNCHANGED call

Finish(r) ==
  /\ exec[r] = "running"
  /\ exec' = [exec EXCEPT ![r] = "finished"]
  /\ UNCHANGED call

Answer(r) ==
  /\ call[r] = "open" /\ exec[r] = "finished"
  /\ call' = [call EXCEPT ![r] = "answered"]
  /\ UNCHANGED exec

GiveUp(r) ==
  /\ call[r] = "open" /\ exec[r] # "finished"
  /\ call' = [call EXCEPT ![r] = "failed"]
  /\ UNCHANGED exec

Next ==
  \E r \in Requests :
    Ask(r) \/ Choose(r) \/ Begin(r) \/ Finish(r) \/ Answer(r) \/ GiveUp(r)

Spec == Init /\ [][Next]_vars
=============================================================================
