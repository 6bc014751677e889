---------------------------- MODULE ActionService ----------------------------
(***************************************************************************)
(* What the scheduler promises to the mods that give it actions: it calls   *)
(* one callback at a time; an action given to ExecuteInGameThread starts    *)
(* once, unless its mod unloads; no callback of a mod starts once its       *)
(* unload began; and when its Lua state is closed none of them runs and     *)
(* none is left.  DelayedActions implements it with queues, nested drains   *)
(* and an unload that erases what no drain holds.                           *)
(***************************************************************************)
EXTENDS Naturals, Sequences

CONSTANT Mods   (* the Lua mods *)

VARIABLES
  asked,     (* the actions mods asked for, in order *)
  waiting,   (* the immediate ones that have not started *)
  calling,   (* the action whose callback runs, if any *)
  phase      (* per mod: loaded, unloading or gone *)

vars == <<asked, waiting, calling, phase>>

Init ==
  /\ asked = <<>> /\ waiting = {} /\ calling = {}
  /\ phase = [m \in Mods |-> "loaded"]

Ask(m, kind) ==
  /\ phase[m] # "gone"
  /\ asked' = Append(asked, [mod |-> m, kind |-> kind])
  /\ waiting' = IF kind = "simple" THEN waiting \cup {Len(asked) + 1} ELSE waiting
  /\ UNCHANGED <<calling, phase>>

Start(id) ==
  /\ calling = {} /\ phase[asked[id].mod] = "loaded"
  /\ asked[id].kind = "simple" => id \in waiting
  /\ calling' = {id} /\ waiting' = waiting \ {id}
  /\ UNCHANGED <<asked, phase>>

Return ==
  /\ calling # {} /\ calling' = {}
  /\ UNCHANGED <<asked, waiting, phase>>

BeginUnload(m) ==
  /\ phase[m] = "loaded"
  /\ phase' = [phase EXCEPT ![m] = "unloading"]
  /\ UNCHANGED <<asked, waiting, calling>>

Drop(id) ==
  /\ phase[asked[id].mod] = "unloading"
  /\ waiting' = waiting \ {id}
  /\ UNCHANGED <<asked, calling, phase>>

Close(m) ==
  /\ phase[m] = "unloading" /\ \A id \in calling : asked[id].mod # m
  /\ phase' = [phase EXCEPT ![m] = "gone"]
  /\ waiting' = {id \in waiting : asked[id].mod # m}
  /\ UNCHANGED <<asked, calling>>

Next ==
  \/ \E m \in Mods : BeginUnload(m) \/ Close(m) \/ \E kind \in {"simple", "once", "loop"} : Ask(m, kind)
  \/ \E id \in DOMAIN asked : Start(id) \/ Drop(id)
  \/ Return

Spec == Init /\ [][Next]_vars
=============================================================================
