----------------------------- MODULE NativeHooks -----------------------------
(***************************************************************************)
(* Native hooks: detours of native functions that call back into Lua         *)
(* (UE4SS/src/NativeHook.cpp, and RegisterNativeHook/UnregisterNativeHook in *)
(* UE4SS/src/Mod/LuaMod.cpp).                                                *)
(*                                                                         *)
(* Two tables under a mutex each: the slots (g_entries, g_mutex), one for a  *)
(* detoured function, and the callbacks of each slot                         *)
(* (s_native_hook_callbacks, s_native_hook_mutex).  Registering and          *)
(* unregistering go from one table to the other with no mutex in between,    *)
(* and a call of a detoured function reads both in turn.                     *)
(***************************************************************************)
EXTENDS Naturals

CONSTANTS
  Mods,       (* Lua mods; bound: one thread of each registers                *)
  Functions,  (* native functions that can be detoured                        *)
  NSlots,     (* k_max_hooks, 16 in the code                                  *)
  MaxRegs,    (* bound: registrations                                         *)
  MaxCalls,   (* bound: calls of detoured functions                           *)
  None

ASSUME NativeAssumption ==
  /\ NSlots \in Nat /\ MaxRegs \in Nat /\ MaxCalls \in Nat
  /\ None \notin Mods /\ None \notin Functions /\ None \notin Nat

Slots == 0..(NSlots - 1)
Regs == 1..MaxRegs

VARIABLES
  target,   (* Entry::target of an entry in use                               *)
  disp,     (* Entry::dispatcher: the registration whose lambda it is         *)
  epoch,    (* detours removed from the slot: tells trampolines apart         *)
  list,     (* s_native_hook_callbacks: the registrations of each slot          *)
  regs,     (* registrations so far                                           *)
  owner,    (* who made each                                                  *)
  wanted,   (* the function it is for                                         *)
  slot,     (* the slot install() gave it                                     *)
  filled,   (* registrations whose id_holder has the slot                     *)
  pc,       (* where the thread of a mod is                                   *)
  reg,      (* its registration under way                                     *)
  at,       (* the slot it is to uninstall                                    *)
  ids,      (* hook ids a mod has and has not given back                      *)
  closed,   (* mods whose Lua state is closed                                 *)
  raced,    (* history: slots registered and removed at the same time         *)
  callPc,   (* a thread that calls a detoured function (bound: one)           *)
  callFn,   (* the function                                                   *)
  callSlot, (* the slot of the thunk it came to                               *)
  callIn,   (* history: the slot's epoch when it came                         *)
  callDisp, (* the dispatcher it copied                                       *)
  callTram, (* the trampoline it copied                                       *)
  todo,     (* callbacks of its copy still to be called                       *)
  calls     (* calls so far                                                   *)

entryVars == <<target, disp, epoch>>
regVars == <<regs, owner, wanted, slot, filled>>
modVars == <<pc, reg, at, ids, closed>>
callVars == <<callPc, callFn, callSlot, callIn, callDisp, callTram, todo, calls>>
vars == <<entryVars, list, regVars, modVars, raced, callVars>>

Init ==
  /\ target = [s \in Slots |-> None] /\ disp = [s \in Slots |-> 0]
  /\ epoch = [s \in Slots |-> 0] /\ list = [s \in Slots |-> {}]
  /\ regs = 0 /\ filled = {}
  /\ owner = [r \in Regs |-> None] /\ wanted = [r \in Regs |-> None]
  /\ slot = [r \in Regs |-> None]
  /\ pc = [m \in Mods |-> "idle"] /\ reg = [m \in Mods |-> 0]
  /\ at = [m \in Mods |-> None] /\ ids = [m \in Mods |-> {}] /\ closed = {}
  /\ raced = {}
  /\ callPc = "idle" /\ callFn = None /\ callSlot = None /\ callIn = 0
  /\ callDisp = 0 /\ callTram = 0 /\ todo = {} /\ calls = 0

-----------------------------------------------------------------------------
(* RegisterNativeHook.                                                      *)
Goes(m, next) == pc' = [pc EXCEPT ![m] = next]

Register(m, f) ==
  /\ pc[m] = "idle" /\ m \notin closed /\ regs < MaxRegs
  /\ regs' = regs + 1
  /\ owner' = [owner EXCEPT ![regs + 1] = m] /\ wanted' = [wanted EXCEPT ![regs + 1] = f]
  /\ reg' = [reg EXCEPT ![m] = regs + 1]
  /\ Goes(m, "install")
  /\ UNCHANGED <<entryVars, list, slot, filled, at, ids, closed, raced, callVars>>

Wanted(m) == wanted[reg[m]]
Hooked(f) == \E s \in Slots : target[s] = f

InFlight(m, s) == pc[m] \in {"fill", "add"} /\ slot[reg[m]] = s
Leaving(m, s) == pc[m] = "uninstall" /\ at[m] = s

(* install() found slot s for the registration.                             *)
Got(m, s) ==
  /\ slot' = [slot EXCEPT ![reg[m]] = s]
  /\ disp' = [disp EXCEPT ![s] = reg[m]]
  /\ raced' = IF \E n \in Mods : Leaving(n, s) THEN raced \cup {s} ELSE raced
  /\ Goes(m, "fill")
  /\ UNCHANGED <<epoch, list, regs, owner, wanted, filled, reg, at, ids, closed, callVars>>

(* The address is hooked already: its slot gets the new dispatcher.         *)
InstallOver(m, s) ==
  /\ pc[m] = "install" /\ target[s] = Wanted(m)
  /\ Got(m, s) /\ UNCHANGED target

(* Else the first free slot is taken.                                       *)
InstallNew(m, s) ==
  /\ pc[m] = "install" /\ ~Hooked(Wanted(m))
  /\ target[s] = None /\ \A t \in Slots : t < s => target[t] # None
  /\ target' = [target EXCEPT ![s] = Wanted(m)]
  /\ Got(m, s)

(* No slot, PolyHook cannot detour the function, hooks are switched off, or   *)
(* the address does not resolve: a spec with a pattern is compared with the *)
(* bytes in memory, which a detour of the same function has overwritten.    *)
InstallFails(m) ==
  /\ pc[m] = "install"
  /\ Goes(m, "idle")
  /\ UNCHANGED <<entryVars, list, regVars, reg, at, ids, closed, raced, callVars>>

(* Mutant: the holder keeps -1 when the hook was there before.              *)
FillHolderOnce(m) ==
  /\ pc[m] = "fill"
  /\ filled' = IF list[slot[reg[m]]] = {} THEN filled \cup {reg[m]} ELSE filled
  /\ Goes(m, "add")
  /\ UNCHANGED <<entryVars, list, regs, owner, wanted, slot, reg, at, ids, closed, raced,
                 callVars>>

FillHolder(m) ==
  /\ pc[m] = "fill"
  /\ filled' = filled \cup {reg[m]}
  /\ Goes(m, "add")
  /\ UNCHANGED <<entryVars, list, regs, owner, wanted, slot, reg, at, ids, closed, raced,
                 callVars>>

AddCallback(m) ==
  /\ pc[m] = "add"
  /\ list' = [list EXCEPT ![slot[reg[m]]] = @ \cup {reg[m]}]
  /\ ids' = [ids EXCEPT ![m] = @ \cup {slot[reg[m]]}]
  /\ Goes(m, "idle")
  /\ UNCHANGED <<entryVars, regVars, reg, at, closed, raced, callVars>>

-----------------------------------------------------------------------------
(* UnregisterNativeHook.                                                    *)
Others(m, s) == {r \in list[s] : owner[r] # m}

(* Mutant: the detour goes with the first mod that gives its id back.       *)
UnregisterAll(m, s) ==
  /\ pc[m] = "idle" /\ m \notin closed /\ s \in ids[m]
  /\ ids' = [ids EXCEPT ![m] = @ \ {s}]
  /\ list' = [list EXCEPT ![s] = Others(m, s)]
  /\ at' = [at EXCEPT ![m] = s] /\ Goes(m, "uninstall")
  /\ raced' = IF \E n \in Mods : InFlight(n, s) THEN raced \cup {s} ELSE raced
  /\ UNCHANGED <<entryVars, regVars, reg, closed, callVars>>

(* Mutant: one callback of the mod is erased, not all.                      *)
UnregisterFirst(m, s) ==
  /\ pc[m] = "idle" /\ m \notin closed /\ s \in ids[m]
  /\ ids' = [ids EXCEPT ![m] = @ \ {s}]
  /\ \E r \in list[s] :
       /\ owner[r] = m
       /\ list' = [list EXCEPT ![s] = @ \ {r}]
       /\ IF list[s] = {r}
            THEN at' = [at EXCEPT ![m] = s] /\ Goes(m, "uninstall")
            ELSE UNCHANGED <<at, pc>>
  /\ UNCHANGED <<entryVars, regVars, reg, closed, raced, callVars>>

(* Mutant: the callbacks stay when the detour goes.                         *)
UnregisterKeepsList(m, s) ==
  /\ pc[m] = "idle" /\ m \notin closed /\ s \in ids[m]
  /\ ids' = [ids EXCEPT ![m] = @ \ {s}]
  /\ IF list[s] # {} /\ Others(m, s) = {}
       THEN /\ at' = [at EXCEPT ![m] = s] /\ Goes(m, "uninstall")
            /\ raced' = IF \E n \in Mods : InFlight(n, s) THEN raced \cup {s} ELSE raced
            /\ UNCHANGED list
       ELSE list' = [list EXCEPT ![s] = Others(m, s)] /\ UNCHANGED <<at, pc, raced>>
  /\ UNCHANGED <<entryVars, regVars, reg, closed, callVars>>

(* The mod's own callbacks go; the detour goes with the last callback.      *)
Unregister(m, s) ==
  /\ pc[m] = "idle" /\ m \notin closed /\ s \in ids[m]
  /\ ids' = [ids EXCEPT ![m] = @ \ {s}]
  /\ list' = [list EXCEPT ![s] = Others(m, s)]
  /\ IF list[s] # {} /\ Others(m, s) = {}
       THEN /\ at' = [at EXCEPT ![m] = s] /\ Goes(m, "uninstall")
            /\ raced' = IF \E n \in Mods : InFlight(n, s) THEN raced \cup {s} ELSE raced
       ELSE UNCHANGED <<at, pc, raced>>
  /\ UNCHANGED <<entryVars, regVars, reg, closed, callVars>>

(* NativeHook::uninstall: the detour, its trampoline and the entry are gone. *)
Uninstall(m) ==
  /\ pc[m] = "uninstall"
  /\ IF target[at[m]] # None
       THEN /\ target' = [target EXCEPT ![at[m]] = None]
            /\ disp' = [disp EXCEPT ![at[m]] = 0]
            /\ epoch' = [epoch EXCEPT ![at[m]] = @ + 1]
       ELSE UNCHANGED entryVars
  /\ Goes(m, "idle")
  /\ UNCHANGED <<list, regVars, reg, at, ids, closed, raced, callVars>>

(* The mod is unloaded after it gave back its ids, as it is told to; nothing *)
(* in LuaMod::uninstall concerns native hooks.                              *)
CloseMod(m) ==
  /\ pc[m] = "idle" /\ m \notin closed /\ ids[m] = {}
  /\ closed' = closed \cup {m}
  /\ UNCHANGED <<entryVars, list, regVars, pc, reg, at, ids, raced, callVars>>

-----------------------------------------------------------------------------
(* A call of a detoured function: thunk, dispatch and the dispatcher.       *)
Enter(s) ==
  /\ callPc = "idle" /\ calls < MaxCalls /\ target[s] # None
  /\ calls' = calls + 1
  /\ callFn' = target[s] /\ callSlot' = s /\ callIn' = epoch[s]
  /\ callPc' = "entered"
  /\ UNCHANGED <<entryVars, list, regVars, modVars, raced, callDisp, callTram, todo>>

(* The entry is gone: 0 is returned and the function never called.          *)
FindsNoEntry ==
  /\ callPc = "entered" /\ target[callSlot] = None
  /\ callPc' = "idle"
  /\ UNCHANGED <<entryVars, list, regVars, modVars, raced, callFn, callSlot, callIn, callDisp,
                 callTram, todo, calls>>

CopyEntry ==
  /\ callPc = "entered" /\ target[callSlot] # None
  /\ callDisp' = disp[callSlot] /\ callTram' = epoch[callSlot]
  /\ callPc' = "lookup"
  /\ UNCHANGED <<entryVars, list, regVars, modVars, raced, callFn, callSlot, callIn, todo, calls>>

(* What the lambda of a registration finds by its id_holder.                *)
Found(r) == IF r \in filled THEN list[slot[r]] ELSE {}

CopyCallbacks ==
  /\ callPc = "lookup"
  /\ todo' = Found(callDisp)
  /\ callPc' = "callbacks"
  /\ UNCHANGED <<entryVars, list, regVars, modVars, raced, callFn, callSlot, callIn, callDisp,
                 callTram, calls>>

(* The order of the copy is of no interest: any of them is next.  It waits   *)
(* for the actions mutex and does not ask whether the owner's state is still *)
(* open: a mod closed since the copy is entered all the same.               *)
RunCallback ==
  /\ callPc = "callbacks"
  /\ \E r \in todo : todo' = todo \ {r}
  /\ UNCHANGED <<entryVars, list, regVars, modVars, raced, callPc, callFn, callSlot, callIn,
                 callDisp, callTram, calls>>

CallOriginal ==
  /\ callPc = "callbacks" /\ todo = {}
  /\ callPc' = "idle"
  /\ UNCHANGED <<entryVars, list, regVars, modVars, raced, callFn, callSlot, callIn, callDisp,
                 callTram, todo, calls>>

-----------------------------------------------------------------------------
CallStep ==
  \/ \E s \in Slots : Enter(s)
  \/ FindsNoEntry \/ CopyEntry \/ CopyCallbacks \/ RunCallback \/ CallOriginal

RegisterStep(m) ==
  \/ \E s \in Slots : InstallOver(m, s) \/ InstallNew(m, s)
  \/ InstallFails(m) \/ FillHolder(m) \/ AddCallback(m)

Next ==
  \/ \E m \in Mods : RegisterStep(m) \/ Uninstall(m) \/ CloseMod(m)
  \/ \E m \in Mods, f \in Functions : Register(m, f)
  \/ \E m \in Mods, s \in Slots : Unregister(m, s)
  \/ CallStep

Spec == Init /\ [][Next]_vars

-----------------------------------------------------------------------------
TypeOK ==
  /\ target \in [Slots -> Functions \cup {None}] /\ disp \in [Slots -> Nat]
  /\ epoch \in [Slots -> Nat] /\ list \in [Slots -> SUBSET Regs]
  /\ regs \in 0..MaxRegs /\ owner \in [Regs -> Mods \cup {None}]
  /\ wanted \in [Regs -> Functions \cup {None}] /\ slot \in [Regs -> Slots \cup {None}]
  /\ filled \subseteq Regs
  /\ pc \in [Mods -> {"idle", "install", "fill", "add", "uninstall"}]
  /\ reg \in [Mods -> 0..MaxRegs] /\ at \in [Mods -> Slots \cup {None}]
  /\ ids \in [Mods -> SUBSET Slots] /\ closed \subseteq Mods /\ raced \subseteq Slots
  /\ callPc \in {"idle", "entered", "lookup", "callbacks"}
  /\ callFn \in Functions \cup {None} /\ callSlot \in Slots \cup {None}
  /\ callIn \in Nat /\ callDisp \in Nat /\ callTram \in Nat
  /\ todo \subseteq Regs /\ calls \in Nat

(* What a registration under way has in the two tables, ...                 *)
MakersAgree ==
  /\ \A m \in Mods : pc[m] \in {"install", "fill", "add"} =>
       reg[m] \in 1..regs /\ owner[reg[m]] = m /\ wanted[reg[m]] # None
  /\ \A m \in Mods : pc[m] = "install" => slot[reg[m]] = None
  /\ \A m \in Mods : pc[m] \in {"fill", "add"} => slot[reg[m]] \in Slots
  /\ \A m \in Mods : pc[m] = "uninstall" => at[m] \in Slots

(* ... an entry in use and a callback, ...                                  *)
EntriesAgree ==
  /\ \A r \in Regs : r > regs => slot[r] = None
  /\ \A s \in Slots : target[s] # None => (disp[s] \in 1..regs /\ slot[disp[s]] = s)
  /\ \A s \in Slots : \A r \in list[s] : slot[r] = s

(* ... and a call.                                                          *)
CallAgrees ==
  /\ callPc # "idle" => (callSlot \in Slots /\ callFn # None)
  /\ callPc \in {"lookup", "callbacks"} => (callDisp \in 1..regs /\ slot[callDisp] = callSlot)
  /\ callPc = "callbacks" => \A r \in todo : slot[r] = callSlot

RegsAgree == MakersAgree /\ EntriesAgree /\ CallAgrees

(* The id_holder of a dispatcher in use is set, or is being set.            *)
FillsFor(r) == \E m \in Mods : pc[m] = "fill" /\ reg[m] = r
HoldersFilled == \A s \in Slots : target[s] # None => (disp[s] \in filled \/ FillsFor(disp[s]))

(* A mod has the id of every slot with a callback of it; a closed one has   *)
(* none and registers nothing.                                              *)
IdsKept ==
  /\ \A s \in Slots : \A r \in list[s] : owner[r] \in Mods /\ s \in ids[owner[r]]
  /\ \A m \in closed : pc[m] = "idle" /\ ids[m] = {}

(* Without a race in the slot: its callbacks, and those on their way to it, *)
(* are for the function it detours, and who removes it leaves none behind.  *)
SlotsFit ==
  \A s \in Slots \ raced :
    /\ \A r \in list[s] : wanted[r] = target[s] /\ target[s] # None
    /\ \A m \in Mods : InFlight(m, s) => Wanted(m) = target[s]
    /\ \A m \in Mods : Leaving(m, s) =>
         list[s] = {} /\ \A n \in Mods : ~InFlight(n, s)

(* No function is detoured twice.                                           *)
OneDetour == \A s, t \in Slots : (target[s] = target[t] /\ target[s] # None) => s = t

(* "... several mods can share one detour and each still gets called": a    *)
(* call finds all the callbacks of its slot.  Known exception: the moment   *)
(* between a later install() and the assignment of its id_holder, when it   *)
(* finds none.                                                              *)
EachStillCalled ==
  \A s \in Slots :
    (target[s] # None /\ ~FillsFor(disp[s])) => Found(disp[s]) = list[s]

(* A call of a function runs callbacks that were registered for it, and no  *)
(* other's.  Known exceptions: the slot was removed while the call was on   *)
(* its way through the two tables, or was ever registered and removed at    *)
(* the same time, which leaves a callback behind for the slot's next        *)
(* function.                                                                *)
CallFits ==
  (callPc = "callbacks" /\ callSlot \notin raced /\ epoch[callSlot] = callIn) =>
    \A r \in todo : wanted[r] = callFn

(* A mod that gave back its ids left no callback behind when its Lua state  *)
(* is closed, whoever shares its slots and however the slots were reused.   *)
NoneLeft == \A s \in Slots : \A r \in list[s] : owner[r] \notin closed

CallKnows ==
  callPc # "idle" =>
    /\ callIn <= epoch[callSlot]
    /\ epoch[callSlot] = callIn => target[callSlot] = callFn

IInv == TypeOK /\ RegsAgree /\ HoldersFilled /\ IdsKept /\ OneDetour /\ SlotsFit /\ CallKnows

(* "the original is then called with whatever is left in args": what the    *)
(* call is about to jump to is still there, even if "a callback ...         *)
(* removes a hook".                                                         *)
TrampolineLives ==
  (callPc = "callbacks" /\ todo = {}) => callTram = epoch[callSlot]

(* "Call from RegisterModUnload -- a reload otherwise leaves a detour": a    *)
(* mod that did, and is closed, is not called by what a call copied before. *)
TodoIsOpen == \A r \in todo : owner[r] \notin closed
=============================================================================
