------------------------ MODULE NativeHooks_proofs ------------------------
(***************************************************************************)
(* Proofs about NativeHooks, for any mods, functions, number of slots,      *)
(* registrations and calls.                                                 *)
(***************************************************************************)
EXTENDS NativeHooks, TLAPS

LEMMA NoneIsNoSlot == None \notin Slots
BY NativeAssumption DEF Slots

(* A registration under way has a number.                                   *)
LEMMA RegKnown ==
  ASSUME TypeOK, RegsAgree, NEW m \in Mods, pc[m] \in {"install", "fill", "add"}
  PROVE  reg[m] \in Regs /\ reg[m] \in Nat /\ reg[m] <= regs
BY NativeAssumption DEF TypeOK, RegsAgree, MakersAgree, Regs

(* A removal, place by place.                                               *)
UninstallFacts(m) ==
  /\ at[m] \in Slots /\ pc[m] = "uninstall"
  /\ target' = [target EXCEPT ![at[m]] = None]
  /\ disp' \in [Slots -> Nat] /\ epoch' \in [Slots -> Nat]
  /\ \A t \in Slots \ {at[m]} : disp'[t] = disp[t] /\ epoch'[t] = epoch[t]
  /\ target[at[m]] = None => epoch' = epoch
  /\ target[at[m]] # None => epoch'[at[m]] = epoch[at[m]] + 1
  /\ pc' = [pc EXCEPT ![m] = "idle"]
  /\ UNCHANGED <<list, regVars, reg, at, ids, closed, raced, callVars>>

LEMMA UninstallEffect ==
  ASSUME TypeOK, RegsAgree, NEW m \in Mods, Uninstall(m)
  PROVE  UninstallFacts(m)
<1>1. at[m] \in Slots
  BY DEF Uninstall, RegsAgree, MakersAgree
<1>2. CASE target[at[m]] = None
  <2>1. UNCHANGED entryVars
    BY <1>2 DEF Uninstall
  <2>2. target = [target EXCEPT ![at[m]] = None]
    BY <1>1, <1>2 DEF TypeOK
  <2> QED BY <1>1, <1>2, <2>1, <2>2 DEF Uninstall, Goes, entryVars, TypeOK, UninstallFacts
<1>3. CASE target[at[m]] # None
  <2>1. /\ target' = [target EXCEPT ![at[m]] = None]
        /\ disp' = [disp EXCEPT ![at[m]] = 0]
        /\ epoch' = [epoch EXCEPT ![at[m]] = epoch[at[m]] + 1]
    BY <1>3 DEF Uninstall
  <2> QED BY <1>1, <1>3, <2>1 DEF Uninstall, Goes, TypeOK, UninstallFacts
<1> QED BY <1>2, <1>3

(* A removal of a mod's callbacks, place by place.                          *)
UnregisterFacts(m, s) ==
  /\ pc[m] = "idle" /\ m \notin closed
  /\ ids' = [ids EXCEPT ![m] = ids[m] \ {s}]
  /\ list' = [list EXCEPT ![s] = Others(m, s)] /\ Others(m, s) \subseteq list[s]
  /\ \/ UNCHANGED <<at, pc, raced>>
     \/ /\ Others(m, s) = {}
        /\ at' = [at EXCEPT ![m] = s] /\ pc' = [pc EXCEPT ![m] = "uninstall"]
        /\ raced \subseteq raced' /\ raced' \subseteq raced \cup {s}
        /\ (\E n \in Mods : InFlight(n, s)) => s \in raced'
  /\ UNCHANGED <<entryVars, regVars, reg, closed, callVars>>

LEMMA UnregisterEffect ==
  ASSUME TypeOK, NEW m \in Mods, NEW s \in Slots, Unregister(m, s)
  PROVE  UnregisterFacts(m, s)
BY DEF Unregister, Goes, Others, TypeOK, UnregisterFacts

(* A registration that got a slot, place by place.                          *)
GotFacts(m, s) ==
  /\ reg[m] \in Regs /\ reg[m] \in Nat /\ reg[m] \in 1..regs
  /\ slot' = [slot EXCEPT ![reg[m]] = s] /\ slot[reg[m]] = None
  /\ disp' = [disp EXCEPT ![s] = reg[m]]
  /\ raced \subseteq raced' /\ raced' \subseteq raced \cup {s}
  /\ (\E n \in Mods : Leaving(n, s)) => s \in raced'
  /\ pc[m] = "install" /\ pc' = [pc EXCEPT ![m] = "fill"]
  /\ target' = [target EXCEPT ![s] = wanted[reg[m]]] /\ target[s] \in {None, wanted[reg[m]]}
  /\ target[s] = None => \A t \in Slots : target[t] # wanted[reg[m]]
  /\ wanted[reg[m]] \in Functions /\ owner[reg[m]] = m
  /\ \A r \in Regs : slot[r] \in Slots => (slot'[r] = slot[r] /\ r # reg[m])
  /\ \A n \in Mods \ {m} : pc[n] \in {"install", "fill", "add"} => reg[n] # reg[m]
  /\ UNCHANGED <<epoch, list, regs, owner, wanted, filled, reg, at, ids, closed, callVars>>

LEMMA GotEffect ==
  ASSUME TypeOK, RegsAgree, NEW m \in Mods, NEW s \in Slots, InstallOver(m, s) \/ InstallNew(m, s)
  PROVE  GotFacts(m, s)
<1>1. pc[m] = "install" /\ Got(m, s)
  BY DEF InstallOver, InstallNew
<1>2. reg[m] \in Regs /\ reg[m] \in Nat
  BY <1>1, RegKnown
<1>3. slot[reg[m]] = None /\ wanted[reg[m]] # None /\ owner[reg[m]] = m /\ reg[m] \in 1..regs
  BY <1>1 DEF RegsAgree, MakersAgree
<1>4. slot' = [slot EXCEPT ![reg[m]] = s]
  BY <1>1 DEF Got
<1>5. \A r \in Regs : slot[r] \in Slots => (slot'[r] = slot[r] /\ r # reg[m])
  BY <1>2, <1>3, <1>4, NoneIsNoSlot DEF TypeOK
<1>6. \A n \in Mods \ {m} : pc[n] \in {"install", "fill", "add"} => reg[n] # reg[m]
  BY <1>1 DEF RegsAgree, MakersAgree
<1>7. /\ target' = [target EXCEPT ![s] = wanted[reg[m]]] /\ target[s] \in {None, wanted[reg[m]]}
      /\ target[s] = None => \A t \in Slots : target[t] # wanted[reg[m]]
  <2>1. CASE InstallOver(m, s)
    BY <1>3, <2>1 DEF InstallOver, Wanted, TypeOK
  <2>2. CASE InstallNew(m, s)
    BY <2>2 DEF InstallNew, Wanted, Hooked
  <2> QED BY <2>1, <2>2
<1> QED BY <1>1, <1>2, <1>3, <1>5, <1>6, <1>7 DEF Got, Goes, TypeOK, GotFacts

(* A new registration, place by place.                                      *)
RegisterFacts(m, f) ==
  /\ regs \in Nat /\ regs + 1 \in Regs /\ regs' = regs + 1 /\ regs' \in 0..MaxRegs
  /\ slot[regs + 1] = None
  /\ reg' = [reg EXCEPT ![m] = regs + 1] /\ pc' = [pc EXCEPT ![m] = "install"]
  /\ owner' \in [Regs -> Mods \cup {None}] /\ owner'[regs + 1] = m
  /\ wanted' \in [Regs -> Functions \cup {None}] /\ wanted'[regs + 1] = f
  /\ \A r \in 1..regs : r \in Regs /\ r # regs + 1 /\ owner'[r] = owner[r] /\ wanted'[r] = wanted[r]
  /\ \A r \in Regs : slot[r] \in Slots => (r \in 1..regs /\ owner'[r] = owner[r] /\ wanted'[r] = wanted[r])
  /\ pc[m] = "idle" /\ m \notin closed /\ 1..regs \subseteq 1..regs' /\ regs + 1 \in 1..regs'
  /\ f # None
  /\ UNCHANGED <<entryVars, list, slot, filled, at, ids, closed, raced, callVars>>

LEMMA RegisterEffect ==
  ASSUME TypeOK, RegsAgree, NEW m \in Mods, NEW f \in Functions, Register(m, f)
  PROVE  RegisterFacts(m, f)
<1>1. /\ regs \in Nat /\ regs + 1 \in Regs /\ regs' = regs + 1 /\ regs' \in 0..MaxRegs
      /\ \A r \in 1..regs : r \in Regs /\ r # regs + 1
      /\ 1..regs \subseteq 1..regs' /\ regs + 1 \in 1..regs' /\ f # None
  BY NativeAssumption DEF Register, TypeOK, Regs
<1>2. \A r \in Regs : slot[r] \in Slots => r \in 1..regs
  BY <1>1, NoneIsNoSlot, NativeAssumption DEF RegsAgree, EntriesAgree, Regs
<1>3. slot[regs + 1] = None
  BY <1>1 DEF RegsAgree, EntriesAgree
<1>4. /\ owner' = [owner EXCEPT ![regs + 1] = m] /\ wanted' = [wanted EXCEPT ![regs + 1] = f]
      /\ reg' = [reg EXCEPT ![m] = regs + 1]
  BY DEF Register
<1>5. /\ owner' \in [Regs -> Mods \cup {None}] /\ owner'[regs + 1] = m
      /\ wanted' \in [Regs -> Functions \cup {None}] /\ wanted'[regs + 1] = f
      /\ \A r \in 1..regs : owner'[r] = owner[r] /\ wanted'[r] = wanted[r]
  BY <1>1, <1>4 DEF TypeOK
<1> QED BY <1>1, <1>2, <1>3, <1>4, <1>5 DEF Register, Goes, RegisterFacts

(* Every action keeps the types.                                            *)
LEMMA TypeStep ==
  TypeOK /\ RegsAgree /\ [Next]_vars => TypeOK'
<1> SUFFICES ASSUME TypeOK, RegsAgree, [Next]_vars
             PROVE  TypeOK'
  OBVIOUS
<1>1. CASE FindsNoEntry
  BY <1>1, NativeAssumption DEF FindsNoEntry, TypeOK, RegsAgree, MakersAgree, EntriesAgree,
      CallAgrees, entryVars, regVars, modVars, callVars
<1>2. CASE CopyEntry
  BY <1>2, NativeAssumption DEF CopyEntry, TypeOK, RegsAgree, MakersAgree, EntriesAgree,
      CallAgrees, entryVars, regVars, modVars, callVars
<1>3. CASE CopyCallbacks
  BY <1>3, NativeAssumption DEF CopyCallbacks, Found, TypeOK, RegsAgree, MakersAgree,
      EntriesAgree, CallAgrees, entryVars, regVars, modVars, callVars
<1>4. CASE RunCallback
  BY <1>4, NativeAssumption DEF RunCallback, TypeOK, RegsAgree, MakersAgree, EntriesAgree,
      CallAgrees, entryVars, regVars, modVars, callVars
<1>5. CASE CallOriginal
  BY <1>5, NativeAssumption DEF CallOriginal, TypeOK, RegsAgree, MakersAgree, EntriesAgree,
      CallAgrees, entryVars, regVars, modVars, callVars
<1>6. ASSUME NEW m \in Mods, NEW s \in Slots, InstallOver(m, s) PROVE TypeOK'
  <2>1. GotFacts(m, s)
    BY <1>6, GotEffect
  <2> QED BY <2>1, NoneIsNoSlot DEF GotFacts, TypeOK, entryVars, regVars, modVars, callVars
<1>7. ASSUME NEW m \in Mods, NEW s \in Slots, InstallNew(m, s) PROVE TypeOK'
  <2>1. GotFacts(m, s)
    BY <1>7, GotEffect
  <2> QED BY <2>1, NoneIsNoSlot DEF GotFacts, TypeOK, entryVars, regVars, modVars, callVars
<1>8. ASSUME NEW m \in Mods, InstallFails(m) PROVE TypeOK'
  BY <1>8, NativeAssumption DEF InstallFails, Goes, TypeOK, RegsAgree, MakersAgree,
      EntriesAgree, CallAgrees, entryVars, regVars, modVars, callVars
<1>9. ASSUME NEW m \in Mods, FillHolder(m) PROVE TypeOK'
  <2>1. reg[m] \in Regs
    BY <1>9, RegKnown DEF FillHolder
  <2> QED BY <1>9, <2>1 DEF FillHolder, Goes, TypeOK, entryVars, regVars, modVars, callVars
<1>10. ASSUME NEW m \in Mods, AddCallback(m) PROVE TypeOK'
  <2>1. reg[m] \in Regs /\ slot[reg[m]] \in Slots
    BY <1>10, RegKnown DEF AddCallback, RegsAgree, MakersAgree
  <2>2. list' \in [Slots -> SUBSET Regs] /\ ids' \in [Mods -> SUBSET Slots]
    BY <1>10, <2>1 DEF AddCallback, TypeOK
  <2> QED BY <1>10, <2>2 DEF AddCallback, Goes, TypeOK, entryVars, regVars, modVars, callVars
<1>11. ASSUME NEW m \in Mods, Uninstall(m) PROVE TypeOK'
  <2>1. UninstallFacts(m)
    BY <1>11, UninstallEffect
  <2> QED BY <2>1, NoneIsNoSlot DEF UninstallFacts, TypeOK, entryVars, regVars, modVars, callVars
<1>12. ASSUME NEW m \in Mods, CloseMod(m) PROVE TypeOK'
  BY <1>12, NativeAssumption DEF CloseMod, TypeOK, RegsAgree, MakersAgree, EntriesAgree,
      CallAgrees, entryVars, regVars, modVars, callVars
<1>13. ASSUME NEW m \in Mods, NEW f \in Functions, Register(m, f) PROVE TypeOK'
  <2>1. RegisterFacts(m, f)
    BY <1>13, RegisterEffect
  <2> QED BY <2>1, NoneIsNoSlot DEF RegisterFacts, TypeOK, entryVars, regVars, modVars, callVars
<1>14. ASSUME NEW m \in Mods, NEW s \in Slots, Unregister(m, s) PROVE TypeOK'
  <2>1. UnregisterFacts(m, s)
    BY <1>14, UnregisterEffect
  <2> QED BY <2>1, NoneIsNoSlot DEF UnregisterFacts, TypeOK, entryVars, regVars, modVars, callVars
<1>15. ASSUME NEW s \in Slots, Enter(s) PROVE TypeOK'
  BY <1>15, NativeAssumption DEF Enter, TypeOK, RegsAgree, MakersAgree, EntriesAgree,
      CallAgrees, entryVars, regVars, modVars, callVars
<1>16. CASE UNCHANGED vars
  BY <1>16, NativeAssumption DEF vars, TypeOK, RegsAgree, MakersAgree, EntriesAgree,
      CallAgrees, entryVars, regVars, modVars, callVars
<1> QED
  BY <1>1, <1>2, <1>3, <1>4, <1>5, <1>6, <1>7, <1>8, <1>9, <1>10, <1>11, <1>12,
     <1>13, <1>14, <1>15, <1>16
     DEF Next, RegisterStep, CallStep

(* Registrations, entries, callbacks and calls agree on the slot.          *)
LEMMA RegsStep ==
  TypeOK /\ RegsAgree /\ [Next]_vars => RegsAgree'
<1> SUFFICES ASSUME TypeOK, RegsAgree, [Next]_vars
             PROVE  RegsAgree'
  OBVIOUS
<1>1. CASE FindsNoEntry
  BY <1>1, NativeAssumption DEF FindsNoEntry, TypeOK, RegsAgree, MakersAgree, EntriesAgree,
      CallAgrees, entryVars, regVars, modVars, callVars
<1>2. CASE CopyEntry
  BY <1>2, NativeAssumption DEF CopyEntry, TypeOK, RegsAgree, MakersAgree, EntriesAgree,
      CallAgrees, entryVars, regVars, modVars, callVars
<1>3. CASE CopyCallbacks
  BY <1>3, NativeAssumption DEF CopyCallbacks, Found, TypeOK, RegsAgree, MakersAgree,
      EntriesAgree, CallAgrees, entryVars, regVars, modVars, callVars
<1>4. CASE RunCallback
  BY <1>4, NativeAssumption DEF RunCallback, TypeOK, RegsAgree, MakersAgree, EntriesAgree,
      CallAgrees, entryVars, regVars, modVars, callVars
<1>5. CASE CallOriginal
  BY <1>5, NativeAssumption DEF CallOriginal, TypeOK, RegsAgree, MakersAgree, EntriesAgree,
      CallAgrees, entryVars, regVars, modVars, callVars
<1>6. ASSUME NEW m \in Mods, NEW s \in Slots, InstallOver(m, s) PROVE RegsAgree'
  <2>1. GotFacts(m, s)
    BY <1>6, GotEffect
  <2>2. MakersAgree'
    BY <2>1, NoneIsNoSlot DEF GotFacts, RegsAgree, MakersAgree, EntriesAgree, CallAgrees,
      TypeOK, entryVars, regVars, modVars, callVars
  <2>3. EntriesAgree'
    BY <2>1, NoneIsNoSlot DEF GotFacts, RegsAgree, MakersAgree, EntriesAgree, CallAgrees,
      TypeOK, entryVars, regVars, modVars, callVars
  <2>4. CallAgrees'
    BY <2>1, NoneIsNoSlot DEF GotFacts, RegsAgree, MakersAgree, EntriesAgree, CallAgrees,
      TypeOK, entryVars, regVars, modVars, callVars
  <2> QED BY <2>2, <2>3, <2>4 DEF RegsAgree
<1>7. ASSUME NEW m \in Mods, NEW s \in Slots, InstallNew(m, s) PROVE RegsAgree'
  <2>1. GotFacts(m, s)
    BY <1>7, GotEffect
  <2>2. MakersAgree'
    BY <2>1, NoneIsNoSlot DEF GotFacts, RegsAgree, MakersAgree, EntriesAgree, CallAgrees,
      TypeOK, entryVars, regVars, modVars, callVars
  <2>3. EntriesAgree'
    BY <2>1, NoneIsNoSlot DEF GotFacts, RegsAgree, MakersAgree, EntriesAgree, CallAgrees,
      TypeOK, entryVars, regVars, modVars, callVars
  <2>4. CallAgrees'
    BY <2>1, NoneIsNoSlot DEF GotFacts, RegsAgree, MakersAgree, EntriesAgree, CallAgrees,
      TypeOK, entryVars, regVars, modVars, callVars
  <2> QED BY <2>2, <2>3, <2>4 DEF RegsAgree
<1>8. ASSUME NEW m \in Mods, InstallFails(m) PROVE RegsAgree'
  BY <1>8, NativeAssumption DEF InstallFails, Goes, TypeOK, RegsAgree, MakersAgree,
      EntriesAgree, CallAgrees, entryVars, regVars, modVars, callVars
<1>9. ASSUME NEW m \in Mods, FillHolder(m) PROVE RegsAgree'
  BY <1>9, NativeAssumption DEF FillHolder, Goes, TypeOK, RegsAgree, MakersAgree, EntriesAgree,
      CallAgrees, entryVars, regVars, modVars, callVars
<1>10. ASSUME NEW m \in Mods, AddCallback(m) PROVE RegsAgree'
  BY <1>10, NativeAssumption DEF AddCallback, Goes, TypeOK, RegsAgree, MakersAgree,
      EntriesAgree, CallAgrees, entryVars, regVars, modVars, callVars
<1>11. ASSUME NEW m \in Mods, Uninstall(m) PROVE RegsAgree'
  <2>1. UninstallFacts(m)
    BY <1>11, UninstallEffect
  <2>2. MakersAgree'
    BY <2>1, NoneIsNoSlot DEF UninstallFacts, RegsAgree, MakersAgree, EntriesAgree, CallAgrees,
      TypeOK, entryVars, regVars, modVars, callVars
  <2>3. EntriesAgree'
    BY <2>1, NoneIsNoSlot DEF UninstallFacts, RegsAgree, MakersAgree, EntriesAgree, CallAgrees,
      TypeOK, entryVars, regVars, modVars, callVars
  <2>4. CallAgrees'
    BY <2>1, NoneIsNoSlot DEF UninstallFacts, RegsAgree, MakersAgree, EntriesAgree, CallAgrees,
      TypeOK, entryVars, regVars, modVars, callVars
  <2> QED BY <2>2, <2>3, <2>4 DEF RegsAgree
<1>12. ASSUME NEW m \in Mods, CloseMod(m) PROVE RegsAgree'
  BY <1>12, NativeAssumption DEF CloseMod, TypeOK, RegsAgree, MakersAgree, EntriesAgree,
      CallAgrees, entryVars, regVars, modVars, callVars
<1>13. ASSUME NEW m \in Mods, NEW f \in Functions, Register(m, f) PROVE RegsAgree'
  <2>1. RegisterFacts(m, f)
    BY <1>13, RegisterEffect
  <2>2. MakersAgree'
    BY <2>1, NoneIsNoSlot DEF RegisterFacts, RegsAgree, MakersAgree, EntriesAgree, CallAgrees,
      TypeOK, entryVars, regVars, modVars, callVars
  <2>3. EntriesAgree'
    BY <2>1, NoneIsNoSlot DEF RegisterFacts, RegsAgree, MakersAgree, EntriesAgree, CallAgrees,
      TypeOK, entryVars, regVars, modVars, callVars
  <2>4. CallAgrees'
    BY <2>1, NoneIsNoSlot DEF RegisterFacts, RegsAgree, MakersAgree, EntriesAgree, CallAgrees,
      TypeOK, entryVars, regVars, modVars, callVars
  <2> QED BY <2>2, <2>3, <2>4 DEF RegsAgree
<1>14. ASSUME NEW m \in Mods, NEW s \in Slots, Unregister(m, s) PROVE RegsAgree'
  <2>1. UnregisterFacts(m, s)
    BY <1>14, UnregisterEffect
  <2>2. MakersAgree'
    BY <2>1, NoneIsNoSlot DEF UnregisterFacts, RegsAgree, MakersAgree, EntriesAgree,
      CallAgrees, TypeOK, entryVars, regVars, modVars, callVars
  <2>3. EntriesAgree'
    BY <2>1, NoneIsNoSlot DEF UnregisterFacts, RegsAgree, MakersAgree, EntriesAgree,
      CallAgrees, TypeOK, entryVars, regVars, modVars, callVars
  <2>4. CallAgrees'
    BY <2>1, NoneIsNoSlot DEF UnregisterFacts, RegsAgree, MakersAgree, EntriesAgree,
      CallAgrees, TypeOK, entryVars, regVars, modVars, callVars
  <2> QED BY <2>2, <2>3, <2>4 DEF RegsAgree
<1>15. ASSUME NEW s \in Slots, Enter(s) PROVE RegsAgree'
  BY <1>15, NativeAssumption DEF Enter, TypeOK, RegsAgree, MakersAgree, EntriesAgree,
      CallAgrees, entryVars, regVars, modVars, callVars
<1>16. CASE UNCHANGED vars
  BY <1>16, NativeAssumption DEF vars, TypeOK, RegsAgree, MakersAgree, EntriesAgree,
      CallAgrees, entryVars, regVars, modVars, callVars
<1> QED
  BY <1>1, <1>2, <1>3, <1>4, <1>5, <1>6, <1>7, <1>8, <1>9, <1>10, <1>11, <1>12,
     <1>13, <1>14, <1>15, <1>16
     DEF Next, RegisterStep, CallStep

(* Who replaces a dispatcher goes on to set its id_holder.                 *)
LEMMA HoldersStep ==
  TypeOK /\ RegsAgree /\ HoldersFilled /\ [Next]_vars => HoldersFilled'
<1> SUFFICES ASSUME TypeOK, RegsAgree, HoldersFilled, [Next]_vars
             PROVE  HoldersFilled'
  OBVIOUS
<1>1. CASE FindsNoEntry
  BY <1>1, NativeAssumption DEF FindsNoEntry, TypeOK, RegsAgree, MakersAgree, EntriesAgree,
      HoldersFilled, FillsFor, entryVars, regVars, modVars, callVars
<1>2. CASE CopyEntry
  BY <1>2, NativeAssumption DEF CopyEntry, TypeOK, RegsAgree, MakersAgree, EntriesAgree,
      HoldersFilled, FillsFor, entryVars, regVars, modVars, callVars
<1>3. CASE CopyCallbacks
  BY <1>3, NativeAssumption DEF CopyCallbacks, Found, TypeOK, RegsAgree, MakersAgree,
      EntriesAgree, HoldersFilled, FillsFor, entryVars, regVars, modVars, callVars
<1>4. CASE RunCallback
  BY <1>4, NativeAssumption DEF RunCallback, TypeOK, RegsAgree, MakersAgree, EntriesAgree,
      HoldersFilled, FillsFor, entryVars, regVars, modVars, callVars
<1>5. CASE CallOriginal
  BY <1>5, NativeAssumption DEF CallOriginal, TypeOK, RegsAgree, MakersAgree, EntriesAgree,
      HoldersFilled, FillsFor, entryVars, regVars, modVars, callVars
<1>6. ASSUME NEW m \in Mods, NEW s \in Slots, InstallOver(m, s) PROVE HoldersFilled'
  <2>1. GotFacts(m, s)
    BY <1>6, GotEffect
  <2> QED BY <2>1, NoneIsNoSlot DEF GotFacts, TypeOK, RegsAgree, MakersAgree, EntriesAgree,
      HoldersFilled, FillsFor, entryVars, regVars, modVars, callVars
<1>7. ASSUME NEW m \in Mods, NEW s \in Slots, InstallNew(m, s) PROVE HoldersFilled'
  <2>1. GotFacts(m, s)
    BY <1>7, GotEffect
  <2> QED BY <2>1, NoneIsNoSlot DEF GotFacts, TypeOK, RegsAgree, MakersAgree, EntriesAgree,
      HoldersFilled, FillsFor, entryVars, regVars, modVars, callVars
<1>8. ASSUME NEW m \in Mods, InstallFails(m) PROVE HoldersFilled'
  BY <1>8, NativeAssumption DEF InstallFails, Goes, TypeOK, RegsAgree, MakersAgree,
      EntriesAgree, HoldersFilled, FillsFor, entryVars, regVars, modVars, callVars
<1>9. ASSUME NEW m \in Mods, FillHolder(m) PROVE HoldersFilled'
  BY <1>9, NativeAssumption DEF FillHolder, Goes, TypeOK, RegsAgree, MakersAgree, EntriesAgree,
      HoldersFilled, FillsFor, entryVars, regVars, modVars, callVars
<1>10. ASSUME NEW m \in Mods, AddCallback(m) PROVE HoldersFilled'
  BY <1>10, NativeAssumption DEF AddCallback, Goes, TypeOK, RegsAgree, MakersAgree,
      EntriesAgree, HoldersFilled, FillsFor, entryVars, regVars, modVars, callVars
<1>11. ASSUME NEW m \in Mods, Uninstall(m) PROVE HoldersFilled'
  <2>1. UninstallFacts(m)
    BY <1>11, UninstallEffect
  <2> QED BY <2>1, NoneIsNoSlot DEF UninstallFacts, TypeOK, RegsAgree, MakersAgree,
      EntriesAgree, HoldersFilled, FillsFor, entryVars, regVars, modVars, callVars
<1>12. ASSUME NEW m \in Mods, CloseMod(m) PROVE HoldersFilled'
  BY <1>12, NativeAssumption DEF CloseMod, TypeOK, RegsAgree, MakersAgree, EntriesAgree,
      HoldersFilled, FillsFor, entryVars, regVars, modVars, callVars
<1>13. ASSUME NEW m \in Mods, NEW f \in Functions, Register(m, f) PROVE HoldersFilled'
  <2>1. RegisterFacts(m, f)
    BY <1>13, RegisterEffect
  <2> QED BY <2>1, NoneIsNoSlot DEF RegisterFacts, TypeOK, RegsAgree, MakersAgree,
      EntriesAgree, HoldersFilled, FillsFor, entryVars, regVars, modVars, callVars
<1>14. ASSUME NEW m \in Mods, NEW s \in Slots, Unregister(m, s) PROVE HoldersFilled'
  <2>1. UnregisterFacts(m, s)
    BY <1>14, UnregisterEffect
  <2> QED BY <2>1, NoneIsNoSlot DEF UnregisterFacts, TypeOK, RegsAgree, MakersAgree,
      EntriesAgree, HoldersFilled, FillsFor, entryVars, regVars, modVars, callVars
<1>15. ASSUME NEW s \in Slots, Enter(s) PROVE HoldersFilled'
  BY <1>15, NativeAssumption DEF Enter, TypeOK, RegsAgree, MakersAgree, EntriesAgree,
      HoldersFilled, FillsFor, entryVars, regVars, modVars, callVars
<1>16. CASE UNCHANGED vars
  BY <1>16, NativeAssumption DEF vars, TypeOK, RegsAgree, MakersAgree, EntriesAgree,
      HoldersFilled, FillsFor, entryVars, regVars, modVars, callVars
<1> QED
  BY <1>1, <1>2, <1>3, <1>4, <1>5, <1>6, <1>7, <1>8, <1>9, <1>10, <1>11, <1>12,
     <1>13, <1>14, <1>15, <1>16
     DEF Next, RegisterStep, CallStep

(* A callback and the id of its slot come and go together.                 *)
LEMMA IdsStep ==
  TypeOK /\ RegsAgree /\ IdsKept /\ [Next]_vars => IdsKept'
<1> SUFFICES ASSUME TypeOK, RegsAgree, IdsKept, [Next]_vars
             PROVE  IdsKept'
  OBVIOUS
<1>1. CASE FindsNoEntry
  BY <1>1, NativeAssumption DEF FindsNoEntry, TypeOK, RegsAgree, MakersAgree, EntriesAgree,
      IdsKept, entryVars, regVars, modVars, callVars
<1>2. CASE CopyEntry
  BY <1>2, NativeAssumption DEF CopyEntry, TypeOK, RegsAgree, MakersAgree, EntriesAgree,
      IdsKept, entryVars, regVars, modVars, callVars
<1>3. CASE CopyCallbacks
  BY <1>3, NativeAssumption DEF CopyCallbacks, Found, TypeOK, RegsAgree, MakersAgree,
      EntriesAgree, IdsKept, entryVars, regVars, modVars, callVars
<1>4. CASE RunCallback
  BY <1>4, NativeAssumption DEF RunCallback, TypeOK, RegsAgree, MakersAgree, EntriesAgree,
      IdsKept, entryVars, regVars, modVars, callVars
<1>5. CASE CallOriginal
  BY <1>5, NativeAssumption DEF CallOriginal, TypeOK, RegsAgree, MakersAgree, EntriesAgree,
      IdsKept, entryVars, regVars, modVars, callVars
<1>6. ASSUME NEW m \in Mods, NEW s \in Slots, InstallOver(m, s) PROVE IdsKept'
  <2>1. GotFacts(m, s)
    BY <1>6, GotEffect
  <2> QED BY <2>1, NoneIsNoSlot DEF GotFacts, TypeOK, RegsAgree, MakersAgree, EntriesAgree,
      IdsKept, Others, entryVars, regVars, modVars, callVars
<1>7. ASSUME NEW m \in Mods, NEW s \in Slots, InstallNew(m, s) PROVE IdsKept'
  <2>1. GotFacts(m, s)
    BY <1>7, GotEffect
  <2> QED BY <2>1, NoneIsNoSlot DEF GotFacts, TypeOK, RegsAgree, MakersAgree, EntriesAgree,
      IdsKept, Others, entryVars, regVars, modVars, callVars
<1>8. ASSUME NEW m \in Mods, InstallFails(m) PROVE IdsKept'
  BY <1>8, NativeAssumption DEF InstallFails, Goes, TypeOK, RegsAgree, MakersAgree,
      EntriesAgree, IdsKept, entryVars, regVars, modVars, callVars
<1>9. ASSUME NEW m \in Mods, FillHolder(m) PROVE IdsKept'
  BY <1>9, NativeAssumption DEF FillHolder, Goes, TypeOK, RegsAgree, MakersAgree, EntriesAgree,
      IdsKept, entryVars, regVars, modVars, callVars
<1>10. ASSUME NEW m \in Mods, AddCallback(m) PROVE IdsKept'
  BY <1>10, NativeAssumption DEF AddCallback, Goes, TypeOK, RegsAgree, MakersAgree,
      EntriesAgree, IdsKept, entryVars, regVars, modVars, callVars
<1>11. ASSUME NEW m \in Mods, Uninstall(m) PROVE IdsKept'
  <2>1. UninstallFacts(m)
    BY <1>11, UninstallEffect
  <2> QED BY <2>1, NoneIsNoSlot DEF UninstallFacts, TypeOK, RegsAgree, MakersAgree,
      EntriesAgree, IdsKept, Others, entryVars, regVars, modVars, callVars
<1>12. ASSUME NEW m \in Mods, CloseMod(m) PROVE IdsKept'
  BY <1>12, NativeAssumption DEF CloseMod, TypeOK, RegsAgree, MakersAgree, EntriesAgree,
      IdsKept, entryVars, regVars, modVars, callVars
<1>13. ASSUME NEW m \in Mods, NEW f \in Functions, Register(m, f) PROVE IdsKept'
  <2>1. RegisterFacts(m, f)
    BY <1>13, RegisterEffect
  <2> QED BY <2>1, NoneIsNoSlot DEF RegisterFacts, TypeOK, RegsAgree, MakersAgree,
      EntriesAgree, IdsKept, Others, entryVars, regVars, modVars, callVars
<1>14. ASSUME NEW m \in Mods, NEW s \in Slots, Unregister(m, s) PROVE IdsKept'
  <2>1. UnregisterFacts(m, s)
    BY <1>14, UnregisterEffect
  <2> QED BY <2>1, NoneIsNoSlot DEF UnregisterFacts, TypeOK, RegsAgree, MakersAgree,
      EntriesAgree, IdsKept, Others, entryVars, regVars, modVars, callVars
<1>15. ASSUME NEW s \in Slots, Enter(s) PROVE IdsKept'
  BY <1>15, NativeAssumption DEF Enter, TypeOK, RegsAgree, MakersAgree, EntriesAgree, IdsKept,
      entryVars, regVars, modVars, callVars
<1>16. CASE UNCHANGED vars
  BY <1>16, NativeAssumption DEF vars, TypeOK, RegsAgree, MakersAgree, EntriesAgree, IdsKept,
      entryVars, regVars, modVars, callVars
<1> QED
  BY <1>1, <1>2, <1>3, <1>4, <1>5, <1>6, <1>7, <1>8, <1>9, <1>10, <1>11, <1>12,
     <1>13, <1>14, <1>15, <1>16
     DEF Next, RegisterStep, CallStep

(* A function is looked for among the hooked ones under the same mutex.    *)
LEMMA DetourStep ==
  TypeOK /\ RegsAgree /\ OneDetour /\ [Next]_vars => OneDetour'
<1> SUFFICES ASSUME TypeOK, RegsAgree, OneDetour, [Next]_vars
             PROVE  OneDetour'
  OBVIOUS
<1>1. CASE FindsNoEntry
  BY <1>1, NativeAssumption DEF FindsNoEntry, TypeOK, RegsAgree, MakersAgree, OneDetour,
      entryVars, regVars, modVars, callVars
<1>2. CASE CopyEntry
  BY <1>2, NativeAssumption DEF CopyEntry, TypeOK, RegsAgree, MakersAgree, OneDetour,
      entryVars, regVars, modVars, callVars
<1>3. CASE CopyCallbacks
  BY <1>3, NativeAssumption DEF CopyCallbacks, Found, TypeOK, RegsAgree, MakersAgree,
      OneDetour, entryVars, regVars, modVars, callVars
<1>4. CASE RunCallback
  BY <1>4, NativeAssumption DEF RunCallback, TypeOK, RegsAgree, MakersAgree, OneDetour,
      entryVars, regVars, modVars, callVars
<1>5. CASE CallOriginal
  BY <1>5, NativeAssumption DEF CallOriginal, TypeOK, RegsAgree, MakersAgree, OneDetour,
      entryVars, regVars, modVars, callVars
<1>6. ASSUME NEW m \in Mods, NEW s \in Slots, InstallOver(m, s) PROVE OneDetour'
  <2>1. GotFacts(m, s)
    BY <1>6, GotEffect
  <2> QED BY <2>1, NoneIsNoSlot DEF GotFacts, TypeOK, RegsAgree, MakersAgree, OneDetour,
      entryVars, regVars, modVars, callVars
<1>7. ASSUME NEW m \in Mods, NEW s \in Slots, InstallNew(m, s) PROVE OneDetour'
  <2>1. GotFacts(m, s)
    BY <1>7, GotEffect
  <2> QED BY <2>1, NoneIsNoSlot DEF GotFacts, TypeOK, RegsAgree, MakersAgree, OneDetour,
      entryVars, regVars, modVars, callVars
<1>8. ASSUME NEW m \in Mods, InstallFails(m) PROVE OneDetour'
  BY <1>8, NativeAssumption DEF InstallFails, Goes, TypeOK, RegsAgree, MakersAgree, OneDetour,
      entryVars, regVars, modVars, callVars
<1>9. ASSUME NEW m \in Mods, FillHolder(m) PROVE OneDetour'
  BY <1>9, NativeAssumption DEF FillHolder, Goes, TypeOK, RegsAgree, MakersAgree, OneDetour,
      entryVars, regVars, modVars, callVars
<1>10. ASSUME NEW m \in Mods, AddCallback(m) PROVE OneDetour'
  BY <1>10, NativeAssumption DEF AddCallback, Goes, TypeOK, RegsAgree, MakersAgree, OneDetour,
      entryVars, regVars, modVars, callVars
<1>11. ASSUME NEW m \in Mods, Uninstall(m) PROVE OneDetour'
  <2>1. UninstallFacts(m)
    BY <1>11, UninstallEffect
  <2> QED BY <2>1, NoneIsNoSlot DEF UninstallFacts, TypeOK, RegsAgree, MakersAgree, OneDetour,
      entryVars, regVars, modVars, callVars
<1>12. ASSUME NEW m \in Mods, CloseMod(m) PROVE OneDetour'
  BY <1>12, NativeAssumption DEF CloseMod, TypeOK, RegsAgree, MakersAgree, OneDetour,
      entryVars, regVars, modVars, callVars
<1>13. ASSUME NEW m \in Mods, NEW f \in Functions, Register(m, f) PROVE OneDetour'
  <2>1. RegisterFacts(m, f)
    BY <1>13, RegisterEffect
  <2> QED BY <2>1, NoneIsNoSlot DEF RegisterFacts, TypeOK, RegsAgree, MakersAgree, OneDetour,
      entryVars, regVars, modVars, callVars
<1>14. ASSUME NEW m \in Mods, NEW s \in Slots, Unregister(m, s) PROVE OneDetour'
  <2>1. UnregisterFacts(m, s)
    BY <1>14, UnregisterEffect
  <2> QED BY <2>1, NoneIsNoSlot DEF UnregisterFacts, TypeOK, RegsAgree, MakersAgree, OneDetour,
      entryVars, regVars, modVars, callVars
<1>15. ASSUME NEW s \in Slots, Enter(s) PROVE OneDetour'
  BY <1>15, NativeAssumption DEF Enter, TypeOK, RegsAgree, MakersAgree, OneDetour, entryVars,
      regVars, modVars, callVars
<1>16. CASE UNCHANGED vars
  BY <1>16, NativeAssumption DEF vars, TypeOK, RegsAgree, MakersAgree, OneDetour, entryVars,
      regVars, modVars, callVars
<1> QED
  BY <1>1, <1>2, <1>3, <1>4, <1>5, <1>6, <1>7, <1>8, <1>9, <1>10, <1>11, <1>12,
     <1>13, <1>14, <1>15, <1>16
     DEF Next, RegisterStep, CallStep

(* A slot changes its function only when nobody is on the way to it.       *)
LEMMA SlotsStep ==
  TypeOK /\ RegsAgree /\ SlotsFit /\ [Next]_vars => SlotsFit'
<1> SUFFICES ASSUME TypeOK, RegsAgree, SlotsFit, [Next]_vars
             PROVE  SlotsFit'
  OBVIOUS
<1>1. CASE FindsNoEntry
  BY <1>1, NativeAssumption DEF FindsNoEntry, TypeOK, RegsAgree, MakersAgree, EntriesAgree,
      CallAgrees, SlotsFit, InFlight, Leaving, Wanted, entryVars, regVars, modVars, callVars
<1>2. CASE CopyEntry
  BY <1>2, NativeAssumption DEF CopyEntry, TypeOK, RegsAgree, MakersAgree, EntriesAgree,
      CallAgrees, SlotsFit, InFlight, Leaving, Wanted, entryVars, regVars, modVars, callVars
<1>3. CASE CopyCallbacks
  BY <1>3, NativeAssumption DEF CopyCallbacks, Found, TypeOK, RegsAgree, MakersAgree,
      EntriesAgree, CallAgrees, SlotsFit, InFlight, Leaving, Wanted, entryVars, regVars,
      modVars, callVars
<1>4. CASE RunCallback
  BY <1>4, NativeAssumption DEF RunCallback, TypeOK, RegsAgree, MakersAgree, EntriesAgree,
      CallAgrees, SlotsFit, InFlight, Leaving, Wanted, entryVars, regVars, modVars, callVars
<1>5. CASE CallOriginal
  BY <1>5, NativeAssumption DEF CallOriginal, TypeOK, RegsAgree, MakersAgree, EntriesAgree,
      CallAgrees, SlotsFit, InFlight, Leaving, Wanted, entryVars, regVars, modVars, callVars
<1>6. ASSUME NEW m \in Mods, NEW s \in Slots, InstallOver(m, s) PROVE SlotsFit'
  <2>1. GotFacts(m, s)
    BY <1>6, GotEffect
  <2> QED BY <2>1, NoneIsNoSlot DEF GotFacts, TypeOK, RegsAgree, MakersAgree, EntriesAgree,
      CallAgrees, SlotsFit, InFlight, Leaving, Wanted, entryVars, regVars, modVars, callVars
<1>7. ASSUME NEW m \in Mods, NEW s \in Slots, InstallNew(m, s) PROVE SlotsFit'
  <2>1. GotFacts(m, s)
    BY <1>7, GotEffect
  <2> QED BY <2>1, NoneIsNoSlot DEF GotFacts, TypeOK, RegsAgree, MakersAgree, EntriesAgree,
      CallAgrees, SlotsFit, InFlight, Leaving, Wanted, entryVars, regVars, modVars, callVars
<1>8. ASSUME NEW m \in Mods, InstallFails(m) PROVE SlotsFit'
  BY <1>8, NativeAssumption DEF InstallFails, Goes, TypeOK, RegsAgree, MakersAgree,
      EntriesAgree, CallAgrees, SlotsFit, InFlight, Leaving, Wanted, entryVars, regVars,
      modVars, callVars
<1>9. ASSUME NEW m \in Mods, FillHolder(m) PROVE SlotsFit'
  BY <1>9, NativeAssumption DEF FillHolder, Goes, TypeOK, RegsAgree, MakersAgree, EntriesAgree,
      CallAgrees, SlotsFit, InFlight, Leaving, Wanted, entryVars, regVars, modVars, callVars
<1>10. ASSUME NEW m \in Mods, AddCallback(m) PROVE SlotsFit'
  BY <1>10, NativeAssumption DEF AddCallback, Goes, TypeOK, RegsAgree, MakersAgree,
      EntriesAgree, CallAgrees, SlotsFit, InFlight, Leaving, Wanted, entryVars, regVars,
      modVars, callVars
<1>11. ASSUME NEW m \in Mods, Uninstall(m) PROVE SlotsFit'
  <2>1. UninstallFacts(m)
    BY <1>11, UninstallEffect
  <2> QED BY <2>1, NoneIsNoSlot DEF UninstallFacts, TypeOK, RegsAgree, MakersAgree,
      EntriesAgree, CallAgrees, SlotsFit, InFlight, Leaving, Wanted, entryVars, regVars,
      modVars, callVars
<1>12. ASSUME NEW m \in Mods, CloseMod(m) PROVE SlotsFit'
  BY <1>12, NativeAssumption DEF CloseMod, TypeOK, RegsAgree, MakersAgree, EntriesAgree,
      CallAgrees, SlotsFit, InFlight, Leaving, Wanted, entryVars, regVars, modVars, callVars
<1>13. ASSUME NEW m \in Mods, NEW f \in Functions, Register(m, f) PROVE SlotsFit'
  <2>1. RegisterFacts(m, f)
    BY <1>13, RegisterEffect
  <2> QED BY <2>1, NoneIsNoSlot DEF RegisterFacts, TypeOK, RegsAgree, MakersAgree,
      EntriesAgree, CallAgrees, SlotsFit, InFlight, Leaving, Wanted, entryVars, regVars,
      modVars, callVars
<1>14. ASSUME NEW m \in Mods, NEW s \in Slots, Unregister(m, s) PROVE SlotsFit'
  <2>1. UnregisterFacts(m, s)
    BY <1>14, UnregisterEffect
  <2> QED BY <2>1, NoneIsNoSlot DEF UnregisterFacts, TypeOK, RegsAgree, MakersAgree,
      EntriesAgree, CallAgrees, SlotsFit, InFlight, Leaving, Wanted, entryVars, regVars,
      modVars, callVars
<1>15. ASSUME NEW s \in Slots, Enter(s) PROVE SlotsFit'
  BY <1>15, NativeAssumption DEF Enter, TypeOK, RegsAgree, MakersAgree, EntriesAgree,
      CallAgrees, SlotsFit, InFlight, Leaving, Wanted, entryVars, regVars, modVars, callVars
<1>16. CASE UNCHANGED vars
  BY <1>16, NativeAssumption DEF vars, TypeOK, RegsAgree, MakersAgree, EntriesAgree,
      CallAgrees, SlotsFit, InFlight, Leaving, Wanted, entryVars, regVars, modVars, callVars
<1> QED
  BY <1>1, <1>2, <1>3, <1>4, <1>5, <1>6, <1>7, <1>8, <1>9, <1>10, <1>11, <1>12,
     <1>13, <1>14, <1>15, <1>16
     DEF Next, RegisterStep, CallStep

(* While no detour is removed from its slot, a call is for the slot's      *)
(* function.                                                                *)
LEMMA CallStepKnows ==
  TypeOK /\ RegsAgree /\ CallKnows /\ [Next]_vars => CallKnows'
<1> SUFFICES ASSUME TypeOK, RegsAgree, CallKnows, [Next]_vars
             PROVE  CallKnows'
  OBVIOUS
<1>1. CASE FindsNoEntry
  BY <1>1, NativeAssumption DEF FindsNoEntry, TypeOK, RegsAgree, MakersAgree, CallAgrees,
      CallKnows, entryVars, regVars, modVars, callVars
<1>2. CASE CopyEntry
  BY <1>2, NativeAssumption DEF CopyEntry, TypeOK, RegsAgree, MakersAgree, CallAgrees,
      CallKnows, entryVars, regVars, modVars, callVars
<1>3. CASE CopyCallbacks
  BY <1>3, NativeAssumption DEF CopyCallbacks, Found, TypeOK, RegsAgree, MakersAgree,
      CallAgrees, CallKnows, entryVars, regVars, modVars, callVars
<1>4. CASE RunCallback
  BY <1>4, NativeAssumption DEF RunCallback, TypeOK, RegsAgree, MakersAgree, CallAgrees,
      CallKnows, entryVars, regVars, modVars, callVars
<1>5. CASE CallOriginal
  BY <1>5, NativeAssumption DEF CallOriginal, TypeOK, RegsAgree, MakersAgree, CallAgrees,
      CallKnows, entryVars, regVars, modVars, callVars
<1>6. ASSUME NEW m \in Mods, NEW s \in Slots, InstallOver(m, s) PROVE CallKnows'
  <2>1. GotFacts(m, s)
    BY <1>6, GotEffect
  <2> QED BY <2>1, NoneIsNoSlot DEF GotFacts, TypeOK, RegsAgree, MakersAgree, CallAgrees,
      CallKnows, entryVars, regVars, modVars, callVars
<1>7. ASSUME NEW m \in Mods, NEW s \in Slots, InstallNew(m, s) PROVE CallKnows'
  <2>1. GotFacts(m, s)
    BY <1>7, GotEffect
  <2> QED BY <2>1, NoneIsNoSlot DEF GotFacts, TypeOK, RegsAgree, MakersAgree, CallAgrees,
      CallKnows, entryVars, regVars, modVars, callVars
<1>8. ASSUME NEW m \in Mods, InstallFails(m) PROVE CallKnows'
  BY <1>8, NativeAssumption DEF InstallFails, Goes, TypeOK, RegsAgree, MakersAgree, CallAgrees,
      CallKnows, entryVars, regVars, modVars, callVars
<1>9. ASSUME NEW m \in Mods, FillHolder(m) PROVE CallKnows'
  BY <1>9, NativeAssumption DEF FillHolder, Goes, TypeOK, RegsAgree, MakersAgree, CallAgrees,
      CallKnows, entryVars, regVars, modVars, callVars
<1>10. ASSUME NEW m \in Mods, AddCallback(m) PROVE CallKnows'
  BY <1>10, NativeAssumption DEF AddCallback, Goes, TypeOK, RegsAgree, MakersAgree, CallAgrees,
      CallKnows, entryVars, regVars, modVars, callVars
<1>11. ASSUME NEW m \in Mods, Uninstall(m) PROVE CallKnows'
  <2>1. UninstallFacts(m)
    BY <1>11, UninstallEffect
  <2> QED BY <2>1, NoneIsNoSlot DEF UninstallFacts, TypeOK, RegsAgree, MakersAgree, CallAgrees,
      CallKnows, entryVars, regVars, modVars, callVars
<1>12. ASSUME NEW m \in Mods, CloseMod(m) PROVE CallKnows'
  BY <1>12, NativeAssumption DEF CloseMod, TypeOK, RegsAgree, MakersAgree, CallAgrees,
      CallKnows, entryVars, regVars, modVars, callVars
<1>13. ASSUME NEW m \in Mods, NEW f \in Functions, Register(m, f) PROVE CallKnows'
  <2>1. RegisterFacts(m, f)
    BY <1>13, RegisterEffect
  <2> QED BY <2>1, NoneIsNoSlot DEF RegisterFacts, TypeOK, RegsAgree, MakersAgree, CallAgrees,
      CallKnows, entryVars, regVars, modVars, callVars
<1>14. ASSUME NEW m \in Mods, NEW s \in Slots, Unregister(m, s) PROVE CallKnows'
  <2>1. UnregisterFacts(m, s)
    BY <1>14, UnregisterEffect
  <2> QED BY <2>1, NoneIsNoSlot DEF UnregisterFacts, TypeOK, RegsAgree, MakersAgree,
      CallAgrees, CallKnows, entryVars, regVars, modVars, callVars
<1>15. ASSUME NEW s \in Slots, Enter(s) PROVE CallKnows'
  BY <1>15, NativeAssumption DEF Enter, TypeOK, RegsAgree, MakersAgree, CallAgrees, CallKnows,
      entryVars, regVars, modVars, callVars
<1>16. CASE UNCHANGED vars
  BY <1>16, NativeAssumption DEF vars, TypeOK, RegsAgree, MakersAgree, CallAgrees, CallKnows,
      entryVars, regVars, modVars, callVars
<1> QED
  BY <1>1, <1>2, <1>3, <1>4, <1>5, <1>6, <1>7, <1>8, <1>9, <1>10, <1>11, <1>12,
     <1>13, <1>14, <1>15, <1>16
     DEF Next, RegisterStep, CallStep

(* The callbacks a call copied are for its function.                        *)
LEMMA FitsStep ==
  TypeOK /\ RegsAgree /\ SlotsFit /\ CallKnows /\ CallFits /\ [Next]_vars => CallFits'
<1> SUFFICES ASSUME TypeOK, RegsAgree, SlotsFit, CallKnows, CallFits, [Next]_vars
             PROVE  CallFits'
  OBVIOUS
<1>1. CASE FindsNoEntry
  BY <1>1, NativeAssumption DEF FindsNoEntry, TypeOK, RegsAgree, MakersAgree, EntriesAgree,
      CallAgrees, SlotsFit, CallKnows, CallFits, entryVars, regVars, modVars, callVars
<1>2. CASE CopyEntry
  BY <1>2, NativeAssumption DEF CopyEntry, TypeOK, RegsAgree, MakersAgree, EntriesAgree,
      CallAgrees, SlotsFit, CallKnows, CallFits, entryVars, regVars, modVars, callVars
<1>3. CASE CopyCallbacks
  BY <1>3, NativeAssumption DEF CopyCallbacks, Found, TypeOK, RegsAgree, MakersAgree,
      EntriesAgree, CallAgrees, SlotsFit, CallKnows, CallFits, entryVars, regVars, modVars,
      callVars
<1>4. CASE RunCallback
  BY <1>4, NativeAssumption DEF RunCallback, TypeOK, RegsAgree, MakersAgree, EntriesAgree,
      CallAgrees, SlotsFit, CallKnows, CallFits, entryVars, regVars, modVars, callVars
<1>5. CASE CallOriginal
  BY <1>5, NativeAssumption DEF CallOriginal, TypeOK, RegsAgree, MakersAgree, EntriesAgree,
      CallAgrees, SlotsFit, CallKnows, CallFits, entryVars, regVars, modVars, callVars
<1>6. ASSUME NEW m \in Mods, NEW s \in Slots, InstallOver(m, s) PROVE CallFits'
  <2>1. GotFacts(m, s)
    BY <1>6, GotEffect
  <2> QED BY <2>1, NoneIsNoSlot DEF GotFacts, TypeOK, RegsAgree, MakersAgree, EntriesAgree,
      CallAgrees, SlotsFit, CallKnows, CallFits, entryVars, regVars, modVars, callVars
<1>7. ASSUME NEW m \in Mods, NEW s \in Slots, InstallNew(m, s) PROVE CallFits'
  <2>1. GotFacts(m, s)
    BY <1>7, GotEffect
  <2> QED BY <2>1, NoneIsNoSlot DEF GotFacts, TypeOK, RegsAgree, MakersAgree, EntriesAgree,
      CallAgrees, SlotsFit, CallKnows, CallFits, entryVars, regVars, modVars, callVars
<1>8. ASSUME NEW m \in Mods, InstallFails(m) PROVE CallFits'
  BY <1>8, NativeAssumption DEF InstallFails, Goes, TypeOK, RegsAgree, MakersAgree,
      EntriesAgree, CallAgrees, SlotsFit, CallKnows, CallFits, entryVars, regVars, modVars,
      callVars
<1>9. ASSUME NEW m \in Mods, FillHolder(m) PROVE CallFits'
  BY <1>9, NativeAssumption DEF FillHolder, Goes, TypeOK, RegsAgree, MakersAgree, EntriesAgree,
      CallAgrees, SlotsFit, CallKnows, CallFits, entryVars, regVars, modVars, callVars
<1>10. ASSUME NEW m \in Mods, AddCallback(m) PROVE CallFits'
  BY <1>10, NativeAssumption DEF AddCallback, Goes, TypeOK, RegsAgree, MakersAgree,
      EntriesAgree, CallAgrees, SlotsFit, CallKnows, CallFits, entryVars, regVars, modVars,
      callVars
<1>11. ASSUME NEW m \in Mods, Uninstall(m) PROVE CallFits'
  <2>1. UninstallFacts(m)
    BY <1>11, UninstallEffect
  <2> QED BY <2>1, NoneIsNoSlot DEF UninstallFacts, TypeOK, RegsAgree, MakersAgree,
      EntriesAgree, CallAgrees, SlotsFit, CallKnows, CallFits, entryVars, regVars, modVars,
      callVars
<1>12. ASSUME NEW m \in Mods, CloseMod(m) PROVE CallFits'
  BY <1>12, NativeAssumption DEF CloseMod, TypeOK, RegsAgree, MakersAgree, EntriesAgree,
      CallAgrees, SlotsFit, CallKnows, CallFits, entryVars, regVars, modVars, callVars
<1>13. ASSUME NEW m \in Mods, NEW f \in Functions, Register(m, f) PROVE CallFits'
  <2>1. RegisterFacts(m, f)
    BY <1>13, RegisterEffect
  <2> QED BY <2>1, NoneIsNoSlot DEF RegisterFacts, TypeOK, RegsAgree, MakersAgree,
      EntriesAgree, CallAgrees, SlotsFit, CallKnows, CallFits, entryVars, regVars, modVars,
      callVars
<1>14. ASSUME NEW m \in Mods, NEW s \in Slots, Unregister(m, s) PROVE CallFits'
  <2>1. UnregisterFacts(m, s)
    BY <1>14, UnregisterEffect
  <2> QED BY <2>1, NoneIsNoSlot DEF UnregisterFacts, TypeOK, RegsAgree, MakersAgree,
      EntriesAgree, CallAgrees, SlotsFit, CallKnows, CallFits, entryVars, regVars, modVars,
      callVars
<1>15. ASSUME NEW s \in Slots, Enter(s) PROVE CallFits'
  BY <1>15, NativeAssumption DEF Enter, TypeOK, RegsAgree, MakersAgree, EntriesAgree,
      CallAgrees, SlotsFit, CallKnows, CallFits, entryVars, regVars, modVars, callVars
<1>16. CASE UNCHANGED vars
  BY <1>16, NativeAssumption DEF vars, TypeOK, RegsAgree, MakersAgree, EntriesAgree,
      CallAgrees, SlotsFit, CallKnows, CallFits, entryVars, regVars, modVars, callVars
<1> QED
  BY <1>1, <1>2, <1>3, <1>4, <1>5, <1>6, <1>7, <1>8, <1>9, <1>10, <1>11, <1>12,
     <1>13, <1>14, <1>15, <1>16
     DEF Next, RegisterStep, CallStep

LEMMA InitInv == Init => IInv /\ CallFits
<1> SUFFICES ASSUME Init PROVE IInv /\ CallFits
  OBVIOUS
<1>1. TypeOK
  BY NativeAssumption DEF Init, TypeOK, Slots, Regs
<1>2. RegsAgree
  BY NativeAssumption DEF Init, RegsAgree, MakersAgree, EntriesAgree, CallAgrees, Slots, Regs
<1>3. HoldersFilled /\ IdsKept /\ OneDetour
  BY DEF Init, HoldersFilled, IdsKept, OneDetour
<1>4. SlotsFit
  BY DEF Init, SlotsFit, InFlight, Leaving
<1>5. CallKnows /\ CallFits
  BY DEF Init, CallKnows, CallFits
<1> QED BY <1>1, <1>2, <1>3, <1>4, <1>5 DEF IInv

LEMMA InvStep == IInv /\ [Next]_vars => IInv'
BY TypeStep, RegsStep, HoldersStep, IdsStep, DetourStep, SlotsStep, CallStepKnows DEF IInv

(* The two tables, the registrations between them and a call on its way     *)
(* through them agree.                                                      *)
THEOREM InvHolds == Spec => []IInv
BY InitInv, InvStep, PTL DEF Spec

(* No two slots detour the same function, whoever registers at once.        *)
THEOREM OneDetourHolds == Spec => []OneDetour
<1>1. IInv => OneDetour
  BY DEF IInv
<1> QED BY <1>1, InvHolds, PTL

(* Mods that share a detour are all called, but for the moment in which a   *)
(* later registration sets its id_holder.                                   *)
THEOREM EachStillCalledHolds == Spec => []EachStillCalled
<1>1. IInv => EachStillCalled
  BY DEF IInv, RegsAgree, EntriesAgree, HoldersFilled, EachStillCalled, Found
<1> QED BY <1>1, InvHolds, PTL

(* A mod that gave back its ids leaves no callback behind when it closes.   *)
THEOREM NoneLeftHolds == Spec => []NoneLeft
<1>1. IInv => NoneLeft
  BY DEF IInv, IdsKept, NoneLeft
<1> QED BY <1>1, InvHolds, PTL

(* A call runs callbacks of its own function only, although slots are       *)
(* reused, unless one of the two known races hit its slot.                  *)
THEOREM CallFitsHolds == Spec => []CallFits
<1>1. IInv /\ CallFits /\ [Next]_vars => IInv' /\ CallFits'
  BY InvStep, FitsStep DEF IInv
<1> QED BY InitInv, <1>1, PTL DEF Spec
=============================================================================
