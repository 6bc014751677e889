---------------------- MODULE NewObjectNotify_proofs ----------------------
(* Proofs about NewObjectNotify, for any mods, classes, slots and bounds.   *)
(* IInv is inductive; it implies that a construction is notified once and   *)
(* that no promised notification is lost.  RefsGood is inductive on top of  *)
(* it; it implies that a registration's references are its own.             *)
EXTENDS NewObjectNotify, FiniteSetTheorems, TLAPS

-----------------------------------------------------------------------------
(* What a step does to the stack.                                           *)

LEMMA PushedFacts ==
  ASSUME NEW S, NEW s \in Seq(S), NEW f \in S, NEW t, t = Append(s, f)
  PROVE  /\ t \in Seq(S) /\ Len(t) = Len(s) + 1 /\ Len(s) \in Nat
         /\ DOMAIN s = 1..Len(s) /\ DOMAIN t = 1..(Len(s) + 1)
         /\ t[Len(s) + 1] = f
         /\ \A k \in DOMAIN s : k # Len(s) + 1 /\ t[k] = s[k]
OBVIOUS

LEMMA TopSetFacts ==
  ASSUME NEW S, NEW s \in Seq(S), s # <<>>, NEW f \in S, NEW t,
         t = [s EXCEPT ![Len(s)] = f]
  PROVE  /\ t \in Seq(S) /\ Len(t) = Len(s) /\ Len(s) \in 1..Len(s)
         /\ DOMAIN s = 1..Len(s) /\ DOMAIN t = DOMAIN s
         /\ s[Len(s)] \in S /\ t[Len(s)] = f
         /\ \A k \in DOMAIN s : k # Len(s) => t[k] = s[k]
OBVIOUS

LEMMA PoppedFacts ==
  ASSUME NEW S, NEW s \in Seq(S), s # <<>>, NEW t, t = SubSeq(s, 1, Len(s) - 1)
  PROVE  /\ t \in Seq(S) /\ Len(s) \in 1..Len(s) /\ Len(t) = Len(s) - 1
         /\ DOMAIN s = 1..Len(s) /\ DOMAIN t = 1..(Len(s) - 1)
         /\ s[Len(s)] \in S
         /\ \A k \in DOMAIN t : k \in DOMAIN s /\ k # Len(s) /\ t[k] = s[k]
         /\ \A k \in DOMAIN s : k # Len(s) => k \in DOMAIN t
<1>1. /\ t \in Seq(S) /\ Len(s) \in 1..Len(s)
      /\ DOMAIN s = 1..Len(s) /\ DOMAIN t = 1..(Len(s) - 1)
      /\ s[Len(s)] \in S
      /\ \A k \in DOMAIN t : k \in DOMAIN s /\ t[k] = s[k]
  OBVIOUS
<1>2. Len(s) \in Nat
  OBVIOUS
<1>3. Len(t) = Len(s) - 1
  BY <1>1, <1>2
<1> QED  BY <1>1, <1>2, <1>3

LEMMA TopIsFrame ==
  ASSUME TypeOK, stack # <<>>
  PROVE  /\ Top \in Frame /\ Top = stack[Len(stack)] /\ Len(stack) \in DOMAIN stack
         /\ stack \in Seq(Frame) /\ Len(stack) \in Nat
<1>1. stack \in Seq(Frame)  BY DEF TypeOK
<1> QED  BY <1>1 DEF Top

-----------------------------------------------------------------------------
(* The registry.                                                            *)

LEMMA RefFacts ==
  ASSUME NEW r \in Registry, InRange(r), NEW kind \in {"thread", "function"}, NEW v \in Nat
  PROVE  /\ Ref(r, kind, v) \in Registry /\ InRange(Ref(r, kind, v))
         /\ Len(r.cells) \in Nat /\ Len(Ref(r, kind, v).cells) \in Nat
         /\ Len(r.cells) <= Len(Ref(r, kind, v).cells)
         /\ FreshRef(r) \in 1..Len(Ref(r, kind, v).cells)
<1> DEFINE cell == [kind |-> kind, value |-> v]
<1>1. cell \in Cell /\ cell.kind # "free"
  BY DEF Cell
<1>2. r.cells \in Seq(Cell) /\ r.free \in Nat /\ r.free <= Len(r.cells) /\ Len(r.cells) \in Nat
  BY DEF Registry, InRange
<1>3. CASE r.free = 0
  <2>1. Ref(r, kind, v) = [cells |-> Append(r.cells, cell), free |-> 0]
    BY <1>3 DEF Ref
  <2>2. Append(r.cells, cell) \in Seq(Cell) /\ Len(Append(r.cells, cell)) = Len(r.cells) + 1
        /\ DOMAIN Append(r.cells, cell) = 1..(Len(r.cells) + 1)
        /\ \A i \in 1..Len(r.cells) : Append(r.cells, cell)[i] = r.cells[i]
        /\ Append(r.cells, cell)[Len(r.cells) + 1] = cell
    BY <1>1, <1>2
  <2> HIDE DEF cell
  <2>3. Ref(r, kind, v) \in Registry
    BY <2>1, <2>2 DEF Registry
  <2>4. \A i \in DOMAIN Append(r.cells, cell) : Append(r.cells, cell)[i].kind = "free" =>
          Append(r.cells, cell)[i].value \in 0..(Len(r.cells) + 1)
    BY <1>1, <1>2, <2>2 DEF InRange
  <2>5. InRange(Ref(r, kind, v))
    BY <2>1, <2>2, <2>4, <1>2 DEF InRange
  <2> QED  BY <1>2, <1>3, <2>1, <2>2, <2>3, <2>5 DEF FreshRef
<1>4. CASE r.free # 0
  <2>1. r.free \in DOMAIN r.cells /\ DOMAIN r.cells = 1..Len(r.cells)
    BY <1>2, <1>4
  <2> DEFINE next == IF r.cells[r.free].kind = "free" THEN r.cells[r.free].value ELSE 0
             filled == [r.cells EXCEPT ![r.free] = cell]
  <2>2. next \in 0..Len(r.cells)
    BY <1>2, <2>1 DEF InRange
  <2>3. Ref(r, kind, v) = [cells |-> filled, free |-> next]
    BY <1>4 DEF Ref
  <2>4. filled \in Seq(Cell) /\ Len(filled) = Len(r.cells) /\ DOMAIN filled = 1..Len(r.cells)
        /\ \A i \in 1..Len(r.cells) : filled[i] = IF i = r.free THEN cell ELSE r.cells[i]
    BY <1>1, <1>2, <2>1
  <2> HIDE DEF cell, next, filled
  <2>5. Ref(r, kind, v) \in Registry
    BY <1>2, <2>2, <2>3, <2>4 DEF Registry
  <2>6. InRange(Ref(r, kind, v))
    BY <1>1, <1>2, <2>2, <2>3, <2>4 DEF InRange
  <2> QED  BY <1>2, <1>4, <2>3, <2>4, <2>5, <2>6 DEF FreshRef
<1> QED  BY <1>3, <1>4

LEMMA UnrefFacts ==
  ASSUME NEW r \in Registry, InRange(r), NEW ref \in 0..Len(r.cells)
  PROVE  /\ Unref(r, ref) \in Registry /\ InRange(Unref(r, ref))
         /\ Len(Unref(r, ref).cells) = Len(r.cells)
<1>1. CASE ref = 0
  BY <1>1 DEF Unref, NoRef
<1>2. CASE ref # 0
  <2> DEFINE cell == [kind |-> "free", value |-> r.free]
             freed == [r.cells EXCEPT ![ref] = cell]
  <2>1. r.cells \in Seq(Cell) /\ r.free \in 0..Len(r.cells) /\ Len(r.cells) \in Nat
    BY DEF Registry, InRange
  <2>2. cell \in Cell /\ cell.value = r.free
    BY <2>1 DEF Cell
  <2>3. Unref(r, ref) = [cells |-> freed, free |-> ref]
    BY <1>2 DEF Unref, NoRef
  <2>4. freed \in Seq(Cell) /\ Len(freed) = Len(r.cells) /\ DOMAIN freed = 1..Len(r.cells)
        /\ \A i \in 1..Len(r.cells) : freed[i] = IF i = ref THEN cell ELSE r.cells[i]
    BY <1>2, <2>1, <2>2
  <2> HIDE DEF cell, freed
  <2> QED  BY <1>2, <2>1, <2>2, <2>3, <2>4 DEF Registry, InRange
<1> QED  BY <1>1, <1>2

(* The references of a mod's registry stay in range when it does not shrink.*)
Grows == \A m \in Mods : Len(registry[m].cells) <= Len(registry'[m].cells)

RegistryTyped == registry \in [Mods -> Registry] /\ \A m \in Mods : InRange(registry[m])

HooksHeld == \A m \in Mods : \A refs \in hooks[m] : HeldBy(m, refs)

LEMMA HeldStays ==
  ASSUME IInv, RegistryTyped', Grows, NEW id \in DOMAIN data, data'[id] = data[id], Held(id)
  PROVE  Held(id)'
<1>1. data[id] \in Data
  BY DEF IInv, TypeOK
<1>2. data[id].mod \in Mods /\ data[id].thread \in Nat
  BY <1>1 DEF Data
<1>3. registry[data[id].mod] \in Registry /\ registry'[data[id].mod] \in Registry
  BY <1>2 DEF IInv, TypeOK, RegistryTyped
<1>4. Len(registry[data[id].mod].cells) \in Nat /\ Len(registry'[data[id].mod].cells) \in Nat
  BY <1>3 DEF Registry
<1> QED  BY <1>2, <1>4 DEF Held, ModOf, Grows

-----------------------------------------------------------------------------
(* What Lua calls do to the hook thread and its references.                 *)

LEMMA HooksStep ==
  ASSUME IInv, RegistryTyped', Grows,
         hookThread' \in [Mods -> {"none", "there", "collected"}],
         hooks' \in [Mods -> SUBSET HookRefs], HooksHeld', spoiled' \subseteq Mods,
         UNCHANGED <<regVars, pending, engineVars, stack, history>>
  PROVE  IInv'
<1> USE DEF regVars, engineVars, history
<1>1. TypeOK'
  BY DEF IInv, TypeOK, RegistryTyped
<1>2. \A id \in DOMAIN data : Held(id) => Held(id)'
  BY HeldStays
<1>3. RegistryGood'
  BY <1>2 DEF IInv, RegistryGood, RegistryTyped, HooksHeld, TypeOK
<1>4. ASSUME NEW k \in DOMAIN stack PROVE Fresh(k)' /\ Holds(k)' /\ Located(k)'
  <2>1. Fresh(k) /\ Holds(k) /\ Located(k)
    BY DEF IInv, FramesGood
  <2>2. Fresh(k)' /\ Located(k)'
    BY <2>1 DEF Fresh, Located, Ahead
  <2>3. Holds(k)'
    BY <1>2, <2>1 DEF Holds, Fresh
  <2> QED  BY <2>2, <2>3
<1>5. FramesGood'
  BY <1>4 DEF IInv, FramesGood
<1>6. Apart' /\ PendingGood' /\ SlotsGood' /\ HistoryGood' /\ OncePerConstruction'
  BY DEF IInv, Apart, PendingGood, SlotsGood, HistoryGood, OncePerConstruction, Free
<1>7. NothingLost'
  BY DEF IInv, NothingLost, Coming, Ahead
<1> QED  BY <1>1, <1>3, <1>5, <1>6, <1>7 DEF IInv

LEMMA AnchorFacts ==
  ASSUME IInv, NEW m \in Mods, NEW id \in Nat
  PROVE  /\ registry[m] \in Registry /\ InRange(registry[m]) /\ Len(registry[m].cells) \in Nat
         /\ Anchor(m, id) \in Registry /\ InRange(Anchor(m, id))
         /\ Len(Anchor(m, id).cells) \in Nat
         /\ Len(registry[m].cells) <= Len(Anchor(m, id).cells)
         /\ ThreadRef(m) \in 0..Len(Anchor(m, id).cells)
<1>1. registry[m] \in Registry /\ InRange(registry[m])
  BY DEF IInv, TypeOK, RegistryGood
<1>2. Len(registry[m].cells) \in Nat
  BY <1>1 DEF Registry
<1>3. CASE hookThread[m] = "none"
  BY <1>1, <1>2, <1>3, RefFacts DEF Anchor, ThreadRef
<1>4. CASE hookThread[m] # "none"
  BY <1>1, <1>2, <1>4 DEF Anchor, ThreadRef, NoRef
<1> QED  BY <1>1, <1>2, <1>3, <1>4

(* The two references of a registration.                                    *)
LEMMA PairFacts ==
  ASSUME IInv, NEW m \in Mods, NEW id \in Nat, NEW r, r = Ref(Anchor(m, id), "function", id)
  PROVE  /\ r \in Registry /\ InRange(r) /\ Len(r.cells) \in Nat
         /\ Len(registry[m].cells) <= Len(r.cells)
         /\ ThreadRef(m) \in 0..Len(r.cells) /\ FreshRef(Anchor(m, id)) \in 1..Len(r.cells)
<1>1. /\ r \in Registry /\ InRange(r) /\ Len(Anchor(m, id).cells) <= Len(r.cells)
      /\ Len(r.cells) \in Nat /\ FreshRef(Anchor(m, id)) \in 1..Len(r.cells)
  BY AnchorFacts, RefFacts
<1> QED  BY <1>1, AnchorFacts

LEMMA HooksKept ==
  ASSUME IInv, RegistryTyped', Grows, NEW n \in Mods, NEW refs \in hooks[n]
  PROVE  HeldBy(n, refs)'
<1>1. HeldBy(n, refs)
  BY DEF IInv, RegistryGood
<1>2. registry[n] \in Registry /\ registry'[n] \in Registry
  BY DEF IInv, TypeOK, RegistryTyped
<1>3. Len(registry[n].cells) \in Nat /\ Len(registry'[n].cells) \in Nat
  BY <1>2 DEF Registry
<1> QED  BY <1>1, <1>3 DEF HeldBy, Grows

LEMMA SameHooks == ASSUME IInv, RegistryTyped', Grows, hooks' = hooks PROVE HooksHeld'
BY HooksKept DEF HooksHeld

(* A step that puts another registry in place of that of one mod.           *)
LEMMA OneRegistry ==
  ASSUME IInv, NEW m \in Mods, NEW r \in Registry, InRange(r),
         Len(registry[m].cells) <= Len(r.cells),
         registry' = [registry EXCEPT ![m] = r]
  PROVE  RegistryTyped' /\ Grows
<1>1. registry \in [Mods -> Registry] /\ \A n \in Mods : InRange(registry[n])
  BY DEF IInv, TypeOK, RegistryGood
<1>2. \A n \in Mods : registry'[n] = IF n = m THEN r ELSE registry[n]
  BY <1>1
<1>3. registry' \in [Mods -> Registry]
  BY <1>1
<1>4. \A n \in Mods : InRange(registry'[n])
  BY <1>1, <1>2
<1>5. RegistryTyped'
  BY <1>3, <1>4 DEF RegistryTyped
<1>6. \A n \in Mods : Len(registry[n].cells) \in Nat /\ Len(registry'[n].cells) \in Nat
  BY <1>1, <1>3 DEF Registry
<1>7. Grows
  BY <1>2, <1>6 DEF Grows
<1> QED  BY <1>5, <1>7

LEMMA HookCallsKeep ==
  ASSUME IInv, NEW m \in Mods,
         NotifyRefused(m) \/ get_hook_lua(m) \/ RegisterHook(m) \/ UnregisterHook(m) \/ Collect(m)
  PROVE  IInv'
<1>1. hookThread \in [Mods -> {"none", "there", "collected"}] /\ spoiled \subseteq Mods
      /\ hooks \in [Mods -> SUBSET HookRefs] /\ registry \in [Mods -> Registry]
  BY DEF IInv, TypeOK
<1>2. CASE NotifyRefused(m)
  <2>1. PICK r : r = Ref(Anchor(m, 0), "function", 0)
    OBVIOUS
  <2>2. RegistryTyped' /\ Grows
    BY <1>2, <2>1, PairFacts, OneRegistry DEF NotifyRefused
  <2>3. HooksHeld' /\ hookThread' \in [Mods -> {"none", "there", "collected"}]
    BY <1>1, <1>2, <2>2, SameHooks DEF NotifyRefused
  <2> QED  BY <1>1, <1>2, <2>2, <2>3, HooksStep DEF NotifyRefused
<1>3. CASE get_hook_lua(m)
  <2>1. RegistryTyped' /\ Grows
    BY <1>3, AnchorFacts, OneRegistry DEF get_hook_lua
  <2>2. HooksHeld' /\ hookThread' \in [Mods -> {"none", "there", "collected"}]
    BY <1>1, <1>3, <2>1, SameHooks DEF get_hook_lua
  <2> QED  BY <1>1, <1>3, <2>1, <2>2, HooksStep DEF get_hook_lua
<1>4. CASE RegisterHook(m)
  <2>1. PICK r : r = Ref(Anchor(m, 0), "function", 0)
    OBVIOUS
  <2>2. PICK refs : refs = [thread |-> ThreadRef(m), function |-> FreshRef(Anchor(m, 0))]
    OBVIOUS
  <2>3. /\ r \in Registry /\ InRange(r) /\ Len(r.cells) \in Nat
        /\ Len(registry[m].cells) <= Len(r.cells)
        /\ refs.thread \in 0..Len(r.cells) /\ refs.function \in 0..Len(r.cells)
    BY <2>1, <2>2, PairFacts
  <2>4. /\ registry' = [registry EXCEPT ![m] = r]
        /\ hooks' = [hooks EXCEPT ![m] = @ \cup {refs}]
        /\ hookThread' = [hookThread EXCEPT ![m] = "there"]
    BY <1>4, <2>1, <2>2 DEF RegisterHook
  <2>5. RegistryTyped' /\ Grows
    BY <2>3, <2>4, OneRegistry
  <2>6. refs \in HookRefs
    BY <2>2, <2>3 DEF HookRefs
  <2>7. hooks' \in [Mods -> SUBSET HookRefs]
    BY <1>1, <2>4, <2>6
  <2>8. ASSUME NEW n \in Mods, NEW h \in hooks'[n] PROVE HeldBy(n, h)'
    <3>1. CASE h \in hooks[n]
      BY <2>5, <3>1, HooksKept
    <3>2. CASE h \notin hooks[n]
      <4>1. n = m /\ h = refs /\ registry'[m] = r
        BY <1>1, <2>4, <2>8, <3>2
      <4> QED  BY <2>3, <4>1 DEF HeldBy
    <3> QED  BY <3>1, <3>2
  <2>9. HooksHeld' /\ hookThread' \in [Mods -> {"none", "there", "collected"}]
    BY <1>1, <2>4, <2>8 DEF HooksHeld
  <2> QED  BY <1>1, <1>4, <2>5, <2>7, <2>9, HooksStep DEF RegisterHook
<1>5. CASE UnregisterHook(m)
  <2>1. PICK refs \in hooks[m] :
          /\ registry' = [registry EXCEPT ![m] = Unref(Unref(@, refs.function), refs.thread)]
          /\ hooks' = [hooks EXCEPT ![m] = @ \ {refs}]
    BY <1>5 DEF UnregisterHook
  <2>2. PICK q : q = Unref(registry[m], refs.function)
    OBVIOUS
  <2>3. PICK r : r = Unref(q, refs.thread)
    OBVIOUS
  <2>4. /\ refs.function \in 0..Len(registry[m].cells) /\ refs.thread \in 0..Len(registry[m].cells)
        /\ registry[m] \in Registry /\ InRange(registry[m])
    BY <1>1 DEF IInv, RegistryGood, HeldBy
  <2>5. q \in Registry /\ InRange(q) /\ Len(q.cells) = Len(registry[m].cells)
    BY <2>2, <2>4, UnrefFacts
  <2>6. r \in Registry /\ InRange(r) /\ Len(r.cells) = Len(registry[m].cells)
    BY <2>3, <2>4, <2>5, UnrefFacts
  <2>7. registry' = [registry EXCEPT ![m] = r]
    BY <1>1, <2>1, <2>2, <2>3
  <2>8. RegistryTyped' /\ Grows
    <3>1. Len(registry[m].cells) <= Len(r.cells)
      BY <2>6 DEF Registry
    <3> QED  BY <2>6, <2>7, <3>1, OneRegistry
  <2>9. hooks' \in [Mods -> SUBSET HookRefs] /\ \A n \in Mods : hooks'[n] \subseteq hooks[n]
    BY <1>1, <2>1
  <2>10. HooksHeld'
    BY <2>8, <2>9, HooksKept DEF HooksHeld
  <2> QED  BY <1>1, <1>5, <2>8, <2>9, <2>10, HooksStep DEF UnregisterHook
<1>6. CASE Collect(m)
  <2>1. RegistryTyped' /\ Grows
    BY <1>6, AnchorFacts DEF Collect, IInv, TypeOK, RegistryGood, RegistryTyped, Grows
  <2>2. HooksHeld' /\ hookThread' \in [Mods -> {"none", "there", "collected"}]
    BY <1>1, <1>6, <2>1, SameHooks DEF Collect
  <2> QED  BY <1>1, <1>6, <2>1, <2>2, HooksStep DEF Collect
<1> QED  BY <1>2, <1>3, <1>4, <1>5, <1>6

-----------------------------------------------------------------------------
(* The top frame goes on, and nothing but frames and references changes.    *)

StackTyped == stack \in Seq(Frame) /\ Len(stack) <= MaxNesting

LEMMA StackFacts ==
  ASSUME IInv, stack # <<>>
  PROVE  /\ Top \in Frame /\ Top = stack[Len(stack)] /\ Len(stack) \in DOMAIN stack
         /\ stack \in Seq(Frame) /\ Len(stack) \in Nat
         /\ Shape(Top) /\ Fresh(Len(stack)) /\ Holds(Len(stack)) /\ Located(Len(stack))
<1>1. TypeOK
  BY DEF IInv
<1>2. Top = stack[Len(stack)] /\ Len(stack) \in DOMAIN stack
  BY <1>1, TopIsFrame
<1> QED  BY <1>1, <1>2, TopIsFrame DEF IInv, FramesGood

Gone(o) == \A s \in Slots : slots[s].object # o

(* A frame that is not touched keeps its part of the invariant.             *)
LEMMA FrameKeeps ==
  ASSUME IInv, NEW k \in DOMAIN stack, k \in DOMAIN stack', stack'[k] = stack[k],
         UNCHANGED <<data, made, slots, called>>, RegistryTyped', Grows
  PROVE  Shape(stack'[k]) /\ Fresh(k)' /\ Holds(k)' /\ Located(k)'
<1>1. Shape(stack[k]) /\ Fresh(k) /\ Holds(k) /\ Located(k)
  BY DEF IInv, FramesGood
<1>2. \A id \in DOMAIN data : Held(id) => Held(id)'
  BY HeldStays
<1>3. Fresh(k)' /\ Located(k)'
  BY <1>1 DEF Fresh, Located, Ahead
<1>4. Holds(k)'
  BY <1>1, <1>2 DEF Holds, Fresh
<1> QED  BY <1>1, <1>3, <1>4

LEMMA TopStep ==
  ASSUME IInv, stack # <<>>, NEW f \in Frame, SetTop(f), Shape(f),
         f.kind = Top.kind, f.object = Top.object, f.todo \subseteq Top.todo,
         f.todo # {} => f.chain = Top.chain, Ahead(f) = Ahead(Top),
         f.pc # "inside",
         \A i \in DOMAIN f.release : f.release[i] \in DOMAIN data /\ Held(f.release[i]),
         UNCHANGED <<data, pending, slots, made, called>>, RegistryTyped', Grows
  PROVE  StackTyped' /\ FramesGood' /\ Apart' /\ PendingGood' /\ SlotsGood'
<1>0. PICK n : n = Len(stack)
  OBVIOUS
<1>1. /\ stack' \in Seq(Frame) /\ Len(stack') = n /\ n \in DOMAIN stack
      /\ DOMAIN stack' = DOMAIN stack /\ stack'[n] = f
      /\ \A k \in DOMAIN stack : k # n => stack'[k] = stack[k]
  BY <1>0, StackFacts, TopSetFacts DEF SetTop
<1>2. StackTyped'
  BY <1>1 DEF IInv, TypeOK, StackTyped
<1>3. \A id \in DOMAIN data : Held(id) => Held(id)'
  BY HeldStays
<1>4. Top = stack[n] /\ Shape(Top) /\ Fresh(n) /\ Holds(n) /\ Located(n)
  BY <1>0, StackFacts
<1>5. Fresh(n)'
  BY <1>1, <1>4 DEF Fresh
<1>6. Holds(n)'
  BY <1>1, <1>3, <1>4 DEF Holds, Fresh
<1>7. Located(n)'
  BY <1>1, <1>4 DEF Located
<1>8. FramesGood'
  BY <1>1, <1>5, <1>6, <1>7, FrameKeeps DEF FramesGood
<1>9. Apart'
  BY <1>1, <1>4 DEF IInv, Apart, Concerns
<1>10. PendingGood' /\ SlotsGood'
  BY DEF IInv, PendingGood, SlotsGood, Free
<1> QED  BY <1>2, <1>8, <1>9, <1>10

(* Nothing is lost when the top frame drops only what need not come.        *)
LEMMA TopLosesNothing ==
  ASSUME IInv, stack # <<>>, NEW f \in Frame, SetTop(f),
         f.object = Top.object, Ahead(Top) \subseteq Ahead(f),
         \A e \in Top.todo : \/ e \in f.todo \/ e.id \notin callbacks' \/ Gone(e.for)
                             \/ called'[<<e.id, e.for>>] > 0,
         UNCHANGED <<data, pending, slots, owed, excused>>, callbacks' \subseteq callbacks,
         \A e \in Ids \X Objects : called[e] > 0 => called'[e] > 0
  PROVE  NothingLost'
<1>0. PICK n : n = Len(stack)
  OBVIOUS
<1>1. /\ n \in DOMAIN stack /\ DOMAIN stack' = DOMAIN stack /\ stack'[n] = f
      /\ \A k \in DOMAIN stack : k # n => stack'[k] = stack[k]
      /\ Top = stack[n]
  BY <1>0, StackFacts, TopSetFacts DEF SetTop
<1>2. ASSUME NEW id, NEW o, Coming(id, o)
      PROVE  Coming(id, o)' \/ id \notin callbacks' \/ Gone(o) \/ called'[<<id, o>>] > 0
  <2>1. CASE \E p \in pending : p.id = id /\ p.for = o
    BY <2>1 DEF Coming
  <2>2. ASSUME NEW k \in DOMAIN stack, NEW e \in stack[k].todo, e.id = id, e.for = o
        PROVE  Coming(id, o)' \/ id \notin callbacks' \/ Gone(o) \/ called'[<<id, o>>] > 0
    <3>1. CASE k # n
      BY <1>1, <2>2, <3>1 DEF Coming
    <3>2. CASE k = n
      <4>1. e \in f.todo => Coming(id, o)'
        BY <1>1, <2>2, <3>2 DEF Coming
      <4> QED  BY <1>1, <2>2, <3>2, <4>1
    <3> QED  BY <3>1, <3>2
  <2>3. ASSUME NEW k \in DOMAIN stack, stack[k].object = o, data[id].class \in Ahead(stack[k])
        PROVE  Coming(id, o)'
    <3>1. Ahead(stack'[k]) = Ahead(stack[k]) \/ k = n
      BY <1>1
    <3>2. stack'[k].object = o /\ data[id].class \in Ahead(stack'[k])
      BY <1>1, <2>3, <3>1
    <3>3. data'[id].class \in Ahead(stack[k])'
      BY <3>2 DEF Ahead
    <3> QED  BY <1>1, <3>2, <3>3 DEF Coming
  <2> QED  BY <1>2, <2>1, <2>2, <2>3 DEF Coming
<1>3. owed \subseteq Ids \X Objects
  BY DEF IInv, TypeOK
<1>4. ASSUME NEW e \in owed
      PROVE  \/ called'[e] > 0 \/ e \in excused' \/ Coming(e[1], e[2])'
             \/ e[1] \notin callbacks' \/ \A s \in Slots : slots'[s].object # e[2]
  <2>1. e = <<e[1], e[2]>> /\ e \in Ids \X Objects
    BY <1>3
  <2>2. \/ called[e] > 0 \/ e \in excused \/ Coming(e[1], e[2])
        \/ e[1] \notin callbacks \/ Gone(e[2])
    BY DEF IInv, NothingLost, Gone
  <2> QED  BY <1>2, <2>1, <2>2 DEF Gone
<1> QED  BY <1>4 DEF NothingLost

(* The two together, for a step that changes no history but `cancelled'.    *)
LEMMA TopStepKeeps ==
  ASSUME IInv, stack # <<>>, NEW f \in Frame, SetTop(f), Shape(f),
         f.kind = Top.kind, f.object = Top.object, f.todo \subseteq Top.todo,
         f.todo # {} => f.chain = Top.chain, Ahead(f) = Ahead(Top),
         f.pc # "inside",
         \A i \in DOMAIN f.release : f.release[i] \in DOMAIN data /\ Held(f.release[i]),
         \A e \in Top.todo : e \in f.todo \/ e.id \notin callbacks' \/ Gone(e.for),
         UNCHANGED <<data, pending, slots, made, address, hookThread, hooks, owed, called, excused>>,
         callbacks' \subseteq callbacks, cancelled' \subseteq Ids, spoiled' \subseteq Mods,
         RegistryTyped', Grows
  PROVE  IInv'
<1>1. StackTyped' /\ FramesGood' /\ Apart' /\ PendingGood' /\ SlotsGood'
  BY TopStep
<1>2. NothingLost'
  BY TopLosesNothing
<1>3. TypeOK'
  BY <1>1 DEF IInv, TypeOK, StackTyped, RegistryTyped
<1>4. HooksHeld'
  BY SameHooks
<1>5. \A id \in callbacks' : Held(id)'
  <2>1. \A id \in callbacks' : id \in DOMAIN data /\ Held(id)
    BY DEF IInv, TypeOK, RegistryGood
  <2> QED  BY <2>1, HeldStays
<1>6. RegistryGood'
  BY <1>4, <1>5 DEF RegistryGood, RegistryTyped, HooksHeld
<1>7. HistoryGood' /\ OncePerConstruction'
  BY DEF IInv, HistoryGood, OncePerConstruction
<1> QED  BY <1>1, <1>2, <1>3, <1>6, <1>7 DEF IInv

LEMMA SameRegistry ==
  ASSUME IInv, registry' = registry
  PROVE  RegistryTyped' /\ Grows
<1>1. \A m \in Mods : Len(registry[m].cells) \in Nat
  BY DEF IInv, TypeOK, Registry
<1> QED  BY <1>1 DEF IInv, TypeOK, RegistryGood, RegistryTyped, Grows

LEMMA TopReleases ==
  ASSUME IInv, stack # <<>>
  PROVE  \A i \in DOMAIN Top.release : Top.release[i] \in DOMAIN data /\ Held(Top.release[i])
BY StackFacts DEF Holds

LEMMA SkipKeeps ==
  ASSUME IInv, stack # <<>>, Top.pc = "next", NEW e \in Top.todo, SkipCall(e),
         e.id \notin callbacks \/ Gone(e.for)
  PROVE  IInv'
<1> DEFINE f == [Top EXCEPT !.todo = @ \ {e}]
<1>1. Top \in Frame /\ Shape(Top)
  BY StackFacts
<1>2. f \in Frame /\ f.kind = Top.kind /\ f.object = Top.object /\ f.chain = Top.chain
      /\ f.pc = Top.pc /\ f.todo = Top.todo \ {e} /\ f.release = Top.release
      /\ f.slot = Top.slot /\ f.now = Top.now
  BY <1>1 DEF Frame
<1>3. SetTop(f)
  BY DEF SkipCall
<1> HIDE DEF f
<1>4. Shape(f)
  BY <1>1, <1>2 DEF Shape, Promised
<1>5. Ahead(f) = Ahead(Top)
  BY <1>2 DEF Ahead
<1>6. RegistryTyped' /\ Grows
  BY SameRegistry DEF SkipCall, hookVars
<1>7. cancelled \subseteq Ids /\ spoiled \subseteq Mods
  BY DEF IInv, TypeOK
<1>8. UNCHANGED <<data, callbacks, pending, slots, made, address, hookThread, hooks, spoiled,
                  owed, called, cancelled, excused>>
  BY DEF SkipCall, regVars, engineVars, hookVars, history
<1>9. \A g \in Top.todo : g \in f.todo \/ g.id \notin callbacks' \/ Gone(g.for)
  BY <1>2, <1>8
<1>10. \A i \in DOMAIN f.release : f.release[i] \in DOMAIN data /\ Held(f.release[i])
  BY <1>2, TopReleases
<1> QED  BY <1>2, <1>3, <1>4, <1>5, <1>6, <1>7, <1>8, <1>9, <1>10, TopStepKeeps

LEMMA EndLevelKeeps == ASSUME IInv, EndLevel PROVE IInv'
<1> DEFINE f == [Top EXCEPT !.pc = "climb", !.chain = Tail(@)]
<1>1. stack # <<>> /\ Top.kind = "direct" /\ Top.pc = "next" /\ Top.todo = {}
  BY DEF EndLevel, At
<1>2. Top \in Frame /\ Shape(Top)
  BY <1>1, StackFacts
<1>3. Top.chain \in Seq(Classes) /\ Top.chain # <<>>
  BY <1>1, <1>2 DEF Frame, Shape
<1>4. /\ Tail(Top.chain) \in Seq(Classes)
      /\ DOMAIN Tail(Top.chain) = 1..(Len(Top.chain) - 1)
      /\ DOMAIN Top.chain = 1..Len(Top.chain) /\ Len(Top.chain) \in Nat
      /\ \A i \in DOMAIN Tail(Top.chain) : Tail(Top.chain)[i] = Top.chain[i + 1]
  BY <1>3
<1>5. f \in Frame /\ f.kind = Top.kind /\ f.object = Top.object /\ f.chain = Tail(Top.chain)
      /\ f.pc = "climb" /\ f.todo = {} /\ f.release = Top.release
      /\ f.slot = Top.slot /\ f.now = Top.now
  BY <1>1, <1>2, <1>4 DEF Frame
<1>6. SetTop(f)
  BY DEF EndLevel
<1> HIDE DEF f
<1>7. Shape(f)
  <2>0. \A i, j \in DOMAIN Top.chain : Top.chain[i] = Top.chain[j] => i = j
    BY <1>2 DEF Shape
  <2>1. ASSUME NEW i \in DOMAIN f.chain, NEW j \in DOMAIN f.chain, f.chain[i] = f.chain[j]
        PROVE  i = j
    <3>1. i \in Nat /\ j \in Nat /\ i + 1 \in DOMAIN Top.chain /\ j + 1 \in DOMAIN Top.chain
      BY <1>4, <1>5
    <3>2. Top.chain[i + 1] = Top.chain[j + 1]
      BY <1>4, <1>5, <2>1
    <3>3. i + 1 = j + 1
      BY <2>0, <3>1, <3>2
    <3> QED  BY <3>1, <3>3
  <2> QED  BY <1>1, <1>2, <1>5, <2>1 DEF Shape
<1>8. Ahead(f) = Ahead(Top)
  <2>1. \A c : c \in Ahead(f) <=> \E i \in DOMAIN f.chain : f.chain[i] = c
    BY <1>5 DEF Ahead
  <2>2. \A c : c \in Ahead(Top) <=> \E i \in DOMAIN Top.chain : i # 1 /\ Top.chain[i] = c
    BY <1>1 DEF Ahead
  <2>3. ASSUME NEW c, NEW i \in DOMAIN f.chain, f.chain[i] = c
        PROVE  \E j \in DOMAIN Top.chain : j # 1 /\ Top.chain[j] = c
    <3>1. i + 1 \in DOMAIN Top.chain /\ i + 1 # 1 /\ Top.chain[i + 1] = c
      BY <1>4, <1>5, <2>3
    <3> QED  BY <3>1
  <2>4. ASSUME NEW c, NEW i \in DOMAIN Top.chain, i # 1, Top.chain[i] = c
        PROVE  \E j \in DOMAIN f.chain : f.chain[j] = c
    <3>1. i - 1 \in DOMAIN f.chain /\ f.chain[i - 1] = Top.chain[(i - 1) + 1] /\ (i - 1) + 1 = i
      BY <1>4, <1>5, <2>4
    <3> QED  BY <2>4, <3>1
  <2> QED  BY <2>1, <2>2, <2>3, <2>4
<1>9. RegistryTyped' /\ Grows
  BY SameRegistry DEF EndLevel, hookVars
<1>10. cancelled \subseteq Ids /\ spoiled \subseteq Mods
  BY DEF IInv, TypeOK
<1>11. UNCHANGED <<data, pending, slots, made, address, hookThread, hooks, spoiled,
                   owed, called, cancelled, excused>> /\ callbacks' \subseteq callbacks
  BY DEF EndLevel, engineVars, hookVars, history
<1>12. \A i \in DOMAIN f.release : f.release[i] \in DOMAIN data /\ Held(f.release[i])
  BY <1>1, <1>5, TopReleases
<1> QED  BY <1>1, <1>5, <1>6, <1>7, <1>8, <1>9, <1>10, <1>11, <1>12, TopStepKeeps

(* A callback returned, or its error was caught: the frame is back between  *)
(* two callbacks.                                                           *)
BackWith(d, l) == [Back EXCEPT !.remove = d, !.release = l]

LEMMA BackFacts ==
  ASSUME IInv, stack # <<>>, Top.pc = "inside", NEW f, NEW d \in SUBSET Ids, NEW l \in Seq(Ids),
         f = BackWith(d, l)
  PROVE  /\ f \in Frame /\ Shape(f) /\ f.kind = Top.kind /\ f.object = Top.object
         /\ f.todo = Top.todo /\ f.chain = Top.chain /\ Ahead(f) = Ahead(Top)
         /\ f.pc = "next" /\ f.release = l
<1>1. Top \in Frame /\ Shape(Top)
  BY StackFacts
<1>2. Back \in Frame /\ Back.kind = Top.kind /\ Back.object = Top.object /\ Back.chain = Top.chain
      /\ Back.pc = "next" /\ Back.todo = Top.todo /\ Back.slot = Top.slot
  BY <1>1 DEF Back, Frame
<1>3. f \in Frame /\ f.kind = Top.kind /\ f.object = Top.object /\ f.chain = Top.chain
      /\ f.pc = "next" /\ f.todo = Top.todo /\ f.slot = Top.slot /\ f.release = l
  BY <1>2 DEF Frame, BackWith
<1>4. Shape(f)
  BY <1>1, <1>3 DEF Shape, Promised
<1>5. Ahead(f) = Ahead(Top)
  BY <1>3 DEF Ahead
<1> QED  BY <1>3, <1>4, <1>5

LEMMA BackKeeps ==
  ASSUME IInv, stack # <<>>, Top.pc = "inside",
         NEW f, NEW d \in SUBSET Ids, NEW l \in Seq(Ids),
         f = BackWith(d, l), SetTop(f),
         \A i \in DOMAIN l : l[i] \in DOMAIN data /\ Held(l[i]),
         UNCHANGED <<regVars, pending, engineVars, hookThread, hooks, owed, called, excused>>,
         cancelled' \subseteq Ids, spoiled' \subseteq Mods, RegistryTyped', Grows
  PROVE  IInv'
<1>1. /\ f \in Frame /\ Shape(f) /\ f.kind = Top.kind /\ f.object = Top.object
      /\ f.todo = Top.todo /\ f.chain = Top.chain /\ Ahead(f) = Ahead(Top)
      /\ f.pc = "next" /\ f.release = l
  BY BackFacts
<1>2. \A i \in DOMAIN f.release : f.release[i] \in DOMAIN data /\ Held(f.release[i])
  BY <1>1
<1>3. UNCHANGED <<data, callbacks, pending, slots, made, address, hookThread, hooks, owed, called, excused>>
  BY DEF regVars, engineVars
<1>4. \A e \in Top.todo : e \in f.todo \/ e.id \notin callbacks' \/ Gone(e.for)
  BY <1>1
<1> QED  BY <1>1, <1>2, <1>3, <1>4, TopStepKeeps

LEMMA TopShape ==
  ASSUME IInv, stack # <<>>
  PROVE  /\ Top.remove \in SUBSET Ids /\ Top.release \in Seq(Ids)
         /\ Top.pc = "inside" => Top.now.id \in Ids /\ Top.now.id \in DOMAIN data /\ Held(Top.now.id)
         /\ Back = BackWith(Top.remove, Top.release)
         /\ Back.remove = Top.remove /\ Back.release = Top.release
<1>1. Top \in Frame /\ Shape(Top) /\ Fresh(Len(stack)) /\ Holds(Len(stack))
      /\ Top = stack[Len(stack)]
  BY StackFacts
<1>2. Top.remove \in SUBSET Ids /\ Top.release \in Seq(Ids)
  BY <1>1 DEF Frame
<1>3. Top.pc = "inside" => Top.now.id \in Ids
  BY <1>1 DEF Shape, Exec
<1>4. Top.pc = "inside" => Top.now.id \in DOMAIN data /\ Held(Top.now.id)
  BY <1>1 DEF Fresh, Holds
<1>5. Back \in Frame /\ Back.remove = Top.remove /\ Back.release = Top.release
  BY <1>1 DEF Back, Frame
<1>6. Back = BackWith(Top.remove, Top.release)
  BY <1>5 DEF Frame, BackWith
<1> QED  BY <1>2, <1>3, <1>4, <1>5, <1>6

LEMMA ModOfType == ASSUME IInv, NEW id \in DOMAIN data PROVE ModOf(id) \in Mods
<1>1. data[id] \in Data
  BY DEF IInv, TypeOK
<1> QED  BY <1>1 DEF ModOf, Data

LEMMA AgainType ==
  ASSUME IInv, stack # <<>>, Top.pc = "inside", NEW b \in BOOLEAN
  PROVE  Again(b) \subseteq Mods
<1>1. ModOf(Top.now.id) \in Mods
  BY TopShape, ModOfType
<1> QED  BY <1>1 DEF Again, IInv, TypeOK

LEMMA ReleaseFacts ==
  ASSUME IInv, NEW id \in DOMAIN data, Held(id), Release(ModOf(id), data[id].thread)
  PROVE  RegistryTyped' /\ Grows
<1>1. data[id].mod \in Mods
  BY ModOfType DEF ModOf
<1>2. PICK m \in Mods : m = data[id].mod
  BY <1>1
<1>3. PICK ref : ref = data[id].thread
  OBVIOUS
<1>4. ref \in 0..Len(registry[m].cells)
  BY <1>2, <1>3 DEF Held, ModOf
<1>5. registry[m] \in Registry /\ InRange(registry[m]) /\ Len(registry[m].cells) \in Nat
  BY AnchorFacts
<1>6. PICK r : r = Unref(registry[m], ref)
  OBVIOUS
<1>7. r \in Registry /\ InRange(r) /\ Len(registry[m].cells) <= Len(r.cells)
  BY <1>4, <1>5, <1>6, UnrefFacts
<1>8. registry' = [registry EXCEPT ![m] = r]
  BY <1>2, <1>3, <1>6 DEF Release, ModOf
<1> QED  BY <1>7, <1>8, OneRegistry

LEMMA ThrowInBatchKeeps == ASSUME IInv, ThrowInBatch PROVE IInv'
<1>1. stack # <<>> /\ Top.pc = "inside" /\ SetTop(Back)
  BY DEF ThrowInBatch, At
<1>2. RegistryTyped' /\ Grows
  BY SameRegistry DEF ThrowInBatch, hookVars
<1>3. cancelled' \subseteq Ids /\ spoiled' \subseteq Mods
  BY DEF ThrowInBatch, history, hookVars, IInv, TypeOK
<1>4. \A i \in DOMAIN Top.release : Top.release[i] \in DOMAIN data /\ Held(Top.release[i])
  BY <1>1, TopReleases
<1>5. UNCHANGED <<regVars, pending, engineVars, hookThread, hooks, owed, called, excused>>
  BY DEF ThrowInBatch, history, hookVars
<1>6. PICK f : f = Back
  OBVIOUS
<1>7. PICK d \in SUBSET Ids : d = Top.remove
  BY <1>1, TopShape
<1>8. PICK l \in Seq(Ids) : l = Top.release
  BY <1>1, TopShape
<1>9. f = BackWith(d, l)
  BY <1>1, <1>6, <1>7, <1>8, TopShape
<1> QED  BY <1>1, <1>2, <1>3, <1>4, <1>5, <1>6, <1>8, <1>9, BackKeeps

LEMMA ReturnInBatchKeeps == ASSUME IInv, NEW b \in BOOLEAN, ReturnInBatch(b) PROVE IInv'
<1>1. stack # <<>> /\ Top.pc = "inside"
  BY DEF ReturnInBatch, At
<1>2. /\ Top.remove \in SUBSET Ids /\ Top.release \in Seq(Ids)
      /\ Top.now.id \in Ids /\ Top.now.id \in DOMAIN data /\ Held(Top.now.id)
      /\ Back.remove = Top.remove /\ Back.release = Top.release
  BY <1>1, TopShape
<1>3. PICK d \in SUBSET Ids : d = IF b THEN Top.remove \cup {Top.now.id} ELSE Top.remove
  BY <1>2
<1>4. PICK l \in Seq(Ids) : l = IF b THEN Append(Top.release, Top.now.id) ELSE Top.release
  <2>1. Append(Top.release, Top.now.id) \in Seq(Ids)
    BY <1>2
  <2> QED  BY <1>2, <2>1
<1>5. PICK f : f = BackWith(d, l)
  OBVIOUS
<1>6. SetTop(f)
  <2>1. CASE b
    BY <1>2, <1>3, <1>4, <1>5, <2>1 DEF ReturnInBatch, BackWith
  <2>2. CASE ~b
    BY <1>1, <1>3, <1>4, <1>5, <2>2, TopShape DEF ReturnInBatch
  <2> QED  BY <2>1, <2>2
<1>7. \A i \in DOMAIN l : l[i] \in DOMAIN data /\ Held(l[i])
  <2>1. \A i \in DOMAIN Top.release : Top.release[i] \in DOMAIN data /\ Held(Top.release[i])
    BY <1>1, TopReleases
  <2>2. \A i \in DOMAIN l : l[i] = Top.now.id \/ \E j \in DOMAIN Top.release : l[i] = Top.release[j]
    BY <1>2, <1>4
  <2> QED  BY <1>2, <2>1, <2>2
<1>8. RegistryTyped' /\ Grows
  BY SameRegistry DEF ReturnInBatch
<1>9. cancelled' \subseteq Ids /\ spoiled' \subseteq Mods
  BY <1>1, <1>2, AgainType DEF ReturnInBatch, IInv, TypeOK
<1>10. UNCHANGED <<regVars, pending, engineVars, hookThread, hooks, owed, called, excused>>
  BY DEF ReturnInBatch
<1> QED  BY <1>1, <1>5, <1>6, <1>7, <1>8, <1>9, <1>10, BackKeeps

LEMMA ReturnDirectKeeps == ASSUME IInv, NEW b \in BOOLEAN, ReturnDirect(b) PROVE IInv'
<1>1. stack # <<>> /\ Top.pc = "inside"
  BY DEF ReturnDirect, At
<1>2. /\ Top.remove \in SUBSET Ids /\ Top.release \in Seq(Ids)
      /\ Top.now.id \in Ids /\ Top.now.id \in DOMAIN data /\ Held(Top.now.id)
      /\ Back.remove = Top.remove /\ Back.release = Top.release
  BY <1>1, TopShape
<1>3. PICK cancel \in ReadsTrue(b) :
        /\ SetTop([Back EXCEPT !.remove = IF cancel THEN @ \cup {Top.now.id} ELSE @])
        /\ \/ \E i \in Referred \cup {Top.now.id} : Release(ModOf(i), data[i].thread)
           \/ UNCHANGED registry
  BY DEF ReturnDirect
<1>4. PICK d \in SUBSET Ids : d = IF cancel THEN Top.remove \cup {Top.now.id} ELSE Top.remove
  BY <1>2
<1>5. PICK l \in Seq(Ids) : l = Top.release
  BY <1>2
<1>6. PICK f : f = BackWith(d, l)
  OBVIOUS
<1>7. SetTop(f)
  <2>1. Back \in Frame
    BY <1>1, StackFacts DEF Back, Frame
  <2>2. [Back EXCEPT !.remove = d] = f
    BY <1>2, <1>5, <1>6, <2>1 DEF Frame, BackWith
  <2> QED  BY <1>2, <1>3, <1>4, <2>2
<1>8. \A i \in DOMAIN l : l[i] \in DOMAIN data /\ Held(l[i])
  BY <1>1, <1>5, TopReleases
<1>9. RegistryTyped' /\ Grows
  <2>1. CASE UNCHANGED registry
    BY <2>1, SameRegistry
  <2>2. ASSUME NEW i \in Referred \cup {Top.now.id}, Release(ModOf(i), data[i].thread)
        PROVE  RegistryTyped' /\ Grows
    <3>1. i \in DOMAIN data /\ Held(i)
      BY <1>2 DEF Referred, IInv, TypeOK, RegistryGood
    <3> QED  BY <2>2, <3>1, ReleaseFacts
  <2> QED  BY <1>3, <2>1, <2>2
<1>10. cancelled' \subseteq Ids /\ spoiled' \subseteq Mods
  BY <1>1, <1>2, AgainType DEF ReturnDirect, IInv, TypeOK
<1>11. UNCHANGED <<regVars, pending, engineVars, hookThread, hooks, owed, called, excused>>
  BY DEF ReturnDirect
<1> QED  BY <1>1, <1>6, <1>7, <1>8, <1>9, <1>10, <1>11, BackKeeps

LEMMA CallsDoneKeeps == ASSUME IInv, CallsDone PROVE IInv'
<1>1. stack # <<>> /\ Top.kind = "batch" /\ Top.pc = "next" /\ Top.todo = {}
  BY DEF CallsDone, At
<1>2. PICK f : f = [Top EXCEPT !.pc = "release"]
  OBVIOUS
<1>3. Top \in Frame /\ Shape(Top)
  BY <1>1, StackFacts
<1>4. f \in Frame /\ f.kind = Top.kind /\ f.object = Top.object /\ f.chain = Top.chain
      /\ f.pc = "release" /\ f.todo = Top.todo /\ f.release = Top.release /\ f.slot = Top.slot
  BY <1>2, <1>3 DEF Frame
<1>5. Shape(f)
  BY <1>1, <1>3, <1>4 DEF Shape, Promised
<1>6. Ahead(f) = Ahead(Top)
  BY <1>1, <1>3, <1>4 DEF Ahead
<1>7. RegistryTyped' /\ Grows
  BY SameRegistry DEF CallsDone, hookVars
<1>8. cancelled \subseteq Ids /\ spoiled \subseteq Mods
  BY DEF IInv, TypeOK
<1>9. UNCHANGED <<data, callbacks, pending, slots, made, address, hookThread, hooks, spoiled,
                  owed, called, cancelled, excused>>
  BY DEF CallsDone, regVars, engineVars, hookVars, history
<1>10. SetTop(f)
  BY <1>2 DEF CallsDone
<1>11. \A i \in DOMAIN f.release : f.release[i] \in DOMAIN data /\ Held(f.release[i])
  BY <1>1, <1>4, TopReleases
<1> QED  BY <1>1, <1>4, <1>5, <1>6, <1>7, <1>8, <1>9, <1>10, <1>11, TopStepKeeps

LEMMA ReleaseNextKeeps == ASSUME IInv, ReleaseNext PROVE IInv'
<1>1. stack # <<>> /\ Top.kind = "batch" /\ Top.pc = "release" /\ Top.release # <<>>
  BY DEF ReleaseNext, At
<1>2. PICK f : f = [Top EXCEPT !.release = Tail(@)]
  OBVIOUS
<1>3. Top \in Frame /\ Shape(Top)
  BY <1>1, StackFacts
<1>4. Top.release \in Seq(Ids)
  BY <1>3 DEF Frame
<1>5. /\ Tail(Top.release) \in Seq(Ids) /\ Head(Top.release) = Top.release[1]
      /\ 1 \in DOMAIN Top.release
      /\ \A i \in DOMAIN Tail(Top.release) :
           i + 1 \in DOMAIN Top.release /\ Tail(Top.release)[i] = Top.release[i + 1]
  BY <1>1, <1>4
<1>6. f \in Frame /\ f.kind = Top.kind /\ f.object = Top.object /\ f.chain = Top.chain
      /\ f.pc = "release" /\ f.todo = Top.todo /\ f.release = Tail(Top.release)
      /\ f.slot = Top.slot
  BY <1>1, <1>2, <1>3, <1>5 DEF Frame
<1>7. Shape(f)
  BY <1>1, <1>3, <1>6 DEF Shape, Promised
<1>8. Ahead(f) = Ahead(Top)
  BY <1>1, <1>3, <1>6 DEF Ahead
<1>9. \A i \in DOMAIN Top.release : Top.release[i] \in DOMAIN data /\ Held(Top.release[i])
  BY <1>1, TopReleases
<1>10. RegistryTyped' /\ Grows
  <2>1. PICK id : id = Head(Top.release)
    OBVIOUS
  <2>2. id \in DOMAIN data /\ Held(id)
    BY <1>5, <1>9, <2>1
  <2> QED  BY <2>1, <2>2, ReleaseFacts DEF ReleaseNext
<1>11. \A i \in DOMAIN f.release : f.release[i] \in DOMAIN data /\ Held(f.release[i])
  BY <1>5, <1>6, <1>9
<1>12. cancelled \subseteq Ids /\ spoiled \subseteq Mods
  BY DEF IInv, TypeOK
<1>13. UNCHANGED <<data, callbacks, pending, slots, made, address, hookThread, hooks, spoiled,
                   owed, called, cancelled, excused>> /\ SetTop(f)
  BY <1>2 DEF ReleaseNext, regVars, engineVars, history
<1> QED  BY <1>1, <1>6, <1>7, <1>8, <1>10, <1>11, <1>12, <1>13, TopStepKeeps

-----------------------------------------------------------------------------
(* The top frame ends.                                                      *)

LEMMA DomainIds == ASSUME IInv PROVE DOMAIN data \subseteq Ids /\ callbacks \subseteq Ids
<1>1. data \in Seq(Data) /\ Len(data) <= MaxIds /\ callbacks \subseteq DOMAIN data
  BY DEF IInv, TypeOK
<1>2. DOMAIN data = 1..Len(data) /\ Len(data) \in Nat
  BY <1>1
<1> QED  BY <1>1, <1>2, BoundsAssumption DEF Ids

LEMMA PopStep ==
  ASSUME IInv, stack # <<>>, stack' = Outside,
         UNCHANGED <<data, pending, engineVars, hookVars, owed, called, cancelled>>,
         callbacks' \subseteq callbacks, excused \subseteq excused', excused' \subseteq Ids \X Objects,
         \A e \in Top.todo : <<e.id, e.for>> \in excused',
         \A id \in callbacks' : data[id].class \in Ahead(Top) => <<id, Top.object>> \in excused'
  PROVE  IInv'
<1> USE DEF engineVars, hookVars
<1>0. PICK n : n = Len(stack)
  OBVIOUS
<1>1. /\ stack' \in Seq(Frame) /\ Len(stack') = n - 1 /\ n \in Nat
      /\ \A k \in DOMAIN stack' : k \in DOMAIN stack /\ k # n /\ stack'[k] = stack[k]
      /\ \A k \in DOMAIN stack : k # n => k \in DOMAIN stack'
      /\ Top = stack[n]
  BY <1>0, StackFacts, PoppedFacts DEF Outside
<1>2. TypeOK'
  <2>1. Len(stack') <= MaxNesting
    BY <1>0, <1>1, BoundsAssumption DEF IInv, TypeOK
  <2> QED  BY <1>1, <2>1 DEF IInv, TypeOK
<1>3. RegistryTyped' /\ Grows
  BY SameRegistry
<1>4. FramesGood'
  BY <1>1, <1>3, FrameKeeps DEF FramesGood
<1>5. Apart'
  BY <1>1 DEF IInv, Apart
<1>6. PendingGood' /\ SlotsGood'
  BY DEF IInv, PendingGood, SlotsGood, Free
<1>7. RegistryGood' /\ HistoryGood' /\ OncePerConstruction'
  BY DEF IInv, RegistryGood, Held, HeldBy, ModOf, HistoryGood, OncePerConstruction
<1>8. ASSUME NEW id \in callbacks', NEW o, Coming(id, o)
      PROVE  Coming(id, o)' \/ <<id, o>> \in excused'
  <2>1. CASE \E p \in pending : p.id = id /\ p.for = o
    BY <2>1 DEF Coming
  <2>2. ASSUME NEW k \in DOMAIN stack, NEW e \in stack[k].todo, e.id = id, e.for = o
        PROVE  Coming(id, o)' \/ <<id, o>> \in excused'
    <3>1. CASE k # n
      BY <1>1, <2>2, <3>1 DEF Coming
    <3>2. CASE k = n
      BY <1>1, <2>2, <3>2
    <3> QED  BY <3>1, <3>2
  <2>3. ASSUME NEW k \in DOMAIN stack, stack[k].object = o, data[id].class \in Ahead(stack[k])
        PROVE  Coming(id, o)' \/ <<id, o>> \in excused'
    <3>1. CASE k # n
      <4>1. k \in DOMAIN stack' /\ stack'[k] = stack[k]
        BY <1>1, <3>1
      <4>2. data'[id].class \in Ahead(stack[k])'
        BY <2>3, <4>1 DEF Ahead
      <4> QED  BY <2>3, <4>1, <4>2 DEF Coming
    <3>2. CASE k = n
      BY <1>1, <2>3, <3>2
    <3> QED  BY <3>1, <3>2
  <2> QED  BY <1>8, <2>1, <2>2, <2>3 DEF Coming
<1>9. NothingLost'
  <2>1. owed \subseteq Ids \X Objects
    BY DEF IInv, TypeOK
  <2>2. ASSUME NEW e \in owed
        PROVE  \/ called'[e] > 0 \/ e \in excused' \/ Coming(e[1], e[2])'
               \/ e[1] \notin callbacks' \/ \A s \in Slots : slots'[s].object # e[2]
    <3>1. e = <<e[1], e[2]>>
      BY <2>1
    <3>2. \/ called[e] > 0 \/ e \in excused \/ Coming(e[1], e[2])
          \/ e[1] \notin callbacks \/ \A s \in Slots : slots[s].object # e[2]
      BY DEF IInv, NothingLost
    <3> QED  BY <1>8, <3>1, <3>2
  <2> QED  BY <2>2 DEF NothingLost
<1> QED  BY <1>2, <1>4, <1>5, <1>6, <1>7, <1>9 DEF IInv

LEMMA EndKeeps == ASSUME IInv, EndDirect \/ EndBatch PROVE IInv'
<1>1. stack # <<>> /\ stack' = Outside
  BY DEF EndDirect, EndBatch, At
<1>2. Top \in Frame /\ Shape(Top)
  BY <1>1, StackFacts
<1>3. Top.chain = <<>> /\ Top.todo = {}
  BY <1>2 DEF EndDirect, EndBatch, At, Shape
<1>4. Ahead(Top) = {}
  BY <1>3 DEF Ahead
<1>5. excused \subseteq Ids \X Objects
  BY DEF IInv, TypeOK
<1>6. UNCHANGED <<data, pending, engineVars, hookVars, owed, called, cancelled, excused>>
      /\ callbacks' \subseteq callbacks
  BY DEF EndDirect, EndBatch, regVars, history
<1> QED  BY <1>1, <1>3, <1>4, <1>5, <1>6, PopStep

LEMMA ThrowDirectKeeps == ASSUME IInv, ThrowDirect PROVE IInv'
<1>1. stack # <<>> /\ stack' = Outside /\ Top.kind = "direct"
  BY DEF ThrowDirect, At
<1>2. Top \in Frame /\ Shape(Top)
  BY <1>1, StackFacts
<1>3. Top.todo \subseteq Exec /\ Top.object \in Objects
  BY <1>1, <1>2 DEF Frame, Shape
<1>4. callbacks \subseteq Ids
  BY DomainIds
<1>5. Skipped(Top) \subseteq Ids \X Objects
  BY <1>3, <1>4 DEF Skipped, Matching, Exec
<1>6. \A e \in Top.todo : <<e.id, e.for>> \in Skipped(Top)
  BY DEF Skipped
<1>7. \A id \in callbacks : data[id].class \in Ahead(Top) => <<id, Top.object>> \in Skipped(Top)
  BY DEF Skipped, Matching
<1>8. excused' = excused \cup Skipped(Top) /\ excused \subseteq Ids \X Objects
  BY DEF ThrowDirect, IInv, TypeOK
<1>9. UNCHANGED <<data, pending, engineVars, hookVars, owed, called, cancelled>>
      /\ callbacks' = callbacks
  BY DEF ThrowDirect, regVars
<1> QED  BY <1>1, <1>5, <1>6, <1>7, <1>8, <1>9, PopStep

-----------------------------------------------------------------------------
(* The direct path collects the callbacks of a class.                       *)

LEMMA ClimbKeeps == ASSUME IInv, Climb PROVE IInv'
<1> DEFINE todo == {ForObject(Top, id) : id \in Matching({Head(Top.chain)})}
<1>1. stack # <<>> /\ Top.kind = "direct" /\ Top.pc = "climb" /\ Top.chain # <<>>
  BY DEF Climb, At
<1>2. Top \in Frame /\ Shape(Top) /\ Fresh(Len(stack)) /\ Holds(Len(stack))
      /\ Top = stack[Len(stack)]
  BY <1>1, StackFacts
<1>3. PICK f : f = [Top EXCEPT !.pc = "next", !.remove = {}, !.todo = todo]
  OBVIOUS
<1>4. Top.slot \in Slots /\ Top.object \in Objects /\ Top.chain \in Seq(Classes)
      /\ Top.release \in Seq(Ids)
  BY <1>1, <1>2 DEF Frame, Shape
<1>5. Head(Top.chain) = Top.chain[1] /\ 1 \in DOMAIN Top.chain
  BY <1>1, <1>4
<1>6. Matching({Head(Top.chain)}) \subseteq callbacks
      /\ \A id \in Matching({Head(Top.chain)}) : data[id].class = Top.chain[1]
  BY <1>5 DEF Matching
<1>7. callbacks \subseteq Ids /\ callbacks \subseteq DOMAIN data
  BY DomainIds DEF IInv, TypeOK
<1>8. \A e \in todo : /\ e \in Exec /\ e.id \in callbacks /\ e.id \in DOMAIN data
                     /\ e.for = Top.object /\ e.object = Top.object
                     /\ data[e.id].class = Top.chain[1]
                     /\ e = ForObject(Top, e.id)
  <2>1. ASSUME NEW id \in Matching({Head(Top.chain)}), NEW e, e = ForObject(Top, id)
        PROVE  /\ e \in Exec /\ e.id = id /\ e.for = Top.object /\ e.object = Top.object
    BY <1>4, <1>6, <1>7, <2>1 DEF ForObject, Exec
  <2>2. TAKE e \in todo
  <2>3. PICK id \in Matching({Head(Top.chain)}) : e = ForObject(Top, id)
    BY <2>2
  <2>4. e \in Exec /\ e.id = id /\ e.for = Top.object /\ e.object = Top.object
    BY <2>1, <2>3
  <2> QED  BY <1>6, <1>7, <2>3, <2>4
<1>9. \A id \in callbacks : data[id].class = Top.chain[1] =>
        ForObject(Top, id) \in todo /\ ForObject(Top, id).id = id /\ ForObject(Top, id).for = Top.object
  BY <1>5 DEF Matching, ForObject
<1> HIDE DEF todo
<1>10. f \in Frame /\ f.kind = "direct" /\ f.object = Top.object /\ f.chain = Top.chain
       /\ f.pc = "next" /\ f.todo = todo /\ f.release = Top.release /\ f.slot = Top.slot
  BY <1>1, <1>2, <1>3, <1>8 DEF Frame
<1>11. Shape(f)
  BY <1>1, <1>2, <1>8, <1>10 DEF Shape, Promised
<1>12. \A c : c \in Ahead(Top) <=> c = Top.chain[1] \/ c \in Ahead(f)
  BY <1>1, <1>5, <1>10 DEF Ahead
<1>13. Top.chain[1] \notin Ahead(f)
  BY <1>2, <1>5, <1>10 DEF Ahead, Shape
<1>14. SetTop(f)
  BY <1>3 DEF Climb, todo
<1>15. UNCHANGED <<data, callbacks, pending, slots, made, address, registry, hookThread, hooks, spoiled,
                   owed, called, cancelled, excused>>
  BY DEF Climb, regVars, engineVars, hookVars, history
<1>16. RegistryTyped' /\ Grows
  BY <1>15, SameRegistry
<1>17. PICK n : n = Len(stack)
  OBVIOUS
<1>18. /\ stack' \in Seq(Frame) /\ Len(stack') = n /\ n \in DOMAIN stack
       /\ DOMAIN stack' = DOMAIN stack /\ stack'[n] = f /\ stack[n] = Top
       /\ \A k \in DOMAIN stack : k # n => stack'[k] = stack[k]
  BY <1>1, <1>10, <1>14, <1>17, StackFacts, TopSetFacts DEF SetTop
<1>19. Fresh(n) /\ Holds(n) /\ \A id \in callbacks : Held(id)
  BY <1>2, <1>17 DEF IInv, RegistryGood
<1>20. Fresh(n)'
  <2>1. \A e \in todo : called[<<e.id, e.for>>] = 0 /\ e.for <= made
    BY <1>1, <1>8, <1>12, <1>18, <1>19 DEF Fresh
  <2>2. \A id \in DOMAIN data : data[id].class \in Ahead(f) => called[<<id, f.object>>] = 0
    BY <1>1, <1>10, <1>12, <1>18, <1>19 DEF Fresh
  <2> QED  BY <1>8, <1>10, <1>15, <1>18, <1>19, <2>1, <2>2 DEF Fresh
<1>21. Holds(n)'
  <2>1. \A id \in DOMAIN data : Held(id) => Held(id)'
    BY <1>15, <1>16, HeldStays
  <2> QED  BY <1>8, <1>10, <1>15, <1>18, <1>19, <2>1 DEF Holds
<1>22. Located(n)'
  BY <1>10, <1>18 DEF Located
<1>23. FramesGood'
  BY <1>11, <1>15, <1>16, <1>18, <1>20, <1>21, <1>22, FrameKeeps DEF FramesGood
<1>24. Apart'
  <2>1. \A o : Concerns(f, o) <=> Concerns(Top, o)
    BY <1>1, <1>2, <1>8, <1>10 DEF Concerns, Shape
  <2>2. \A k \in DOMAIN stack : \A o : Concerns(stack'[k], o) <=> Concerns(stack[k], o)
    BY <1>18, <2>1
  <2> QED  BY <1>15, <1>18, <2>2 DEF IInv, Apart
<1>25. TypeOK'
  <2>1. Len(stack') <= MaxNesting
    BY <1>17, <1>18 DEF IInv, TypeOK
  <2> QED  BY <1>15, <1>18, <2>1 DEF IInv, TypeOK
<1>26. PendingGood' /\ SlotsGood' /\ RegistryGood' /\ HistoryGood' /\ OncePerConstruction'
  BY <1>15 DEF IInv, PendingGood, SlotsGood, Free, RegistryGood, Held, HeldBy, ModOf, HistoryGood,
               OncePerConstruction
<1>27. ASSUME NEW id \in callbacks, NEW o, Coming(id, o)
       PROVE  Coming(id, o)'
  <2>1. CASE \E p \in pending : p.id = id /\ p.for = o
    BY <1>15, <2>1 DEF Coming
  <2>2. ASSUME NEW k \in DOMAIN stack, NEW e \in stack[k].todo, e.id = id, e.for = o
        PROVE  Coming(id, o)'
    <3>1. k # n
      BY <1>1, <1>2, <1>18, <2>2 DEF Shape
    <3> QED  BY <1>18, <2>2, <3>1 DEF Coming
  <2>3. ASSUME NEW k \in DOMAIN stack, stack[k].object = o, data[id].class \in Ahead(stack[k])
        PROVE  Coming(id, o)'
    <3>1. CASE k # n
      <4>1. k \in DOMAIN stack' /\ stack'[k] = stack[k]
        BY <1>18, <3>1
      <4>2. data'[id].class \in Ahead(stack[k])'
        BY <1>15, <2>3, <4>1 DEF Ahead
      <4> QED  BY <2>3, <4>1, <4>2 DEF Coming
    <3>2. CASE k = n /\ data[id].class = Top.chain[1]
      <4>1. ForObject(Top, id) \in stack'[n].todo /\ ForObject(Top, id).id = id
            /\ ForObject(Top, id).for = o
        BY <1>9, <1>10, <1>18, <2>3, <3>2
      <4> QED  BY <1>18, <4>1 DEF Coming
    <3>3. CASE k = n /\ data[id].class \in Ahead(f)
      <4>1. stack'[n].object = o /\ data'[id].class \in Ahead(stack'[n])
        BY <1>10, <1>15, <1>18, <2>3, <3>3
      <4>2. data'[id].class \in Ahead(stack[n])'
        BY <4>1 DEF Ahead
      <4> QED  BY <1>18, <4>1, <4>2 DEF Coming
    <3> QED  BY <1>12, <1>18, <2>3, <3>1, <3>2, <3>3
  <2> QED  BY <1>27, <2>1, <2>2, <2>3 DEF Coming
<1>28. NothingLost'
  BY <1>15, <1>27 DEF IInv, NothingLost
<1> QED  BY <1>23, <1>24, <1>25, <1>26, <1>28 DEF IInv

-----------------------------------------------------------------------------
(* A callback is called.                                                    *)

LEMMA PositionIsNat == ASSUME IInv, NEW id PROVE Position(id) \in Nat
<1>1. callbacks \subseteq 1..MaxIds
  BY DomainIds DEF Ids
<1>2. IsFiniteSet(1..MaxIds)
  BY FS_Interval, BoundsAssumption
<1>3. IsFiniteSet({i \in callbacks : i < id})
  BY <1>1, <1>2, FS_Subset
<1> QED  BY <1>3, FS_CardinalityType DEF Position

LEMMA CallKeeps ==
  ASSUME IInv, stack # <<>>, Top.pc = "next", NEW e \in Top.todo, NEW object \in Objects,
         Call(e, object)
  PROVE  IInv'
<1>0. PICK g : g = [e EXCEPT !.object = object]
  OBVIOUS
<1>1. PICK f : f = [Top EXCEPT !.pc = "inside", !.todo = @ \ {e}, !.now = g,
                               !.position = Position(e.id), !.moved = FALSE]
  OBVIOUS
<1>2. Top \in Frame /\ Shape(Top) /\ Top = stack[Len(stack)]
  BY StackFacts
<1>3. e \in Exec
  BY <1>2 DEF Frame
<1>4. e.id \in Ids /\ e.for \in Objects /\ g \in Exec /\ g.id = e.id /\ g.for = e.for
  BY <1>0, <1>3 DEF Exec
<1>5. f \in Frame /\ f.kind = Top.kind /\ f.object = Top.object /\ f.chain = Top.chain
      /\ f.pc = "inside" /\ f.todo = Top.todo \ {e} /\ f.release = Top.release
      /\ f.slot = Top.slot /\ f.now = g
  BY <1>1, <1>2, <1>4, PositionIsNat DEF Frame
<1>6. SetTop(f)
  BY <1>0, <1>1 DEF Call
<1>7. Shape(f)
  BY <1>2, <1>4, <1>5 DEF Shape, Promised
<1>8. Ahead(f) = Ahead(Top)
  BY <1>5 DEF Ahead
<1>9. PICK n : n = Len(stack)
  OBVIOUS
<1>10. /\ stack' \in Seq(Frame) /\ Len(stack') = n /\ n \in DOMAIN stack
       /\ DOMAIN stack' = DOMAIN stack /\ stack'[n] = f /\ stack[n] = Top
       /\ \A k \in DOMAIN stack : k # n => stack'[k] = stack[k]
  BY <1>5, <1>6, <1>9, StackFacts, TopSetFacts DEF SetTop
<1>11. Fresh(n) /\ Holds(n) /\ Located(n)
  BY <1>9, StackFacts
<1>12. called[<<e.id, e.for>>] = 0 /\ e.id \in DOMAIN data /\ e.for <= made
  BY <1>10, <1>11 DEF Fresh
<1>13. called \in [Ids \X Objects -> 0..2]
  BY DEF IInv, TypeOK
<1>14. /\ called' \in [Ids \X Objects -> 0..2] /\ called'[<<e.id, e.for>>] = 1
       /\ \A x \in Ids \X Objects : x # <<e.id, e.for>> => called'[x] = called[x]
  BY <1>4, <1>12, <1>13 DEF Call
<1>15. UNCHANGED <<data, callbacks, pending, slots, made, address, registry, hookThread, hooks, spoiled,
                   owed, cancelled, excused>>
  BY DEF Call, regVars, engineVars, hookVars
<1>16. RegistryTyped' /\ Grows
  BY <1>15, SameRegistry
<1>17. \A id \in DOMAIN data : Held(id) => Held(id)'
  BY <1>15, <1>16, HeldStays
<1>18. /\ \A k \in DOMAIN stack : Concerns(stack[k], e.for) => k = n
       /\ \A p \in pending : p.for # e.for
  <2>1. Concerns(stack[n], e.for)
    BY <1>10 DEF Concerns
  <2> QED  BY <1>4, <1>10, <2>1 DEF IInv, Apart
<1>19. \A id \in Ids, o \in Objects : id # e.id \/ o # e.for =>
         called'[<<id, o>>] = called[<<id, o>>]
  BY <1>14
<1>20. DOMAIN data \subseteq Ids
  BY DomainIds
<1>21. Fresh(n)'
  <2>1. ASSUME NEW h \in f.todo PROVE called'[<<h.id, h.for>>] = 0
    <3>1. h \in Top.todo /\ h # e /\ h \in Exec
      BY <1>2, <1>5 DEF Frame
    <3>2. h.id # e.id \/ h.for # e.for
      BY <1>2, <3>1 DEF Shape
    <3>3. h.id \in Ids /\ h.for \in Objects
      BY <3>1 DEF Exec
    <3>4. called[<<h.id, h.for>>] = 0
      BY <1>10, <1>11, <3>1 DEF Fresh
    <3> QED  BY <1>19, <3>2, <3>3, <3>4
  <2>2. ASSUME f.kind = "direct", NEW id \in DOMAIN data, data[id].class \in Ahead(f)
        PROVE  called'[<<id, f.object>>] = 0
    <3>1. called[<<id, f.object>>] = 0
      BY <1>5, <1>8, <1>10, <1>11, <2>2 DEF Fresh
    <3>2. data[e.id].class = Top.chain[1]
      BY <1>5, <1>10, <1>11, <2>2 DEF Fresh
    <3>3. Top.chain # <<>> /\ Top.chain \in Seq(Classes) /\ Top.object \in Objects
      BY <1>2, <1>5, <2>2 DEF Shape, Frame
    <3>4. 1 \in DOMAIN Top.chain
      BY <3>3
    <3>5. Top.chain[1] \notin Ahead(Top)
      BY <1>2, <3>4 DEF Ahead, Shape
    <3>6. id # e.id
      BY <1>8, <2>2, <3>2, <3>5
    <3> QED  BY <1>5, <1>19, <1>20, <3>1, <3>3, <3>6
  <2>3. f.object <= made
    BY <1>5, <1>10, <1>11 DEF Fresh
  <2>4. \A h \in f.todo : /\ h.id \in DOMAIN data /\ h.for <= made
                          /\ f.kind = "direct" => data[h.id].class = f.chain[1]
    <3>1. \A h \in stack[n].todo :
            /\ h.id \in DOMAIN data /\ h.for <= made
            /\ stack[n].kind = "direct" => data[h.id].class = stack[n].chain[1]
      BY <1>11 DEF Fresh
    <3>2. f.todo \subseteq stack[n].todo /\ f.kind = stack[n].kind /\ f.chain = stack[n].chain
      BY <1>5, <1>10
    <3> QED  BY <3>1, <3>2
  <2> QED  BY <1>4, <1>5, <1>10, <1>12, <1>15, <2>1, <2>2, <2>3, <2>4 DEF Fresh
<1>22. Holds(n)'
  BY <1>4, <1>5, <1>10, <1>11, <1>12, <1>15, <1>17 DEF Holds, Fresh
<1>23. Located(n)'
  BY <1>5, <1>10, <1>11, <1>15 DEF Located
<1>24. ASSUME NEW k \in DOMAIN stack, k # n
       PROVE  Shape(stack'[k]) /\ Fresh(k)' /\ Holds(k)' /\ Located(k)'
  <2>1. Shape(stack[k]) /\ Fresh(k) /\ Holds(k) /\ Located(k)
    BY DEF IInv, FramesGood
  <2>2. stack'[k] = stack[k] /\ stack[k] \in Frame
    BY <1>10, <1>24 DEF IInv, TypeOK
  <2>3. ASSUME NEW h \in stack[k].todo PROVE called'[<<h.id, h.for>>] = called[<<h.id, h.for>>]
    <3>1. h \in Exec
      BY <2>2 DEF Frame
    <3>2. h.id \in Ids /\ h.for \in Objects
      BY <3>1 DEF Exec
    <3>3. h.for # e.for
      BY <1>18, <1>24 DEF Concerns
    <3> QED  BY <1>19, <3>2, <3>3
  <2>4. ASSUME stack[k].kind = "direct", NEW id \in DOMAIN data
        PROVE  called'[<<id, stack[k].object>>] = called[<<id, stack[k].object>>]
    <3>1. stack[k].object \in Objects /\ stack[k].object # e.for
      BY <1>18, <1>24, <2>1, <2>4 DEF Shape, Concerns
    <3> QED  BY <1>19, <1>20, <3>1
  <2>5. Fresh(k)'
    BY <1>15, <2>1, <2>2, <2>3, <2>4 DEF Fresh, Ahead
  <2>6. Located(k)'
    BY <1>15, <2>1, <2>2 DEF Located
  <2>7. Holds(k)'
    BY <1>15, <1>17, <2>1, <2>2 DEF Holds, Fresh
  <2> QED  BY <2>1, <2>2, <2>5, <2>6, <2>7
<1>25. FramesGood'
  BY <1>7, <1>10, <1>21, <1>22, <1>23, <1>24 DEF FramesGood
<1>26. Apart'
  BY <1>5, <1>10, <1>15 DEF IInv, Apart, Concerns
<1>27. PendingGood'
  <2>1. ASSUME NEW p \in pending PROVE called'[<<p.id, p.for>>] = called[<<p.id, p.for>>]
    <3>1. p \in Pending
      BY DEF IInv, TypeOK
    <3>2. p.id \in Ids /\ p.for \in Objects
      BY <3>1 DEF Pending
    <3> QED  BY <1>18, <1>19, <3>2
  <2> QED  BY <1>15, <2>1 DEF IInv, PendingGood
<1>28. SlotsGood' /\ RegistryGood'
  BY <1>15 DEF IInv, SlotsGood, Free, RegistryGood, Held, HeldBy, ModOf
<1>29. HistoryGood' /\ OncePerConstruction'
  BY <1>12, <1>14, <1>15, <1>19 DEF IInv, HistoryGood, OncePerConstruction
<1>30. TypeOK'
  <2>1. Len(stack') <= MaxNesting
    BY <1>9, <1>10 DEF IInv, TypeOK
  <2> QED  BY <1>10, <1>14, <1>15, <2>1 DEF IInv, TypeOK
<1>31. NothingLost'
  <2>1. \A h \in Top.todo : h \in f.todo \/ called'[<<h.id, h.for>>] > 0
    BY <1>5, <1>14
  <2>2. \A x \in Ids \X Objects : called[x] > 0 => called'[x] > 0
    BY <1>14
  <2> QED  BY <1>5, <1>6, <1>8, <1>15, <2>1, <2>2, TopLosesNothing
<1> QED  BY <1>25, <1>26, <1>27, <1>28, <1>29, <1>30, <1>31 DEF IInv

LEMMA ItemFacts ==
  ASSUME IInv, NEW s \in Slots
  PROVE  /\ slots[s] \in Item /\ slots[s].object \in Nat /\ slots[s].object <= made
         /\ slots[s].serial \in {0, slots[s].object} /\ (Free(s) => slots[s].object = None)
         /\ made \in Nat /\ made <= MaxObjects
<1>1. slots[s] \in Item /\ made \in 0..MaxObjects
  BY DEF IInv, TypeOK
<1>2. Empty.object = None
  BY DEF Empty
<1>3. slots[s].object \in Nat
  BY <1>1, <1>2 DEF Item, Objects, None
<1>4. made \in Nat /\ made <= MaxObjects
  BY <1>1, BoundsAssumption
<1>5. Free(s) => slots[s].object = None
  BY <1>2 DEF Free
<1> QED  BY <1>1, <1>3, <1>4, <1>5 DEF IInv, SlotsGood

LEMMA LivingFacts ==
  ASSUME IInv, NEW s \in Slots, ~Free(s)
  PROVE  slots[s].object \in Objects /\ slots[s].object \in Living
<1>1. slots[s] \in Item
  BY DEF IInv, TypeOK
<1> QED  BY <1>1 DEF Item, Free, Living

LEMMA TopTodo ==
  ASSUME IInv, stack # <<>>, NEW e \in Top.todo
  PROVE  e \in Exec /\ e.slot \in Slots /\ e.for \in Objects /\ e.object \in Objects
<1>1. Top \in Frame
  BY StackFacts
<1>2. e \in Exec
  BY <1>1 DEF Frame
<1> QED  BY <1>2 DEF Exec

LEMMA NextDirectKeeps == ASSUME IInv, NextDirect PROVE IInv'
<1>1. stack # <<>> /\ Top.pc = "next"
  BY DEF NextDirect, At
<1>2. PICK e \in Top.todo : IF e.id \in callbacks THEN Call(e, e.object) ELSE SkipCall(e)
  BY DEF NextDirect, First
<1>3. CASE e.id \in callbacks
  <2>1. e.object \in Objects
    BY <1>1, TopTodo
  <2> QED  BY <1>1, <1>2, <1>3, <2>1, CallKeeps
<1>4. CASE e.id \notin callbacks
  BY <1>1, <1>2, <1>4, SkipKeeps
<1> QED  BY <1>3, <1>4

(* The slot of a batch entry holds another object only when its own is gone.*)
LEMMA NextInBatchKeeps == ASSUME IInv, NextInBatch PROVE IInv'
<1>1. stack # <<>> /\ Top.pc = "next" /\ Top.kind = "batch"
  BY DEF NextInBatch, At
<1>2. PICK e \in Top.todo : IF StillAt(e) THEN Call(e, Occupant(e)) ELSE SkipCall(e)
  BY DEF NextInBatch
<1>3. e.slot \in Slots /\ e.for \in Objects
  BY <1>1, TopTodo
<1>4. CASE StillAt(e)
  <2>1. Occupant(e) \in Objects
    BY <1>3, <1>4, LivingFacts DEF StillAt, Occupant
  <2> QED  BY <1>1, <1>2, <1>4, <2>1, CallKeeps
<1>5. CASE ~StillAt(e)
  <2>1. Located(Len(stack)) /\ Top = stack[Len(stack)]
    BY <1>1, StackFacts
  <2>2. ASSUME NEW s \in Slots, slots[s].object = e.for PROVE FALSE
    <3>1. s = e.slot /\ e.object = e.for
      BY <1>1, <2>1, <2>2 DEF Located
    <3>2. ~Free(e.slot)
      BY <1>3, <2>2, <3>1, ItemFacts DEF Objects, None
    <3> QED  BY <1>5, <2>2, <3>1, <3>2 DEF StillAt, Occupant
  <2>3. Gone(e.for)
    BY <2>2 DEF Gone
  <2> QED  BY <1>1, <1>2, <1>5, <2>3, SkipKeeps
<1> QED  BY <1>4, <1>5

-----------------------------------------------------------------------------
(* An object is constructed.                                                *)

LEMMA MakeFacts ==
  ASSUME IInv, NEW s \in Slots, NEW c \in Classes, NEW weak \in BOOLEAN, Make(s, c, weak),
         UNCHANGED <<data, called>>
  PROVE  /\ made' = made + 1 /\ made \in Nat /\ made + 1 \in Objects /\ made' \in 0..MaxObjects
         /\ slots' \in [Slots -> Item] /\ slots'[s].object = made + 1
         /\ slots'[s].serial \in {0, made + 1}
         /\ \A t \in Slots : t # s => slots'[t] = slots[t]
         /\ SlotsGood' /\ HistoryGood' /\ owed' \subseteq Ids \X Objects
         /\ \A id \in Ids : called[<<id, made + 1>>] = 0
         /\ address' \in [Objects -> Objects \cup {None}]
<1>1. Free(s) /\ made < MaxObjects /\ made' = made + 1
      /\ slots' = [slots EXCEPT ![s] =
           [object |-> made + 1, class |-> c, serial |-> IF weak THEN made + 1 ELSE 0]]
      /\ owed' = owed \cup {<<id, made + 1>> : id \in Matching(ChainSet(c))}
  BY DEF Make
<1>2. made \in Nat /\ MaxObjects \in Nat
  BY ItemFacts, BoundsAssumption
<1>3. made + 1 \in Objects /\ made' \in 0..MaxObjects
  BY <1>1, <1>2 DEF Objects
<1>4. PICK item : item = [object |-> made + 1, class |-> c, serial |-> IF weak THEN made + 1 ELSE 0]
  OBVIOUS
<1>5. item \in Item /\ item.object = made + 1 /\ item.serial \in {0, made + 1}
  BY <1>2, <1>3, <1>4 DEF Item
<1>6. slots \in [Slots -> Item]
  BY DEF IInv, TypeOK
<1>7. slots' \in [Slots -> Item] /\ slots'[s] = item
      /\ \A t \in Slots : t # s => slots'[t] = slots[t]
  BY <1>1, <1>4, <1>5, <1>6
<1>8. SlotsGood'
  <2>1. \A t \in Slots : slots[t].object \in Nat /\ slots[t].object <= made
                         /\ slots[t].serial \in {0, slots[t].object}
    BY ItemFacts
  <2>2. \A t \in Slots : slots'[t].object <= made' /\ slots'[t].serial \in {0, slots'[t].object}
    BY <1>1, <1>2, <1>5, <1>7, <2>1
  <2>3. ASSUME NEW t \in Slots, NEW u \in Slots, slots'[t].object = slots'[u].object, ~Free(t)'
        PROVE  t = u
    <3>1. CASE t = s \/ u = s
      BY <1>2, <1>5, <1>7, <2>1, <2>3, <3>1
    <3>2. CASE t # s /\ u # s
      <4>1. ~Free(t) /\ slots[t].object = slots[u].object
        BY <1>7, <2>3, <3>2 DEF Free
      <4> QED  BY <4>1 DEF IInv, SlotsGood
    <3> QED  BY <3>1, <3>2
  <2> QED  BY <2>2, <2>3 DEF SlotsGood
<1>9. Matching(ChainSet(c)) \subseteq DOMAIN data /\ DOMAIN data \subseteq Ids
  BY DomainIds DEF Matching, IInv, TypeOK
<1>10. owed' \subseteq Ids \X Objects
  BY <1>1, <1>3, <1>9 DEF IInv, TypeOK
<1>11. \A id \in Ids : called[<<id, made + 1>>] = 0
  BY <1>2, <1>3 DEF IInv, HistoryGood
<1>12. HistoryGood'
  <2>1. \A e \in owed' : e[1] \in DOMAIN data /\ e[2] <= made + 1
    <3>1. \A e \in owed : e[1] \in DOMAIN data /\ e[2] <= made + 1
      <4>1. owed \subseteq Ids \X Objects /\ Objects \subseteq Nat
        BY DEF IInv, TypeOK, Objects
      <4>2. \A e \in owed : e[2] \in Nat
        BY <4>1
      <4> QED  BY <1>2, <4>2 DEF IInv, HistoryGood
    <3> QED  BY <1>1, <1>2, <1>9, <3>1
  <2>2. \A id \in Ids, o \in Objects : called[<<id, o>>] # 0 => id \in DOMAIN data /\ o <= made + 1
    BY <1>2 DEF IInv, HistoryGood, Objects
  <2> QED  BY <1>1, <2>1, <2>2 DEF HistoryGood
<1>13. address' \in [Objects -> Objects \cup {None}]
  <2>1. address \in [Objects -> Objects \cup {None}] /\ 1..made \subseteq Objects
    BY <1>1, <1>2 DEF IInv, TypeOK, Objects
  <2>2. Vacant \subseteq Objects \cup {None}
    BY <2>1 DEF Vacant
  <2>3. PICK a \in Vacant \cup {made + 1} : address' = [address EXCEPT ![made + 1] = a]
    BY DEF Make
  <2> QED  BY <1>3, <2>1, <2>2, <2>3
<1> QED  BY <1>1, <1>2, <1>3, <1>5, <1>7, <1>8, <1>10, <1>11, <1>12, <1>13

(* What frames and the queue are about is older than the new object.        *)
LEMMA Older ==
  ASSUME IInv
  PROVE  /\ \A k \in DOMAIN stack : \A o : Concerns(stack[k], o) => o \in Nat /\ o <= made
         /\ \A k \in DOMAIN stack : stack[k].object \in Nat /\ stack[k] \in Frame
         /\ \A p \in pending : p \in Pending /\ p.for \in Nat /\ p.for <= made
<1>1. \A k \in DOMAIN stack : stack[k] \in Frame /\ Fresh(k)
  BY DEF IInv, TypeOK, FramesGood
<1>2. \A k \in DOMAIN stack : stack[k].object \in Nat /\ stack[k].object <= made
  BY <1>1 DEF Frame, Objects, None, Fresh
<1>3. ASSUME NEW k \in DOMAIN stack, NEW e \in stack[k].todo PROVE e.for \in Nat /\ e.for <= made
  <2>1. e \in Exec
    BY <1>1 DEF Frame
  <2>2. e.for \in Nat
    BY <2>1 DEF Exec, Objects
  <2>3. e.for <= made
    BY <1>1 DEF Fresh
  <2> QED  BY <2>2, <2>3
<1>4. \A p \in pending : p \in Pending /\ p.for \in Nat /\ p.for <= made
  <2>1. TAKE p \in pending
  <2>2. p \in Pending /\ p.for <= made
    BY <2>1 DEF IInv, TypeOK, PendingGood
  <2>3. p.for \in Nat
    BY <2>2 DEF Pending, Objects
  <2> QED  BY <2>2, <2>3
<1> QED  BY <1>1, <1>2, <1>3, <1>4 DEF Concerns

LEMMA MakeKeepsFrame ==
  ASSUME IInv, NEW s \in Slots, NEW c \in Classes, NEW weak \in BOOLEAN, Make(s, c, weak),
         UNCHANGED <<data, called, registry>>,
         NEW k \in DOMAIN stack, k \in DOMAIN stack', stack'[k] = stack[k]
  PROVE  Shape(stack'[k]) /\ Fresh(k)' /\ Holds(k)' /\ Located(k)'
<1>1. Shape(stack[k]) /\ Fresh(k) /\ Holds(k) /\ Located(k) /\ stack[k] \in Frame
  BY DEF IInv, FramesGood, TypeOK
<1>2. /\ made' = made + 1 /\ made \in Nat /\ slots'[s].object = made + 1
      /\ \A t \in Slots : t # s => slots'[t] = slots[t]
  BY MakeFacts
<1>3. ASSUME NEW e \in stack[k].todo PROVE e.for \in Nat /\ e.for <= made
  BY Older DEF Concerns
<1>4. Fresh(k)'
  <2>1. stack[k].object <= made'
    <3>1. stack[k].object \in Nat
      BY Older
    <3>2. stack[k].object <= made
      BY <1>1 DEF Fresh
    <3> QED  BY <1>2, <3>1, <3>2
  <2>2. stack[k].pc = "inside" => stack[k].now.id \in DOMAIN data /\ stack[k].now.for <= made'
    <3>1. stack[k].pc = "inside" => stack[k].now.for \in Nat
      BY <1>1 DEF Shape, Exec, Objects
    <3> QED  BY <1>1, <1>2, <3>1 DEF Fresh
  <2>3. \A e \in stack[k].todo : e.for <= made'
    BY <1>2, <1>3
  <2> QED  BY <1>1, <2>1, <2>2, <2>3 DEF Fresh, Ahead
<1>5. Holds(k)'
  BY <1>1 DEF Holds, Held, ModOf
<1>6. Located(k)'
  <2>1. ASSUME NEW e \in stack[k].todo, NEW t \in Slots, slots'[t].object = e.for
        PROVE  slots[t].object = e.for
    BY <1>2, <1>3, <2>1
  <2> QED  BY <1>1, <2>1 DEF Located
<1> QED  BY <1>1, <1>4, <1>5, <1>6

(* The queue and what is owed for older objects.                            *)
LEMMA MakeKeepsOld ==
  ASSUME IInv, NEW s \in Slots, NEW c \in Classes, NEW weak \in BOOLEAN, Make(s, c, weak),
         UNCHANGED <<data, called>>
  PROVE  /\ \A p \in pending :
              /\ p.id \in DOMAIN data /\ p.for <= made' /\ p.serial \in {0, p.for}
              /\ called[<<p.id, p.for>>] = 0
              /\ \A t \in Slots : slots'[t].object = p.for =>
                   t = p.slot /\ (p.serial # 0 => slots'[t].serial = p.serial)
         /\ \A o \in Objects : o <= made /\ Gone(o) => Gone(o)'
<1>1. /\ made' = made + 1 /\ made \in Nat /\ slots'[s].object = made + 1
      /\ \A t \in Slots : t # s => slots'[t] = slots[t]
  BY MakeFacts
<1>2. ASSUME NEW p \in pending
      PROVE  /\ p.id \in DOMAIN data /\ p.for <= made' /\ p.serial \in {0, p.for}
             /\ called[<<p.id, p.for>>] = 0
             /\ \A t \in Slots : slots'[t].object = p.for =>
                  t = p.slot /\ (p.serial # 0 => slots'[t].serial = p.serial)
  <2>1. p.for \in Nat /\ p.for <= made
    BY Older
  <2>2. /\ p.id \in DOMAIN data /\ p.serial \in {0, p.for} /\ called[<<p.id, p.for>>] = 0
        /\ \A t \in Slots : slots[t].object = p.for =>
             t = p.slot /\ (p.serial # 0 => slots[t].serial = p.serial)
    BY DEF IInv, PendingGood
  <2>3. \A t \in Slots : slots'[t].object = p.for => slots'[t] = slots[t]
    BY <1>1, <2>1
  <2> QED  BY <1>1, <2>1, <2>2, <2>3
<1>3. ASSUME NEW o \in Objects, o <= made, Gone(o) PROVE Gone(o)'
  <2>1. o \in Nat
    BY DEF Objects
  <2> QED  BY <1>1, <1>3, <2>1 DEF Gone
<1> QED  BY <1>2, <1>3

LEMMA QueueNotificationsKeeps ==
  ASSUME IInv, NEW s \in Slots, NEW c \in Classes, NEW weak \in BOOLEAN,
         QueueNotifications(s, c, weak)
  PROVE  IInv'
<1>1. Make(s, c, weak) /\ stack = <<>>
      /\ UNCHANGED <<data, callbacks, registry, hookThread, hooks, spoiled, stack,
                     called, cancelled, excused>>
  BY DEF QueueNotifications, regVars, hookVars
<1>2. /\ made' = made + 1 /\ made \in Nat /\ made + 1 \in Objects /\ made' \in 0..MaxObjects
      /\ slots' \in [Slots -> Item] /\ slots'[s].object = made + 1
      /\ slots'[s].serial \in {0, made + 1}
      /\ \A t \in Slots : t # s => slots'[t] = slots[t]
      /\ SlotsGood' /\ HistoryGood' /\ owed' \subseteq Ids \X Objects
      /\ \A id \in Ids : called[<<id, made + 1>>] = 0
      /\ address' \in [Objects -> Objects \cup {None}]
  BY <1>1, MakeFacts
<1>3. PICK ids : ids = Matching(ChainSet(c))
  OBVIOUS
<1>4. ids \subseteq DOMAIN data /\ DOMAIN data \subseteq Ids
  BY <1>3, DomainIds DEF Matching, IInv, TypeOK
<1>5. PICK serial \in {0, made + 1} : serial = slots'[s].serial
  BY <1>2
<1>6. pending' = pending \cup {[id |-> id, slot |-> s, serial |-> serial, for |-> made + 1] : id \in ids}
  BY <1>1, <1>3, <1>5 DEF QueueNotifications
<1>7. ASSUME NEW p \in pending', p \notin pending
      PROVE  p \in Pending /\ p.id \in DOMAIN data /\ p.slot = s /\ p.serial = serial
             /\ p.for = made + 1 /\ p.id \in Ids
  <2>1. PICK id \in ids : p = [id |-> id, slot |-> s, serial |-> serial, for |-> made + 1]
    BY <1>6, <1>7
  <2>2. id \in Ids /\ id \in DOMAIN data /\ serial \in Nat
    BY <1>2, <1>4
  <2> QED  BY <1>2, <2>1, <2>2 DEF Pending
<1>8. TypeOK'
  <2>1. pending' \subseteq Pending
    BY <1>7 DEF IInv, TypeOK
  <2> QED  BY <1>1, <1>2, <2>1 DEF IInv, TypeOK
<1>9. FramesGood' /\ Apart'
  BY <1>1 DEF FramesGood, Apart
<1>10. PendingGood'
  <2>1. ASSUME NEW p \in pending'
        PROVE  /\ p.id \in DOMAIN data /\ p.for <= made' /\ p.serial \in {0, p.for}
               /\ called[<<p.id, p.for>>] = 0
               /\ \A t \in Slots : slots'[t].object = p.for =>
                    t = p.slot /\ (p.serial # 0 => slots'[t].serial = p.serial)
    <3>1. CASE p \in pending
      BY <1>1, <3>1, MakeKeepsOld
    <3>2. CASE p \notin pending
      <4>1. p.id \in DOMAIN data /\ p.slot = s /\ p.serial = serial /\ p.for = made + 1 /\ p.id \in Ids
        BY <1>7, <3>2
      <4>2. \A t \in Slots : t # s => slots'[t].object # made + 1
        <5>1. \A t \in Slots : slots[t].object \in Nat /\ slots[t].object <= made
          BY ItemFacts
        <5> QED  BY <1>2, <5>1
      <4> QED  BY <1>2, <1>5, <4>1, <4>2
    <3> QED  BY <3>1, <3>2
  <2>2. ASSUME NEW p \in pending', NEW q \in pending', p.for = q.for
        PROVE  p.slot = q.slot /\ p.serial = q.serial
    <3>1. \A r \in pending : r.for # made + 1
      BY <1>2, Older
    <3> QED  BY <1>7, <2>2, <3>1 DEF IInv, PendingGood
  <2> QED  BY <1>1, <2>1, <2>2 DEF PendingGood
<1>11. RegistryGood' /\ OncePerConstruction'
  BY <1>1 DEF IInv, RegistryGood, Held, HeldBy, ModOf, OncePerConstruction
<1>12. NothingLost'
  <2>1. owed \subseteq Ids \X Objects
    BY DEF IInv, TypeOK
  <2>2. ASSUME NEW e \in owed'
        PROVE  \/ called[e] > 0 \/ e \in excused \/ Coming(e[1], e[2])'
               \/ e[1] \notin callbacks \/ \A t \in Slots : slots'[t].object # e[2]
    <3>1. CASE e \in owed
      <4>1. e[2] \in Objects /\ e[2] <= made
        BY <2>1, <3>1 DEF IInv, HistoryGood
      <4>2. \/ called[e] > 0 \/ e \in excused \/ Coming(e[1], e[2])
            \/ e[1] \notin callbacks \/ Gone(e[2])
        BY <3>1 DEF IInv, NothingLost, Gone
      <4>3. Coming(e[1], e[2]) => Coming(e[1], e[2])'
        BY <1>1, <1>6 DEF Coming
      <4>4. Gone(e[2]) => Gone(e[2])'
        BY <1>1, <4>1, MakeKeepsOld
      <4> QED  BY <4>2, <4>3, <4>4 DEF Gone
    <3>2. CASE e \notin owed
      <4>1. PICK id \in ids : e = <<id, made + 1>>
        BY <1>1, <1>3, <3>2 DEF Make
      <4>2. PICK p : p = [id |-> id, slot |-> s, serial |-> serial, for |-> made + 1]
        OBVIOUS
      <4>3. p \in pending' /\ p.id = e[1] /\ p.for = e[2]
        BY <1>6, <4>1, <4>2
      <4> QED  BY <4>3 DEF Coming
    <3> QED  BY <3>1, <3>2
  <2> QED  BY <1>1, <2>2 DEF NothingLost
<1> QED  BY <1>2, <1>8, <1>9, <1>10, <1>11, <1>12 DEF IInv

LEMMA EnterDirectKeeps ==
  ASSUME IInv, NEW s \in Slots, NEW c \in Classes, EnterDirect(s, c)
  PROVE  IInv'
<1>1. Make(s, c, FALSE) /\ MayEnter
      /\ UNCHANGED <<data, callbacks, pending, registry, hookThread, hooks, spoiled,
                     called, cancelled, excused>>
  BY DEF EnterDirect, regVars, hookVars
<1>2. /\ made' = made + 1 /\ made \in Nat /\ made + 1 \in Objects /\ made' \in 0..MaxObjects
      /\ slots' \in [Slots -> Item] /\ slots'[s].object = made + 1
      /\ SlotsGood' /\ HistoryGood' /\ owed' \subseteq Ids \X Objects
      /\ \A id \in Ids : called[<<id, made + 1>>] = 0
      /\ address' \in [Objects -> Objects \cup {None}]
  BY <1>1, MakeFacts
<1>3. PICK f : f = [kind |-> "direct", pc |-> "climb", slot |-> s, object |-> made + 1,
                    chain |-> Chain[c], todo |-> {}, now |-> NoExec, position |-> 0,
                    moved |-> FALSE, remove |-> {}, release |-> <<>>]
  OBVIOUS
<1>4. Chain[c] \in Seq(Classes)
      /\ \A i, j \in DOMAIN Chain[c] : Chain[c][i] = Chain[c][j] => i = j
  BY ChainAssumption
<1>5. f \in Frame /\ f.kind = "direct" /\ f.pc = "climb" /\ f.slot = s /\ f.object = made + 1
      /\ f.chain = Chain[c] /\ f.todo = {} /\ f.release = <<>>
  BY <1>2, <1>3, <1>4 DEF Frame
<1>6. Shape(f)
  BY <1>2, <1>4, <1>5 DEF Shape
<1>7. PICK n : n = Len(stack) + 1
  OBVIOUS
<1>8. stack \in Seq(Frame) /\ stack' = Append(stack, f)
  BY <1>3 DEF EnterDirect, IInv, TypeOK
<1>9. /\ stack' \in Seq(Frame) /\ Len(stack') = n /\ n \in DOMAIN stack' /\ stack'[n] = f
      /\ Len(stack) \in Nat /\ DOMAIN stack' = DOMAIN stack \cup {n}
      /\ \A k \in DOMAIN stack : k # n /\ stack'[k] = stack[k]
  BY <1>5, <1>7, <1>8, PushedFacts
<1>10. TypeOK'
  <2>1. Len(stack') <= MaxNesting
    <3>1. CASE stack = <<>>
      BY <1>7, <1>9, <3>1, BoundsAssumption
    <3>2. CASE stack # <<>>
      BY <1>1, <1>7, <1>9, <3>2, BoundsAssumption DEF MayEnter
    <3> QED  BY <3>1, <3>2
  <2> QED  BY <1>1, <1>2, <1>9, <2>1 DEF IInv, TypeOK
<1>11. FramesGood'
  <2>1. ASSUME NEW k \in DOMAIN stack
        PROVE  Shape(stack'[k]) /\ Fresh(k)' /\ Holds(k)' /\ Located(k)'
    BY <1>1, <1>9, MakeKeepsFrame
  <2>2. Fresh(n)'
    <3>1. DOMAIN data \subseteq Ids
      BY DomainIds
    <3> QED  BY <1>1, <1>2, <1>5, <1>9, <3>1 DEF Fresh
  <2>3. Holds(n)' /\ Located(n)'
    BY <1>5, <1>9 DEF Holds, Located
  <2> QED  BY <1>6, <1>9, <2>1, <2>2, <2>3 DEF FramesGood
<1>12. Apart'
  <2>1. \A o : Concerns(f, o) <=> o = made + 1
    BY <1>5 DEF Concerns
  <2>2. \A k \in DOMAIN stack : ~Concerns(stack[k], made + 1)
    BY <1>2, Older
  <2>3. \A p \in pending : p.for # made + 1
    BY <1>2, Older
  <2> QED  BY <1>1, <1>9, <2>1, <2>2, <2>3 DEF IInv, Apart
<1>13. PendingGood'
  BY <1>1, MakeKeepsOld DEF IInv, PendingGood
<1>14. RegistryGood' /\ OncePerConstruction'
  BY <1>1 DEF IInv, RegistryGood, Held, HeldBy, ModOf, OncePerConstruction
<1>15. NothingLost'
  <2>1. owed \subseteq Ids \X Objects
    BY DEF IInv, TypeOK
  <2>2. ASSUME NEW e \in owed'
        PROVE  \/ called[e] > 0 \/ e \in excused \/ Coming(e[1], e[2])'
               \/ e[1] \notin callbacks \/ \A t \in Slots : slots'[t].object # e[2]
    <3>1. CASE e \in owed
      <4>1. e[2] \in Objects /\ e[2] <= made
        BY <2>1, <3>1 DEF IInv, HistoryGood
      <4>2. \/ called[e] > 0 \/ e \in excused \/ Coming(e[1], e[2])
            \/ e[1] \notin callbacks \/ Gone(e[2])
        BY <3>1 DEF IInv, NothingLost, Gone
      <4>3. Coming(e[1], e[2]) => Coming(e[1], e[2])'
        BY <1>1, <1>9 DEF Coming, Ahead
      <4>4. Gone(e[2]) => Gone(e[2])'
        BY <1>1, <4>1, MakeKeepsOld
      <4> QED  BY <4>2, <4>3, <4>4 DEF Gone
    <3>2. CASE e \notin owed
      <4>1. PICK id \in Matching(ChainSet(c)) : e = <<id, made + 1>>
        BY <1>1, <3>2 DEF Make
      <4>2. data[id].class \in Ahead(f)
        BY <1>5 DEF Matching, ChainSet, Ahead
      <4>3. stack'[n].object = made + 1 /\ data[id].class \in Ahead(stack'[n])
        BY <1>5, <1>9, <4>2
      <4>4. e[1] = id /\ e[2] = made + 1
        BY <4>1
      <4>5. data'[id].class \in Ahead(stack[n])'
        BY <1>1, <4>3 DEF Ahead
      <4> QED  BY <1>9, <4>3, <4>4, <4>5 DEF Coming
    <3> QED  BY <3>1, <3>2
  <2> QED  BY <1>1, <2>2 DEF NothingLost
<1> QED  BY <1>2, <1>10, <1>11, <1>12, <1>13, <1>14, <1>15 DEF IInv

-----------------------------------------------------------------------------
(* A drain takes the queue.                                                 *)

LEMMA TakenFacts ==
  ASSUME IInv, NEW p \in pending, StillThere(p), NEW e, e = Resolved(p)
  PROVE  /\ e \in Exec /\ e.id = p.id /\ e.for = p.for /\ e.slot = p.slot /\ e.serial = p.serial
         /\ e.object = slots[p.slot].object /\ e.id \in callbacks
         /\ e.serial # 0 => e.object = e.for
<1>1. p \in Pending
  BY Older
<1>2. p.id \in Ids /\ p.slot \in Slots /\ p.serial \in Nat /\ p.for \in Objects
  BY <1>1 DEF Pending
<1>3. slots[p.slot].object \in Objects
  BY <1>2 DEF StillThere, Free, IInv, TypeOK, Item
<1>4. /\ e \in Exec /\ e.id = p.id /\ e.for = p.for /\ e.slot = p.slot /\ e.serial = p.serial
      /\ e.object = slots[p.slot].object
  BY <1>2, <1>3 DEF Resolved, Exec
<1>5. p.serial # 0 => p.for = slots[p.slot].object
  <2>1. slots[p.slot].serial \in {0, slots[p.slot].object}
    BY <1>2, ItemFacts
  <2>2. p.serial \in {0, p.for}
    BY DEF IInv, PendingGood
  <2> QED  BY <2>1, <2>2 DEF StillThere
<1> QED  BY <1>4, <1>5 DEF StillThere

LEMMA TakeBatchKeeps == ASSUME IInv, TakeBatch PROVE IInv'
<1>1. MayEnter /\ pending' = {}
      /\ UNCHANGED <<data, callbacks, slots, made, address, registry, hookThread, hooks, spoiled,
                     owed, called, cancelled, excused>>
  BY DEF TakeBatch, regVars, engineVars, hookVars, history
<1>2. PICK todo : todo = {Resolved(p) : p \in {q \in pending : StillThere(q)}}
  OBVIOUS
<1>3. ASSUME NEW e \in todo
      PROVE  /\ \E p \in pending : StillThere(p) /\ e = Resolved(p)
             /\ e \in Exec /\ e.id \in callbacks /\ (e.serial # 0 => e.object = e.for)
  <2>1. PICK p \in pending : StillThere(p) /\ e = Resolved(p)
    BY <1>2, <1>3
  <2> QED  BY <2>1, TakenFacts
<1>4. PICK f : f = BatchFrame
  OBVIOUS
<1>5. f \in Frame /\ f.kind = "batch" /\ f.pc = "next" /\ f.object = None /\ f.chain = <<>>
      /\ f.todo = todo /\ f.release = <<>>
  <2>1. todo \subseteq Exec
    BY <1>3
  <2> QED  BY <1>2, <1>4, <2>1 DEF BatchFrame, Frame
<1>6. Shape(f)
  <2>1. \A e \in todo : Promised(f, e)
    BY <1>3, <1>5 DEF Promised
  <2>2. ASSUME NEW e \in todo, NEW g \in todo, e.id = g.id, e.for = g.for PROVE e = g
    <3>1. PICK p \in pending : StillThere(p) /\ e = Resolved(p)
      BY <1>3
    <3>2. PICK q \in pending : StillThere(q) /\ g = Resolved(q)
      BY <1>3
    <3>3. e.id = p.id /\ e.for = p.for /\ g.id = q.id /\ g.for = q.for
      BY <3>1, <3>2, TakenFacts
    <3>4. p.slot = q.slot /\ p.serial = q.serial
      BY <2>2, <3>3 DEF IInv, PendingGood
    <3> QED  BY <2>2, <3>1, <3>2, <3>3, <3>4 DEF Resolved
  <2>3. DOMAIN f.chain = {}
    BY <1>5
  <2> QED  BY <1>5, <2>1, <2>2, <2>3 DEF Shape
<1>7. PICK n : n = Len(stack) + 1
  OBVIOUS
<1>8. stack \in Seq(Frame) /\ stack' = Append(stack, f)
  BY <1>4 DEF TakeBatch, IInv, TypeOK
<1>9. /\ stack' \in Seq(Frame) /\ Len(stack') = n /\ n \in DOMAIN stack' /\ stack'[n] = f
      /\ Len(stack) \in Nat /\ DOMAIN stack' = DOMAIN stack \cup {n}
      /\ \A k \in DOMAIN stack : k # n /\ stack'[k] = stack[k]
  BY <1>5, <1>7, <1>8, PushedFacts
<1>10. TypeOK'
  <2>1. Len(stack') <= MaxNesting
    <3>1. CASE stack = <<>>
      BY <1>7, <1>9, <3>1, BoundsAssumption
    <3>2. CASE stack # <<>>
      BY <1>1, <1>7, <1>9, <3>2, BoundsAssumption DEF MayEnter
    <3> QED  BY <3>1, <3>2
  <2> QED  BY <1>1, <1>9, <2>1 DEF IInv, TypeOK
<1>11. RegistryTyped' /\ Grows
  BY <1>1, SameRegistry
<1>12. ASSUME NEW e \in todo
       PROVE  /\ e.id \in DOMAIN data /\ e.for <= made /\ called[<<e.id, e.for>>] = 0
              /\ \A s \in Slots : slots[s].object = e.for => s = e.slot /\ e.object = e.for
              /\ \E p \in pending : p.for = e.for
  <2>1. PICK p \in pending : StillThere(p) /\ e = Resolved(p)
    BY <1>3
  <2>2. /\ e.id = p.id /\ e.for = p.for /\ e.slot = p.slot
        /\ e.object = slots[p.slot].object
    BY <2>1, TakenFacts
  <2>3. /\ p.id \in DOMAIN data /\ p.for <= made /\ called[<<p.id, p.for>>] = 0
        /\ \A s \in Slots : slots[s].object = p.for => s = p.slot
    BY DEF IInv, PendingGood
  <2> QED  BY <2>2, <2>3
<1>13. FramesGood'
  <2>1. ASSUME NEW k \in DOMAIN stack
        PROVE  Shape(stack'[k]) /\ Fresh(k)' /\ Holds(k)' /\ Located(k)'
    BY <1>1, <1>9, <1>11, FrameKeeps
  <2>2. Fresh(n)'
    <3>1. made \in Nat
      BY DEF IInv, TypeOK
    <3> QED  BY <1>1, <1>5, <1>9, <1>12, <3>1 DEF Fresh, None
  <2>3. Holds(n)'
    <3>1. \A e \in todo : Held(e.id)
      BY <1>3 DEF IInv, RegistryGood
    <3>2. \A e \in todo : Held(e.id)'
      BY <1>1, <3>1 DEF Held, ModOf
    <3> QED  BY <1>5, <1>9, <3>2 DEF Holds
  <2>4. Located(n)'
    BY <1>1, <1>5, <1>9, <1>12 DEF Located
  <2> QED  BY <1>6, <1>9, <2>1, <2>2, <2>3, <2>4 DEF FramesGood
<1>14. Apart'
  <2>1. ASSUME NEW o \in Objects, Concerns(f, o)
        PROVE  \A k \in DOMAIN stack : ~Concerns(stack[k], o)
    <3>1. o # None
      BY DEF Objects, None
    <3>2. PICK p \in pending : p.for = o
      BY <1>5, <1>12, <2>1, <3>1 DEF Concerns
    <3> QED  BY <3>2 DEF IInv, Apart
  <2> QED  BY <1>1, <1>9, <2>1 DEF IInv, Apart
<1>15. PendingGood' /\ SlotsGood' /\ RegistryGood' /\ HistoryGood' /\ OncePerConstruction'
  BY <1>1 DEF IInv, PendingGood, SlotsGood, Free, RegistryGood, Held, HeldBy, ModOf, HistoryGood,
              OncePerConstruction
<1>16. NothingLost'
  <2>1. owed \subseteq Ids \X Objects
    BY DEF IInv, TypeOK
  <2>2. ASSUME NEW e \in owed
        PROVE  \/ called[e] > 0 \/ e \in excused \/ Coming(e[1], e[2])'
               \/ e[1] \notin callbacks \/ \A t \in Slots : slots[t].object # e[2]
    <3>1. \/ called[e] > 0 \/ e \in excused \/ Coming(e[1], e[2])
          \/ e[1] \notin callbacks \/ Gone(e[2])
      BY DEF IInv, NothingLost, Gone
    <3>2. ASSUME NEW p \in pending, p.id = e[1], p.for = e[2], e[1] \in callbacks, ~Gone(e[2])
          PROVE  Coming(e[1], e[2])'
      <4>1. PICK t \in Slots : slots[t].object = p.for
        BY <3>2 DEF Gone
      <4>2. t = p.slot /\ (p.serial # 0 => slots[t].serial = p.serial)
        BY <4>1 DEF IInv, PendingGood
      <4>3. p.for \in Objects
        BY Older DEF Pending
      <4>4. ~Free(p.slot)
        BY <4>1, <4>2, <4>3 DEF Free, Empty, None, Objects
      <4>5. StillThere(p)
        BY <3>2, <4>2, <4>4 DEF StillThere
      <4>6. PICK g : g = Resolved(p)
        OBVIOUS
      <4>7. g \in todo /\ g.id = e[1] /\ g.for = e[2]
        BY <1>2, <3>2, <4>5, <4>6, TakenFacts
      <4> QED  BY <1>5, <1>9, <4>7 DEF Coming
    <3>3. (\E k \in DOMAIN stack :
             \/ \E g \in stack[k].todo : g.id = e[1] /\ g.for = e[2]
             \/ stack[k].object = e[2] /\ data[e[1]].class \in Ahead(stack[k]))
          => Coming(e[1], e[2])'
      BY <1>1, <1>9 DEF Coming, Ahead
    <3> QED  BY <3>1, <3>2, <3>3 DEF Coming, Gone
  <2> QED  BY <1>1, <2>2 DEF NothingLost
<1> QED  BY <1>10, <1>13, <1>14, <1>15, <1>16 DEF IInv

-----------------------------------------------------------------------------
(* Objects change without a frame: a serial number is given, a slot freed.  *)

LEMMA SlotsStep ==
  ASSUME IInv, slots' \in [Slots -> Item], SlotsGood',
         \A t \in Slots : slots'[t].object \in {slots[t].object, None},
         \A t \in Slots : slots[t].serial # 0 /\ slots'[t].object # None =>
                          slots'[t].serial = slots[t].serial,
         UNCHANGED <<regVars, pending, made, address, hookVars, stack, history>>
  PROVE  IInv'
<1>1. UNCHANGED <<data, callbacks, registry, hookThread, hooks, spoiled,
                  owed, called, cancelled, excused, pending, made, address, stack>>
  BY DEF regVars, hookVars, history
<1>2. \A o \in Objects : o \in Nat /\ o # None
  BY DEF Objects, None
<1>3. \A o \in Objects, t \in Slots : slots'[t].object = o => slots[t].object = o
  BY <1>2
<1>4. TypeOK'
  BY <1>1 DEF IInv, TypeOK
<1>5. RegistryTyped' /\ Grows
  BY <1>1, SameRegistry
<1>6. ASSUME NEW k \in DOMAIN stack PROVE Shape(stack[k]) /\ Fresh(k)' /\ Holds(k)' /\ Located(k)'
  <2>1. Shape(stack[k]) /\ Fresh(k) /\ Holds(k) /\ Located(k) /\ stack[k] \in Frame
    BY DEF IInv, FramesGood, TypeOK
  <2>2. Fresh(k)' /\ Holds(k)'
    BY <1>1, <2>1 DEF Fresh, Ahead, Holds, Held, ModOf
  <2>3. \A e \in stack[k].todo : e.for \in Objects
    BY <2>1 DEF Frame, Exec
  <2>4. Located(k)'
    BY <1>1, <1>3, <2>1, <2>3 DEF Located
  <2> QED  BY <2>1, <2>2, <2>4
<1>7. FramesGood' /\ Apart'
  BY <1>1, <1>6 DEF IInv, FramesGood, Apart
<1>8. PendingGood'
  <2>1. ASSUME NEW p \in pending, NEW t \in Slots, slots'[t].object = p.for
        PROVE  t = p.slot /\ (p.serial # 0 => slots'[t].serial = p.serial)
    <3>1. p.for \in Objects
      BY Older DEF Pending
    <3>2. slots[t].object = p.for /\ slots'[t].object # None
      BY <1>2, <1>3, <2>1, <3>1
    <3>3. t = p.slot /\ (p.serial # 0 => slots[t].serial = p.serial)
      BY <3>2 DEF IInv, PendingGood
    <3> QED  BY <3>2, <3>3
  <2> QED  BY <1>1, <2>1 DEF IInv, PendingGood
<1>9. RegistryGood' /\ HistoryGood' /\ OncePerConstruction'
  BY <1>1 DEF IInv, RegistryGood, Held, HeldBy, ModOf, HistoryGood, OncePerConstruction
<1>10. NothingLost'
  <2>1. owed \subseteq Ids \X Objects
    BY DEF IInv, TypeOK
  <2>2. ASSUME NEW e \in owed
        PROVE  \/ called[e] > 0 \/ e \in excused \/ Coming(e[1], e[2])'
               \/ e[1] \notin callbacks \/ \A t \in Slots : slots'[t].object # e[2]
    <3>1. \/ called[e] > 0 \/ e \in excused \/ Coming(e[1], e[2])
          \/ e[1] \notin callbacks \/ \A t \in Slots : slots[t].object # e[2]
      BY DEF IInv, NothingLost
    <3>2. e[2] \in Objects
      BY <2>1
    <3>3. Coming(e[1], e[2]) => Coming(e[1], e[2])'
      BY <1>1 DEF Coming, Ahead
    <3> QED  BY <1>3, <3>1, <3>2, <3>3
  <2> QED  BY <1>1, <2>2 DEF NothingLost
<1> QED  BY <1>4, <1>7, <1>8, <1>9, <1>10 DEF IInv

LEMMA TakeWeakPointerKeeps ==
  ASSUME IInv, NEW s \in Slots, TakeWeakPointer(s)
  PROVE  IInv'
<1>1. ~Free(s) /\ slots[s].serial = 0 /\ slots' = [slots EXCEPT ![s].serial = slots[s].object]
      /\ UNCHANGED <<regVars, pending, made, address, hookVars, stack, history>>
  BY DEF TakeWeakPointer
<1>2. slots \in [Slots -> Item]
  BY DEF IInv, TypeOK
<1>3. slots[s] \in [object : Objects, class : Classes, serial : Nat]
  BY <1>1, <1>2 DEF Item, Free
<1>4. PICK item : item = [slots[s] EXCEPT !.serial = slots[s].object]
  OBVIOUS
<1>5. item \in Item /\ item.object = slots[s].object /\ item.serial = slots[s].object
  BY <1>3, <1>4 DEF Item, Objects
<1>6. slots' \in [Slots -> Item] /\ slots'[s] = item
      /\ \A t \in Slots : t # s => slots'[t] = slots[t]
  BY <1>1, <1>2, <1>4, <1>5
<1>7. SlotsGood'
  <2>1. ASSUME NEW t \in Slots, NEW u \in Slots, slots'[t].object = slots'[u].object, ~Free(t)'
        PROVE  t = u
    <3>1. slots[t].object = slots[u].object
      BY <1>5, <1>6, <2>1
    <3>2. ~Free(t)
      BY <1>1, <1>6, <2>1 DEF Free
    <3> QED  BY <3>1, <3>2 DEF IInv, SlotsGood
  <2>2. \A t \in Slots : slots'[t].object <= made /\ slots'[t].serial \in {0, slots'[t].object}
    BY <1>5, <1>6 DEF IInv, SlotsGood
  <2> QED  BY <1>1, <2>1, <2>2 DEF SlotsGood
<1> QED  BY <1>1, <1>5, <1>6, <1>7, SlotsStep

LEMMA DestroyKeeps ==
  ASSUME IInv, NEW s \in Slots, Destroy(s)
  PROVE  IInv'
<1>1. slots' = [slots EXCEPT ![s] = Empty]
      /\ UNCHANGED <<regVars, pending, made, address, hookVars, stack, history>>
  BY DEF Destroy
<1>2. slots \in [Slots -> Item] /\ Empty \in Item /\ Empty.object = None /\ Empty.serial = 0
  BY DEF IInv, TypeOK, Item, Empty
<1>3. slots' \in [Slots -> Item] /\ slots'[s] = Empty
      /\ \A t \in Slots : t # s => slots'[t] = slots[t]
  BY <1>1, <1>2
<1>4. SlotsGood'
  <2>1. ASSUME NEW t \in Slots, NEW u \in Slots, slots'[t].object = slots'[u].object, ~Free(t)'
        PROVE  t = u
    <3>1. t # s /\ ~Free(t)
      BY <1>3, <2>1 DEF Free
    <3>2. slots[t].object # None
      <4>1. slots[t] \in [object : Objects, class : Classes, serial : Nat]
        BY <1>2, <3>1 DEF Item, Free
      <4> QED  BY <4>1 DEF Objects, None
    <3>3. u # s
      BY <1>2, <1>3, <2>1, <3>1, <3>2
    <3> QED  BY <1>3, <2>1, <3>1, <3>3 DEF IInv, SlotsGood
  <2>2. made \in Nat
    BY DEF IInv, TypeOK
  <2>3. \A t \in Slots : slots'[t].object <= made /\ slots'[t].serial \in {0, slots'[t].object}
    BY <1>2, <1>3, <2>2 DEF IInv, SlotsGood, None
  <2> QED  BY <1>1, <2>1, <2>3 DEF SlotsGood
<1> QED  BY <1>1, <1>2, <1>3, <1>4, SlotsStep

-----------------------------------------------------------------------------
(* A registration, also from inside a callback.                             *)

(* The stack with the references of its frames marked as moved, or not.     *)
Marked(s, moves) == [k \in DOMAIN s |-> [s[k] EXCEPT !.moved = @ \/ moves]]

LEMMA MarkedFacts ==
  ASSUME NEW s \in Seq(Frame), NEW moves \in BOOLEAN, NEW t, t = Marked(s, moves)
  PROVE  /\ t \in Seq(Frame) /\ Len(t) = Len(s) /\ DOMAIN t = DOMAIN s
         /\ \A k \in DOMAIN s :
              /\ t[k].kind = s[k].kind /\ t[k].pc = s[k].pc /\ t[k].slot = s[k].slot
              /\ t[k].object = s[k].object /\ t[k].chain = s[k].chain
              /\ t[k].todo = s[k].todo /\ t[k].now = s[k].now
              /\ t[k].release = s[k].release /\ t[k].remove = s[k].remove
<1>1. ASSUME NEW k \in DOMAIN s
      PROVE  /\ t[k] \in Frame
             /\ t[k].kind = s[k].kind /\ t[k].pc = s[k].pc /\ t[k].slot = s[k].slot
             /\ t[k].object = s[k].object /\ t[k].chain = s[k].chain
             /\ t[k].todo = s[k].todo /\ t[k].now = s[k].now
             /\ t[k].release = s[k].release /\ t[k].remove = s[k].remove
  <2>1. s[k] \in Frame
    OBVIOUS
  <2>2. t[k] = [s[k] EXCEPT !.moved = s[k].moved \/ moves]
    BY DEF Marked
  <2>3. (s[k].moved \/ moves) \in BOOLEAN
    OBVIOUS
  <2> QED  BY <2>1, <2>2, <2>3 DEF Frame
<1>2. PICK n \in Nat : n = Len(s) /\ DOMAIN s = 1..n
  OBVIOUS
<1>3. t = [k \in 1..n |-> t[k]]
  BY <1>2 DEF Marked
<1>4. t \in [1..n -> Frame]
  BY <1>1, <1>2, <1>3
<1>5. t \in Seq(Frame) /\ Len(t) = n /\ DOMAIN t = 1..n
  BY <1>2, <1>4
<1> QED  BY <1>1, <1>2, <1>5

LEMMA NotifyKeeps ==
  ASSUME IInv, NEW m \in Mods, NEW c \in Classes, NotifyOnNewObject(m, c)
  PROVE  IInv'
<1>1. PICK id : id = Len(data) + 1
  OBVIOUS
<1>2. PICK a : a = Anchor(m, id)
  OBVIOUS
<1>3. PICK r : r = Ref(a, "function", id)
  OBVIOUS
<1>4. PICK d : d = [mod |-> m, class |-> c, thread |-> ThreadRef(m), function |-> FreshRef(a)]
  OBVIOUS
<1>5. /\ Len(data) < MaxIds
      /\ hookThread' = [hookThread EXCEPT ![m] = "there"]
      /\ registry' = [registry EXCEPT ![m] = r]
      /\ data' = Append(data, d) /\ callbacks' = callbacks \cup {id}
      /\ UNCHANGED <<pending, slots, made, address, hooks, spoiled, owed, called, cancelled, excused>>
  BY <1>1, <1>2, <1>3, <1>4 DEF NotifyOnNewObject, engineVars, history
<1>6. data \in Seq(Data) /\ callbacks \subseteq DOMAIN data /\ DOMAIN data = 1..Len(data)
      /\ Len(data) \in Nat
  BY DEF IInv, TypeOK
<1>7. id \in Ids /\ id \in Nat /\ id \notin DOMAIN data
  BY <1>1, <1>5, <1>6, BoundsAssumption DEF Ids
<1>8. /\ registry[m] \in Registry /\ InRange(registry[m]) /\ Len(registry[m].cells) \in Nat
      /\ a \in Registry /\ InRange(a) /\ Len(a.cells) \in Nat
      /\ Len(registry[m].cells) <= Len(a.cells) /\ ThreadRef(m) \in 0..Len(a.cells)
  BY <1>2, <1>7, AnchorFacts
<1>9. /\ r \in Registry /\ InRange(r) /\ Len(r.cells) \in Nat /\ Len(a.cells) <= Len(r.cells)
      /\ FreshRef(a) \in 1..Len(r.cells)
  BY <1>3, <1>7, <1>8, RefFacts
<1>10. d \in Data /\ d.mod = m /\ d.class = c /\ d.thread \in 0..Len(r.cells)
  <2>1. d.mod = m /\ d.class = c /\ d.thread = ThreadRef(m) /\ ThreadRef(m) \in Nat
        /\ FreshRef(a) \in Nat
    BY <1>4, <1>8, <1>9
  <2>2. d \in Data
    BY <1>4, <2>1 DEF Data
  <2> QED  BY <1>8, <1>9, <2>1, <2>2
<1>11. /\ data' \in Seq(Data) /\ Len(data') = id /\ DOMAIN data' = DOMAIN data \cup {id}
       /\ data'[id] = d /\ \A i \in DOMAIN data : data'[i] = data[i]
  BY <1>1, <1>5, <1>6, <1>10
<1>12. RegistryTyped' /\ Grows /\ HooksHeld'
  <2>1. r \in Registry /\ InRange(r) /\ Len(registry[m].cells) <= Len(r.cells)
    BY <1>8, <1>9
  <2>2. registry' = [registry EXCEPT ![m] = r]
    BY <1>5
  <2> QED  BY <1>5, <2>1, <2>2, OneRegistry, SameHooks
<1>13. \A i \in DOMAIN data : Held(i) => Held(i)'
  BY <1>11, <1>12, HeldStays
<1>14. Held(id)'
  <2>1. registry'[m] = r
    BY <1>5 DEF IInv, TypeOK
  <2> QED  BY <1>10, <1>11, <2>1 DEF Held, ModOf
<1>15. PICK moves \in BOOLEAN : stack' = Marked(stack, moves)
  BY DEF NotifyOnNewObject, Marked
<1>16. stack \in Seq(Frame)
  BY DEF IInv, TypeOK
<1>17. /\ stack' \in Seq(Frame) /\ Len(stack') = Len(stack) /\ DOMAIN stack' = DOMAIN stack
       /\ \A k \in DOMAIN stack :
            /\ stack'[k].kind = stack[k].kind /\ stack'[k].pc = stack[k].pc
            /\ stack'[k].slot = stack[k].slot /\ stack'[k].object = stack[k].object
            /\ stack'[k].chain = stack[k].chain /\ stack'[k].todo = stack[k].todo
            /\ stack'[k].now = stack[k].now /\ stack'[k].release = stack[k].release
  BY <1>15, <1>16, MarkedFacts
<1>18. TypeOK'
  <2>1. hookThread' \in [Mods -> {"none", "there", "collected"}]
    BY <1>5 DEF IInv, TypeOK
  <2>2. Len(data') <= MaxIds /\ callbacks' \subseteq DOMAIN data'
    BY <1>5, <1>6, <1>7, <1>11 DEF Ids
  <2>3. Len(stack') <= MaxNesting
    BY <1>17 DEF IInv, TypeOK
  <2> QED  BY <1>5, <1>11, <1>12, <1>17, <2>1, <2>2, <2>3 DEF IInv, TypeOK, RegistryTyped
<1>19. \A k \in DOMAIN stack : Ahead(stack'[k]) = Ahead(stack[k])
  BY <1>17 DEF Ahead
<1>20. \A o \in Objects : called[<<id, o>>] = 0
  BY <1>7 DEF IInv, HistoryGood
<1>21. FramesGood'
  <2>1. ASSUME NEW k \in DOMAIN stack
        PROVE  Shape(stack'[k]) /\ Fresh(k)' /\ Holds(k)' /\ Located(k)'
    <3>1. Shape(stack[k]) /\ Fresh(k) /\ Holds(k) /\ Located(k)
      BY DEF IInv, FramesGood
    <3>2. Shape(stack'[k])
      BY <1>17, <3>1 DEF Shape, Promised
    <3>3. Located(k)'
      BY <1>5, <1>17, <3>1 DEF Located
    <3>4. Holds(k)'
      BY <1>11, <1>13, <1>17, <3>1 DEF Holds, Fresh
    <3>5. stack[k].kind = "direct" => \A i \in DOMAIN data' :
            data'[i].class \in Ahead(stack[k]) => called[<<i, stack[k].object>>] = 0
      <4>1. stack[k].kind = "direct" => stack[k].object \in Objects
        BY <3>1 DEF Shape
      <4> QED  BY <1>11, <1>20, <3>1, <4>1 DEF Fresh
    <3>6. \A e \in stack[k].todo :
            /\ e.id \in DOMAIN data' /\ e.for <= made /\ called[<<e.id, e.for>>] = 0
            /\ stack[k].kind = "direct" => data'[e.id].class = stack[k].chain[1]
      <4>1. \A e \in stack[k].todo :
              /\ e.id \in DOMAIN data /\ e.for <= made /\ called[<<e.id, e.for>>] = 0
              /\ stack[k].kind = "direct" => data[e.id].class = stack[k].chain[1]
        BY <3>1 DEF Fresh
      <4>2. \A i \in DOMAIN data : i \in DOMAIN data' /\ data'[i] = data[i]
        BY <1>11
      <4>3. TAKE e \in stack[k].todo
      <4>4. e.id \in DOMAIN data /\ e.for <= made /\ called[<<e.id, e.for>>] = 0
        BY <4>1
      <4>5. stack[k].kind = "direct" => data[e.id].class = stack[k].chain[1]
        BY <4>1
      <4> QED  BY <4>2, <4>4, <4>5
    <3>7. stack[k].pc = "inside" => stack[k].now.id \in DOMAIN data' /\ stack[k].now.for <= made
      BY <1>11, <3>1 DEF Fresh
    <3>8. stack[k].object <= made
      BY <3>1 DEF Fresh
    <3>9. Fresh(k)'
      BY <1>5, <1>17, <1>19, <3>5, <3>6, <3>7, <3>8 DEF Fresh
    <3> QED  BY <3>2, <3>3, <3>4, <3>9
  <2> QED  BY <1>17, <2>1 DEF FramesGood
<1>22. Apart'
  <2>1. \A k \in DOMAIN stack : \A o : Concerns(stack'[k], o) <=> Concerns(stack[k], o)
    BY <1>17 DEF Concerns
  <2> QED  BY <1>5, <1>17, <2>1 DEF IInv, Apart
<1>23. PendingGood' /\ SlotsGood' /\ OncePerConstruction'
  BY <1>5, <1>11 DEF IInv, PendingGood, SlotsGood, Free, OncePerConstruction
<1>24. RegistryGood'
  BY <1>5, <1>6, <1>12, <1>13, <1>14 DEF IInv, RegistryGood, RegistryTyped, HooksHeld
<1>25. HistoryGood'
  BY <1>5, <1>11 DEF IInv, HistoryGood
<1>26. NothingLost'
  <2>1. ASSUME NEW e \in owed
        PROVE  \/ called[e] > 0 \/ e \in excused \/ Coming(e[1], e[2])'
               \/ e[1] \notin callbacks' \/ \A t \in Slots : slots[t].object # e[2]
    <3>1. \/ called[e] > 0 \/ e \in excused \/ Coming(e[1], e[2])
          \/ e[1] \notin callbacks \/ \A t \in Slots : slots[t].object # e[2]
      BY DEF IInv, NothingLost
    <3>2. e[1] \in DOMAIN data
      BY DEF IInv, HistoryGood
    <3>3. e[1] \notin callbacks => e[1] \notin callbacks'
      BY <1>5, <1>7, <3>2
    <3>4. Coming(e[1], e[2]) => Coming(e[1], e[2])'
      <4>1. data'[e[1]] = data[e[1]]
        BY <1>11, <3>2
      <4>2. \A k \in DOMAIN stack : data[e[1]].class \in Ahead(stack[k]) =>
              (data[e[1]].class \in Ahead(stack[k]))'
        BY <1>17, <1>19, <4>1 DEF Ahead
      <4> QED  BY <1>5, <1>17, <4>2 DEF Coming
    <3> QED  BY <3>1, <3>3, <3>4
  <2> QED  BY <1>5, <2>1 DEF NothingLost
<1> QED  BY <1>18, <1>21, <1>22, <1>23, <1>24, <1>25, <1>26 DEF IInv

-----------------------------------------------------------------------------
(* A mod is uninstalled and started again.                                  *)

LEMMA RestartKeeps == ASSUME IInv, NEW m \in Mods, Restart(m) PROVE IInv'
<1>1. PICK r : r = [cells |-> <<>>, free |-> 0]
  OBVIOUS
<1>2. /\ stack = <<>> /\ callbacks' = {id \in callbacks : ModOf(id) # m} /\ pending' = {}
      /\ excused' = excused \cup {<<p.id, p.for>> : p \in pending}
      /\ registry' = [registry EXCEPT ![m] = r]
      /\ hookThread' = [hookThread EXCEPT ![m] = "none"]
      /\ hooks' = [hooks EXCEPT ![m] = {}] /\ spoiled' = spoiled \ {m}
      /\ UNCHANGED <<data, slots, made, address, stack, owed, called, cancelled>>
  BY <1>1 DEF Restart, engineVars
<1>3. r \in Registry /\ InRange(r) /\ Len(r.cells) = 0
  BY <1>1 DEF Registry, InRange
<1>4. registry \in [Mods -> Registry] /\ hooks \in [Mods -> SUBSET HookRefs]
      /\ hookThread \in [Mods -> {"none", "there", "collected"}]
  BY DEF IInv, TypeOK
<1>5. registry' \in [Mods -> Registry] /\ hooks' \in [Mods -> SUBSET HookRefs]
      /\ hookThread' \in [Mods -> {"none", "there", "collected"}]
      /\ registry'[m] = r /\ hooks'[m] = {}
      /\ \A n \in Mods : n # m => registry'[n] = registry[n] /\ hooks'[n] = hooks[n]
  BY <1>2, <1>3, <1>4
<1>6. TypeOK'
  <2>1. \A p \in pending : <<p.id, p.for>> \in Ids \X Objects
    BY DEF IInv, TypeOK, Pending
  <2>2. excused' \subseteq Ids \X Objects
    BY <1>2, <2>1 DEF IInv, TypeOK
  <2> QED  BY <1>2, <1>5, <2>2 DEF IInv, TypeOK
<1>7. FramesGood' /\ Apart' /\ PendingGood' /\ SlotsGood' /\ HistoryGood' /\ OncePerConstruction'
  BY <1>2 DEF IInv, FramesGood, Apart, PendingGood, SlotsGood, Free, HistoryGood,
              OncePerConstruction
<1>8. RegistryGood'
  <2>1. ASSUME NEW n \in Mods
        PROVE  InRange(registry'[n]) /\ \A refs \in hooks'[n] : HeldBy(n, refs)'
    <3>1. CASE n = m
      BY <1>3, <1>5, <3>1
    <3>2. CASE n # m
      BY <1>5, <3>2 DEF IInv, RegistryGood, HeldBy
    <3> QED  BY <3>1, <3>2
  <2>2. ASSUME NEW id \in callbacks' PROVE Held(id)'
    <3>1. id \in callbacks /\ ModOf(id) # m /\ Held(id) /\ id \in DOMAIN data
      BY <1>2 DEF IInv, RegistryGood, TypeOK
    <3>2. data[id] \in Data
      BY <3>1 DEF IInv, TypeOK
    <3>3. ModOf(id) \in Mods
      BY <3>2 DEF ModOf, Data
    <3> QED  BY <1>2, <1>5, <3>1, <3>3 DEF Held, ModOf
  <2> QED  BY <2>1, <2>2 DEF RegistryGood
<1>9. NothingLost'
  <2>1. owed \subseteq Ids \X Objects
    BY DEF IInv, TypeOK
  <2>2. ASSUME NEW e \in owed
        PROVE  \/ called[e] > 0 \/ e \in excused' \/ e[1] \notin callbacks'
               \/ \A t \in Slots : slots[t].object # e[2]
    <3>1. \/ called[e] > 0 \/ e \in excused \/ Coming(e[1], e[2])
          \/ e[1] \notin callbacks \/ \A t \in Slots : slots[t].object # e[2]
      BY DEF IInv, NothingLost
    <3>2. e = <<e[1], e[2]>>
      BY <2>1
    <3>3. Coming(e[1], e[2]) => e \in excused'
      BY <1>2, <3>2 DEF Coming
    <3> QED  BY <1>2, <3>1, <3>3
  <2> QED  BY <1>2, <2>2 DEF NothingLost
<1> QED  BY <1>6, <1>7, <1>8, <1>9 DEF IInv

-----------------------------------------------------------------------------
(* The start.                                                               *)

LEMMA InitInv == Init => IInv
<1> SUFFICES ASSUME Init PROVE IInv
  OBVIOUS
<1>1. /\ data = <<>> /\ callbacks = {} /\ pending = {} /\ made = 0 /\ stack = <<>>
      /\ owed = {} /\ cancelled = {} /\ excused = {} /\ spoiled = {}
      /\ \A m \in Mods : hooks[m] = {} /\ registry[m] = [cells |-> <<>>, free |-> 0]
      /\ slots = [s \in Slots |-> Empty] /\ called = [e \in Ids \X Objects |-> 0]
  BY DEF Init
<1>2. PICK r : r = [cells |-> <<>>, free |-> 0]
  OBVIOUS
<1>3. r \in Registry /\ InRange(r) /\ Len(r.cells) = 0
  BY <1>2 DEF Registry, InRange
<1>4. TypeOK
  <2>1. registry \in [Mods -> Registry]
    BY <1>2, <1>3 DEF Init
  <2>2. slots \in [Slots -> Item]
    BY <1>1 DEF Item
  <2>3. data \in Seq(Data) /\ stack \in Seq(Frame) /\ Len(data) = 0 /\ Len(stack) = 0
    BY <1>1
  <2>4. hookThread \in [Mods -> {"none", "there", "collected"}] /\ hooks \in [Mods -> SUBSET HookRefs]
        /\ address \in [Objects -> Objects \cup {None}]
    BY DEF Init
  <2> QED  BY <1>1, <2>1, <2>2, <2>3, <2>4, BoundsAssumption DEF TypeOK
<1>5. FramesGood /\ Apart /\ PendingGood /\ RegistryGood /\ NothingLost
  BY <1>1, <1>2, <1>3 DEF FramesGood, Apart, PendingGood, RegistryGood, NothingLost
<1>6. SlotsGood
  <2>1. \A s \in Slots : slots[s] = Empty /\ slots[s].object = 0 /\ slots[s].serial = 0
    BY <1>1 DEF Empty, None
  <2> QED  BY <1>1, <2>1 DEF SlotsGood, Free
<1>7. HistoryGood /\ OncePerConstruction
  BY <1>1 DEF HistoryGood, OncePerConstruction
<1> QED  BY <1>4, <1>5, <1>6, <1>7 DEF IInv

LEMMA NextInv == IInv /\ [Next]_vars => IInv'
<1> SUFFICES ASSUME IInv, [Next]_vars PROVE IInv'
  OBVIOUS
<1>1. ASSUME NEW m \in Mods, ModStep(m) PROVE IInv'
  BY <1>1, NotifyKeeps, HookCallsKeep, RestartKeeps DEF ModStep
<1>2. ASSUME NEW s \in Slots, ObjectStep(s) PROVE IInv'
  BY <1>2, QueueNotificationsKeeps, EnterDirectKeeps, TakeWeakPointerKeeps, DestroyKeeps
     DEF ObjectStep
<1>3. CASE DirectStep
  BY <1>3, ClimbKeeps, EndKeeps, NextDirectKeeps, EndLevelKeeps, ThrowDirectKeeps,
     ReturnDirectKeeps DEF DirectStep
<1>4. CASE BatchStep
  BY <1>4, TakeBatchKeeps, NextInBatchKeeps, ThrowInBatchKeeps, CallsDoneKeeps,
     ReleaseNextKeeps, EndKeeps, ReturnInBatchKeeps DEF BatchStep
<1>5. CASE UNCHANGED vars
  <2> USE <1>5 DEF vars, regVars, engineVars, hookVars, history
  <2>1. TypeOK' /\ PendingGood' /\ SlotsGood' /\ RegistryGood' /\ HistoryGood'
        /\ OncePerConstruction'
    BY DEF IInv, TypeOK, PendingGood, SlotsGood, Free, RegistryGood, Held, HeldBy, ModOf, HistoryGood,
           OncePerConstruction
  <2>2. FramesGood'
    <3>1. RegistryTyped' /\ Grows
      BY SameRegistry
    <3> QED  BY <3>1, FrameKeeps DEF FramesGood
  <2>3. Apart' /\ NothingLost'
    BY DEF IInv, Apart, NothingLost, Coming, Ahead
  <2> QED  BY <2>1, <2>2, <2>3 DEF IInv
<1> QED  BY <1>1, <1>2, <1>3, <1>4, <1>5 DEF Next

-----------------------------------------------------------------------------
(* RefsGood: what luaL_ref and luaL_unref leave of a registry.              *)

LEMMA RefKeepsEntries ==
  ASSUME NEW r \in Registry, InRange(r), FreeListGood(r),
         NEW kind \in {"thread", "function"}, NEW v \in Nat,
         NEW q, q = Ref(r, kind, v), NEW n, n = FreshRef(r)
  PROVE  /\ FreeListGood(q) /\ n \in DOMAIN q.cells /\ n # NoRef
         /\ q.cells[n] = [kind |-> kind, value |-> v]
         /\ \A i \in DOMAIN r.cells : r.cells[i].kind # "free" =>
              i # n /\ i \in DOMAIN q.cells /\ q.cells[i] = r.cells[i]
<1>1. PICK cell : cell = [kind |-> kind, value |-> v]
  OBVIOUS
<1>2. cell \in Cell /\ cell.kind # "free"
  BY <1>1 DEF Cell
<1>3. r.cells \in Seq(Cell) /\ r.free \in 0..Len(r.cells) /\ Len(r.cells) \in Nat
      /\ DOMAIN r.cells = 1..Len(r.cells)
      /\ \A i \in DOMAIN r.cells : r.cells[i].kind = "free" => r.cells[i].value \in 0..Len(r.cells)
  BY DEF Registry, InRange
<1>4. CASE r.free = 0
  <2>1. n = Len(r.cells) + 1
    BY <1>4 DEF FreshRef
  <2>2. PICK cells : cells = Append(r.cells, cell)
    OBVIOUS
  <2>3. /\ DOMAIN cells = 1..n /\ cells[n] = cell
        /\ \A i \in DOMAIN r.cells : i # n /\ i \in DOMAIN cells /\ cells[i] = r.cells[i]
        /\ \A i \in DOMAIN cells : i # n => i \in DOMAIN r.cells
    BY <1>2, <1>3, <2>1, <2>2
  <2>4. q.cells = cells /\ q.free = 0
    BY <1>1, <1>4, <2>2 DEF Ref
  <2>5. FreeListGood(q)
    <3> SUFFICES ASSUME NEW i \in DOMAIN cells, cells[i].kind = "free", cells[i].value # 0
                 PROVE  /\ cells[i].value # 0 /\ cells[cells[i].value].kind = "free"
                        /\ \A j \in DOMAIN cells :
                             cells[j].kind = "free" /\ cells[j].value = cells[i].value => j = i
      BY <2>4 DEF FreeListGood
    <3>1. i \in DOMAIN r.cells /\ cells[i] = r.cells[i]
      BY <1>2, <2>3
    <3>2. r.cells[i].value \in DOMAIN r.cells
      BY <1>3, <3>1
    <3>3. r.cells[r.cells[i].value].kind = "free"
      BY <3>1 DEF FreeListGood
    <3>4. \A j \in DOMAIN cells : cells[j].kind = "free" => j \in DOMAIN r.cells /\ cells[j] = r.cells[j]
      BY <1>2, <2>3
    <3>5. \A j \in DOMAIN r.cells :
            r.cells[j].kind = "free" /\ r.cells[j].value = r.cells[i].value => j = i
      BY <3>1 DEF FreeListGood
    <3> QED  BY <2>3, <3>1, <3>2, <3>3, <3>4, <3>5
  <2> QED  BY <1>1, <1>3, <2>1, <2>3, <2>4, <2>5 DEF NoRef
<1>5. CASE r.free # 0
  <2>1. n = r.free /\ n \in DOMAIN r.cells /\ r.cells[n].kind = "free"
    BY <1>3, <1>5 DEF FreshRef, FreeListGood
  <2>2. PICK cells : cells = [r.cells EXCEPT ![n] = cell]
    OBVIOUS
  <2>3. DOMAIN cells = DOMAIN r.cells /\ cells[n] = cell
        /\ \A i \in DOMAIN r.cells : i # n => cells[i] = r.cells[i]
    BY <1>3, <2>1, <2>2
  <2>4. q.cells = cells /\ q.free = r.cells[n].value
    BY <1>1, <1>5, <2>1, <2>2 DEF Ref
  <2>5. FreeListGood(q)
    <3> DEFINE next == r.cells[n].value
    <3>1. next # 0 => next \in DOMAIN r.cells /\ next # n /\ r.cells[next].kind = "free"
      BY <1>3, <2>1 DEF FreeListGood
    <3>2. ASSUME NEW i \in DOMAIN cells, cells[i].kind = "free", cells[i].value # 0
          PROVE  /\ cells[i].value # next /\ cells[cells[i].value].kind = "free"
                 /\ \A j \in DOMAIN cells :
                      cells[j].kind = "free" /\ cells[j].value = cells[i].value => j = i
      <4>1. i \in DOMAIN r.cells /\ i # n /\ cells[i] = r.cells[i]
        BY <1>2, <2>3, <3>2
      <4>2. r.cells[i].value \in DOMAIN r.cells
        BY <1>3, <3>2, <4>1
      <4>3. r.cells[i].value # n /\ r.cells[r.cells[i].value].kind = "free"
        BY <2>1, <3>2, <4>1 DEF FreeListGood
      <4>4. \A j \in DOMAIN r.cells :
              r.cells[j].kind = "free" /\ r.cells[j].value = r.cells[i].value => j = i
        BY <3>2, <4>1 DEF FreeListGood
      <4>5. r.cells[i].value # next
        BY <2>1, <4>1, <4>4
      <4>6. \A j \in DOMAIN cells : cells[j].kind = "free" => cells[j] = r.cells[j]
        BY <1>2, <2>3
      <4> QED  BY <2>3, <4>1, <4>2, <4>3, <4>4, <4>5, <4>6
    <3>3. next # 0 => cells[next].kind = "free"
      BY <2>3, <3>1
    <3> QED  BY <2>4, <3>2, <3>3 DEF FreeListGood
  <2> QED  BY <1>1, <1>3, <2>1, <2>3, <2>4, <2>5, <1>5 DEF NoRef
<1> QED  BY <1>4, <1>5

LEMMA UnrefKeepsEntries ==
  ASSUME NEW r \in Registry, InRange(r), FreeListGood(r),
         NEW ref \in DOMAIN r.cells, r.cells[ref].kind # "free", NEW q, q = Unref(r, ref)
  PROVE  /\ FreeListGood(q) /\ DOMAIN q.cells = DOMAIN r.cells
         /\ \A i \in DOMAIN r.cells : i # ref => q.cells[i] = r.cells[i]
<1>1. r.cells \in Seq(Cell) /\ r.free \in 0..Len(r.cells) /\ Len(r.cells) \in Nat
      /\ DOMAIN r.cells = 1..Len(r.cells) /\ ref # 0
      /\ \A i \in DOMAIN r.cells : r.cells[i].kind = "free" => r.cells[i].value \in 0..Len(r.cells)
  BY DEF Registry, InRange
<1>2. PICK cells : cells = [r.cells EXCEPT ![ref] = [kind |-> "free", value |-> r.free]]
  OBVIOUS
<1>3. DOMAIN cells = DOMAIN r.cells /\ cells[ref].kind = "free" /\ cells[ref].value = r.free
      /\ \A i \in DOMAIN r.cells : i # ref => cells[i] = r.cells[i]
  BY <1>1, <1>2
<1>4. q.cells = cells /\ q.free = ref
  BY <1>1, <1>2 DEF Unref, NoRef
<1>5. r.free # 0 => r.free \in DOMAIN r.cells /\ r.free # ref /\ r.cells[r.free].kind = "free"
  BY <1>1 DEF FreeListGood
<1>6. ASSUME NEW i \in DOMAIN cells, cells[i].kind = "free", cells[i].value # 0
      PROVE  /\ cells[i].value # ref /\ cells[cells[i].value].kind = "free"
             /\ \A j \in DOMAIN cells :
                  cells[j].kind = "free" /\ cells[j].value = cells[i].value => j = i
  <2>1. CASE i = ref
    <3>1. cells[i].value = r.free /\ r.free # 0
      BY <1>3, <1>6, <2>1
    <3>2. ASSUME NEW j \in DOMAIN cells, cells[j].kind = "free", cells[j].value = r.free, j # ref
          PROVE  FALSE
      <4>1. cells[j] = r.cells[j] /\ j \in DOMAIN r.cells
        BY <1>3, <3>2
      <4> QED  BY <3>1, <3>2, <4>1 DEF FreeListGood
    <3> QED  BY <1>3, <1>5, <2>1, <3>1, <3>2
  <2>2. CASE i # ref
    <3>1. i \in DOMAIN r.cells /\ cells[i] = r.cells[i]
      BY <1>3, <2>2
    <3>2. r.cells[i].value \in DOMAIN r.cells /\ r.cells[i].value # r.free
          /\ r.cells[r.cells[i].value].kind = "free"
      BY <1>1, <1>6, <3>1 DEF FreeListGood
    <3>3. \A j \in DOMAIN r.cells :
            r.cells[j].kind = "free" /\ r.cells[j].value = r.cells[i].value => j = i
      BY <1>6, <3>1 DEF FreeListGood
    <3> QED  BY <1>3, <3>1, <3>2, <3>3
  <2> QED  BY <2>1, <2>2
<1>7. FreeListGood(q)
  BY <1>3, <1>4, <1>6 DEF FreeListGood
<1> QED  BY <1>3, <1>4, <1>7

-----------------------------------------------------------------------------
(* RefsGood: steps that only move frames.                                   *)

(* A frame is as it was, or it releases what it did and is accounted for.   *)
Quiet(m) == \A k \in DOMAIN stack' :
  \/ k \in DOMAIN stack /\ stack'[k] = stack[k]
  \/ /\ \/ k \in DOMAIN stack /\ stack'[k].release = stack[k].release
        \/ stack'[k].release = <<>>
     /\ Accounted(m, stack'[k])

LEMMA PushIsQuiet ==
  ASSUME IInv, NEW m, NEW f, stack' = Append(stack, f), f.release = <<>>, Accounted(m, f)
  PROVE  Quiet(m)
<1>1. PICK n \in Nat : n = Len(stack) /\ DOMAIN stack = 1..n
  BY DEF IInv, TypeOK
<1>2. stack \in Seq(Frame)
  BY DEF IInv, TypeOK
<1>3. DOMAIN stack' = 1..(n + 1) /\ stack'[n + 1] = f
      /\ \A k \in 1..n : stack'[k] = stack[k]
  BY <1>1, <1>2
<1>4. \A k \in DOMAIN stack' : k = n + 1 \/ k \in DOMAIN stack
  BY <1>1, <1>3
<1> QED  BY <1>1, <1>3, <1>4 DEF Quiet

LEMMA TopIsQuiet ==
  ASSUME IInv, stack # <<>>, NEW m, NEW f, SetTop(f), f.release = Top.release, Accounted(m, f)
  PROVE  Quiet(m)
<1>1. PICK n : n = Len(stack)
  OBVIOUS
<1>2. n \in DOMAIN stack /\ Top = stack[n]
  BY <1>1, StackFacts
<1>3. DOMAIN stack' = DOMAIN stack /\ stack'[n] = f /\ \A k \in DOMAIN stack : k # n => stack'[k] = stack[k]
  BY <1>1, <1>2 DEF SetTop
<1> QED  BY <1>2, <1>3 DEF Quiet

LEMMA PopIsQuiet == ASSUME IInv, stack # <<>>, NEW m, stack' = Outside PROVE Quiet(m)
<1>1. stack \in Seq(Frame)
  BY DEF IInv, TypeOK
<1> QED  BY <1>1, PoppedFacts DEF Outside, Quiet

LEMMA QuietRefs ==
  ASSUME IInv, NEW m \in Mods, ModRefsGood(m), Quiet(m),
         UNCHANGED <<data, cancelled>>, registry'[m] = registry[m], hooks'[m] = hooks[m],
         callbacks' \subseteq callbacks,
         \A id \in callbacks : id \in callbacks' \/ id \in cancelled \/ ModOf(id) # m
  PROVE  ModRefsGood(m)'
<1>1. FreeListGood(registry'[m]) /\ OwnHooks(m)'
  BY DEF ModRefsGood, OwnHooks, Entry
<1>2. \A id \in callbacks' : ModOf(id) = m => OwnRefs(id)'
  BY DEF ModRefsGood, OwnRefs, OwnThread, Entry, ModOf
<1>3. \A k \in DOMAIN stack' : \A i \in DOMAIN stack'[k].release :
        k \in DOMAIN stack /\ i \in DOMAIN stack[k].release
        /\ stack'[k].release[i] = stack[k].release[i]
  BY DEF Quiet
<1>4. \A id : ModOf(id) = m => (OwnThread(id) <=> OwnThread(id)')
  BY DEF OwnThread, Entry, ModOf
<1>5. OwnReleases(m)'
  <2> SUFFICES ASSUME NEW k \in DOMAIN stack', NEW i \in DOMAIN stack'[k].release,
                      NEW id, id = stack'[k].release[i], ModOf(id) = m
               PROVE  /\ id \in cancelled /\ OwnThread(id)'
                      /\ \A l \in DOMAIN stack' : \A j \in DOMAIN stack'[l].release :
                           stack'[l].release[j] = id => l = k /\ j = i
    BY DEF OwnReleases, ModOf
  <2>1. /\ id \in cancelled /\ OwnThread(id)
        /\ \A l \in DOMAIN stack : \A j \in DOMAIN stack[l].release :
             stack[l].release[j] = id => l = k /\ j = i
    BY <1>3 DEF ModRefsGood, OwnReleases
  <2> QED  BY <1>3, <1>4, <2>1
<1>6. \A id : Known(m, id) => Known(m, id)'
  BY DEF Known, ModOf
<1>7. \A k \in DOMAIN stack' : Accounted(m, stack'[k])
  BY DEF Quiet, ModRefsGood
<1>8. \A k \in DOMAIN stack' : Accounted(m, stack[k])'
  BY <1>6, <1>7 DEF Accounted, ModOf
<1> QED  BY <1>1, <1>2, <1>5, <1>8 DEF ModRefsGood, ModOf

LEMMA TopAccounted ==
  ASSUME IInv, stack # <<>>, NEW m, ModRefsGood(m)
  PROVE  Accounted(m, Top)
<1>1. Top = stack[Len(stack)] /\ Len(stack) \in DOMAIN stack
  BY StackFacts
<1> QED  BY <1>1 DEF ModRefsGood

LEMMA SkipOrCallRefs ==
  ASSUME IInv, stack # <<>>, NEW m \in Mods, ModRefsGood(m), NEW e \in Top.todo,
         NEW object, SkipCall(e) \/ Call(e, object)
  PROVE  ModRefsGood(m)'
<1>1. Top \in Frame /\ Accounted(m, Top)
  BY StackFacts, TopAccounted
<1>2. UNCHANGED <<data, callbacks, cancelled, registry, hooks>>
  BY DEF SkipCall, Call, regVars, hookVars, history
<1>3. Quiet(m)
  <2>1. CASE SkipCall(e)
    <3>1. PICK f : f = [Top EXCEPT !.todo = @ \ {e}]
      OBVIOUS
    <3>2. f.todo = Top.todo \ {e} /\ f.remove = Top.remove /\ f.release = Top.release
          /\ f.pc = Top.pc /\ f.now = Top.now
      BY <1>1, <3>1 DEF Frame
    <3>3. SetTop(f)
      BY <2>1, <3>1 DEF SkipCall
    <3>4. Accounted(m, f)
      BY <1>1, <3>2 DEF Accounted
    <3> QED  BY <3>2, <3>3, <3>4, TopIsQuiet
  <2>2. CASE Call(e, object)
    <3>0. e \in Exec
      BY <1>1 DEF Frame
    <3>1. PICK f : f = [Top EXCEPT !.pc = "inside", !.todo = @ \ {e},
                                   !.now = [e EXCEPT !.object = object], !.position = Position(e.id), !.moved = FALSE]
      OBVIOUS
    <3>2. f.todo = Top.todo \ {e} /\ f.remove = Top.remove /\ f.release = Top.release
          /\ f.now.id = e.id
      BY <1>1, <3>0, <3>1 DEF Frame, Exec
    <3>3. SetTop(f)
      BY <2>2, <3>1 DEF Call
    <3>4. Accounted(m, f)
      BY <1>1, <3>2 DEF Accounted
    <3> QED  BY <3>2, <3>3, <3>4, TopIsQuiet
  <2> QED  BY <2>1, <2>2
<1> QED  BY <1>2, <1>3, QuietRefs

LEMMA ClimbRefs == ASSUME IInv, Climb, NEW m \in Mods, ModRefsGood(m) PROVE ModRefsGood(m)'
<1>1. stack # <<>>
  BY DEF Climb, At
<1>2. Top \in Frame
  BY <1>1, StackFacts
<1>3. PICK todo : todo = {ForObject(Top, id) : id \in Matching({Head(Top.chain)})}
  OBVIOUS
<1>4. PICK f : f = [Top EXCEPT !.pc = "next", !.remove = {}, !.todo = todo]
  OBVIOUS
<1>5. f.todo = todo /\ f.remove = {} /\ f.release = Top.release /\ f.pc = "next"
  BY <1>2, <1>4 DEF Frame
<1>6. \A e \in todo : e.id \in callbacks
  BY <1>3 DEF ForObject, Matching
<1>7. Accounted(m, f)
  BY <1>5, <1>6 DEF Accounted, Known
<1>8. SetTop(f)
  BY <1>3, <1>4 DEF Climb
<1>9. Quiet(m)
  BY <1>1, <1>5, <1>7, <1>8, TopIsQuiet
<1>10. UNCHANGED <<data, callbacks, cancelled, registry, hooks>>
  BY DEF Climb, regVars, hookVars, history
<1> QED  BY <1>9, <1>10, QuietRefs

(* The erased ids were cancelled.                                           *)
LEMMA EndRefs ==
  ASSUME IInv, EndDirect \/ EndBatch \/ ThrowDirect, NEW m \in Mods, ModRefsGood(m)
  PROVE  ModRefsGood(m)'
<1>1. stack # <<>> /\ stack' = Outside
  BY DEF EndDirect, EndBatch, ThrowDirect, At
<1>2. Accounted(m, Top) /\ Quiet(m)
  BY <1>1, TopAccounted, PopIsQuiet
<1>3. UNCHANGED <<data, cancelled, registry, hooks>>
      /\ (callbacks' = callbacks \/ callbacks' = callbacks \ Top.remove)
  BY DEF EndDirect, EndBatch, ThrowDirect, regVars, hookVars, history
<1>4. \A id \in callbacks : id \in callbacks' \/ id \in cancelled \/ ModOf(id) # m
  BY <1>2, <1>3 DEF Accounted
<1> QED  BY <1>2, <1>3, <1>4, QuietRefs

LEMMA EndLevelRefs == ASSUME IInv, EndLevel, NEW m \in Mods, ModRefsGood(m) PROVE ModRefsGood(m)'
<1>1. stack # <<>>
  BY DEF EndLevel, At
<1>2. Top \in Frame /\ Accounted(m, Top)
  BY <1>1, StackFacts, TopAccounted
<1>3. PICK f : f = [Top EXCEPT !.pc = "climb", !.chain = Tail(@)]
  OBVIOUS
<1>4. f.todo = Top.todo /\ f.remove = Top.remove /\ f.release = Top.release /\ f.pc = "climb"
  BY <1>2, <1>3 DEF Frame
<1>5. SetTop(f)
  BY <1>3 DEF EndLevel
<1>6. Accounted(m, f)
  BY <1>2, <1>4 DEF Accounted
<1>7. Quiet(m)
  BY <1>1, <1>4, <1>5, <1>6, TopIsQuiet
<1>8. UNCHANGED <<data, cancelled, registry, hooks>> /\ callbacks' = callbacks \ Top.remove
  BY DEF EndLevel, hookVars, history
<1>9. \A id \in callbacks : id \in callbacks' \/ id \in cancelled \/ ModOf(id) # m
  BY <1>2, <1>8 DEF Accounted
<1> QED  BY <1>7, <1>8, <1>9, QuietRefs

LEMMA BackOrReleaseRefs ==
  ASSUME IInv, ThrowInBatch \/ CallsDone, NEW m \in Mods, ModRefsGood(m)
  PROVE  ModRefsGood(m)'
<1>1. stack # <<>>
  BY DEF ThrowInBatch, CallsDone, At
<1>2. Top \in Frame /\ Accounted(m, Top)
  BY <1>1, StackFacts, TopAccounted
<1>3. PICK f : SetTop(f) /\ (f = Back \/ f = [Top EXCEPT !.pc = "release"])
  BY DEF ThrowInBatch, CallsDone
<1>4. f.todo = Top.todo /\ f.remove = Top.remove /\ f.release = Top.release /\ f.pc # "inside"
  BY <1>2, <1>3 DEF Frame, Back
<1>5. Accounted(m, f)
  BY <1>2, <1>4 DEF Accounted
<1>6. Quiet(m)
  BY <1>1, <1>3, <1>4, <1>5, TopIsQuiet
<1>7. UNCHANGED <<data, callbacks, cancelled, registry, hooks>>
  BY DEF ThrowInBatch, CallsDone, regVars, hookVars, history
<1> QED  BY <1>6, <1>7, QuietRefs

LEMMA EnterRefs ==
  ASSUME IInv, (\E s \in Slots, c \in Classes : EnterDirect(s, c)) \/ TakeBatch,
         NEW m \in Mods, ModRefsGood(m)
  PROVE  ModRefsGood(m)'
<1>1. PICK f : /\ stack' = Append(stack, f) /\ f.release = <<>> /\ f.remove = {} /\ f.pc # "inside"
               /\ \A e \in f.todo : e.id \in callbacks
  <2>1. \A p \in {q \in pending : StillThere(q)} : Resolved(p).id \in callbacks
    BY DEF Resolved, StillThere
  <2>2. \A e \in BatchFrame.todo : e.id \in callbacks
    BY <2>1 DEF BatchFrame
  <2>3. BatchFrame.release = <<>> /\ BatchFrame.remove = {} /\ BatchFrame.pc # "inside"
    BY DEF BatchFrame
  <2>4. CASE TakeBatch
    BY <2>2, <2>3, <2>4 DEF TakeBatch
  <2>5. ASSUME NEW s \in Slots, NEW c \in Classes, EnterDirect(s, c)
        PROVE  \E f : /\ stack' = Append(stack, f) /\ f.release = <<>> /\ f.remove = {}
                      /\ f.pc # "inside" /\ \A e \in f.todo : e.id \in callbacks
    <3>1. PICK f : f = [kind |-> "direct", pc |-> "climb", slot |-> s, object |-> made + 1,
                        chain |-> Chain[c], todo |-> {}, now |-> NoExec, position |-> 0,
                        moved |-> FALSE, remove |-> {}, release |-> <<>>]
      OBVIOUS
    <3>2. f.release = <<>> /\ f.remove = {} /\ f.pc # "inside" /\ f.todo = {}
      BY <3>1
    <3>3. stack' = Append(stack, f)
      BY <2>5, <3>1 DEF EnterDirect
    <3> QED  BY <3>2, <3>3
  <2> QED  BY <2>4, <2>5
<1>2. Accounted(m, f)
  BY <1>1 DEF Accounted, Known
<1>3. Quiet(m)
  BY <1>1, <1>2, PushIsQuiet
<1>4. UNCHANGED <<data, callbacks, cancelled, registry, hooks>>
  BY DEF EnterDirect, TakeBatch, regVars, hookVars, history
<1> QED  BY <1>3, <1>4, QuietRefs

LEMMA SameRefs ==
  ASSUME IInv, UNCHANGED <<data, callbacks, cancelled, registry, hooks, stack>>,
         NEW m \in Mods, ModRefsGood(m)
  PROVE  ModRefsGood(m)'
BY QuietRefs DEF Quiet

-----------------------------------------------------------------------------
(* RefsGood: steps that take references.                                    *)

Used(r, q) == \A i \in DOMAIN r.cells : r.cells[i].kind # "free" =>
  i \in DOMAIN q.cells /\ q.cells[i] = r.cells[i]

LEMMA AnchorKeeps ==
  ASSUME IInv, NEW m \in Mods, FreeListGood(registry[m]), NEW id \in Nat, NEW a, a = Anchor(m, id)
  PROVE  /\ a \in Registry /\ InRange(a) /\ FreeListGood(a) /\ Used(registry[m], a)
         /\ ThreadRef(m) # NoRef =>
              /\ ThreadRef(m) \in DOMAIN a.cells
              /\ a.cells[ThreadRef(m)] = [kind |-> "thread", value |-> id]
              /\ ThreadRef(m) \in DOMAIN registry[m].cells =>
                   registry[m].cells[ThreadRef(m)].kind = "free"
<1>1. registry[m] \in Registry /\ InRange(registry[m]) /\ a \in Registry /\ InRange(a)
  BY AnchorFacts
<1>2. CASE hookThread[m] = "none"
  <2>1. a = Ref(registry[m], "thread", id) /\ ThreadRef(m) = FreshRef(registry[m])
    BY <1>2 DEF Anchor, ThreadRef
  <2> QED  BY <1>1, <2>1, RefKeepsEntries DEF Used
<1>3. CASE hookThread[m] # "none"
  BY <1>1, <1>3 DEF Anchor, ThreadRef, Used
<1> QED  BY <1>2, <1>3

LEMMA PairKeeps ==
  ASSUME IInv, NEW m \in Mods, FreeListGood(registry[m]), NEW id \in Nat,
         NEW a, a = Anchor(m, id), NEW r, r = Ref(a, "function", id), NEW n, n = FreshRef(a)
  PROVE  /\ FreeListGood(r) /\ Used(registry[m], r)
         /\ n \in DOMAIN r.cells /\ r.cells[n] = [kind |-> "function", value |-> id]
         /\ n \in DOMAIN registry[m].cells => registry[m].cells[n].kind = "free"
         /\ ThreadRef(m) # NoRef =>
              /\ ThreadRef(m) \in DOMAIN r.cells
              /\ r.cells[ThreadRef(m)] = [kind |-> "thread", value |-> id]
              /\ ThreadRef(m) \in DOMAIN registry[m].cells =>
                   registry[m].cells[ThreadRef(m)].kind = "free"
<1>1. /\ a \in Registry /\ InRange(a) /\ FreeListGood(a) /\ Used(registry[m], a)
      /\ ThreadRef(m) # NoRef =>
           /\ ThreadRef(m) \in DOMAIN a.cells
           /\ a.cells[ThreadRef(m)] = [kind |-> "thread", value |-> id]
           /\ ThreadRef(m) \in DOMAIN registry[m].cells =>
                registry[m].cells[ThreadRef(m)].kind = "free"
  BY AnchorKeeps
<1>2. /\ FreeListGood(r) /\ n \in DOMAIN r.cells
      /\ r.cells[n] = [kind |-> "function", value |-> id]
      /\ \A i \in DOMAIN a.cells : a.cells[i].kind # "free" =>
           i # n /\ i \in DOMAIN r.cells /\ r.cells[i] = a.cells[i]
  BY <1>1, RefKeepsEntries
<1>3. Used(registry[m], r)
  BY <1>1, <1>2 DEF Used
<1>4. n \in DOMAIN registry[m].cells => registry[m].cells[n].kind = "free"
  BY <1>1, <1>2 DEF Used
<1>5. ThreadRef(m) # NoRef =>
        ThreadRef(m) \in DOMAIN r.cells
        /\ r.cells[ThreadRef(m)] = [kind |-> "thread", value |-> id]
  BY <1>1, <1>2
<1> QED  BY <1>1, <1>2, <1>3, <1>4, <1>5

LEMMA EntryStays ==
  ASSUME NEW m \in Mods, Used(registry[m], registry'[m]), NEW ref, NEW v,
         NEW kind \in {"thread", "function"}, Entry(m, ref, kind, v)
  PROVE  Entry(m, ref, kind, v)'
BY DEF Used, Entry

(* Entries in use stay, and releases and frames do not change.              *)
LEMMA TakeRefs ==
  ASSUME IInv, NEW m \in Mods, ModRefsGood(m), Used(registry[m], registry'[m]),
         FreeListGood(registry'[m]),
         \A id \in DOMAIN data : id \in DOMAIN data' /\ data'[id] = data[id],
         cancelled' = cancelled, callbacks \subseteq callbacks',
         DOMAIN stack' = DOMAIN stack,
         \A k \in DOMAIN stack :
           /\ stack'[k].release = stack[k].release /\ stack'[k].remove = stack[k].remove
           /\ stack'[k].todo = stack[k].todo /\ stack'[k].now = stack[k].now
           /\ stack'[k].pc = stack[k].pc
  PROVE  /\ FreeListGood(registry'[m]) /\ OwnReleases(m)'
         /\ \A id \in callbacks : ModOf(id)' = m => OwnRefs(id)'
         /\ \A k \in DOMAIN stack : Accounted(m, stack[k])'
         /\ \A refs \in hooks[m] :
              /\ Entry(m, refs.function, "function", 0)'
              /\ refs.thread # NoRef => Entry(m, refs.thread, "thread", 0)'
<1>1. \A id \in DOMAIN data : ModOf(id)' = ModOf(id)
  BY DEF ModOf
<1>2. ASSUME NEW id \in DOMAIN data, ModOf(id) = m, OwnThread(id) PROVE OwnThread(id)'
  <2>1. data'[id] = data[id] /\ ModOf(id)' = m
    BY <1>1, <1>2
  <2>2. data[id].thread # NoRef => Entry(m, data[id].thread, "thread", id)'
    BY <1>2, EntryStays DEF OwnThread
  <2> QED  BY <2>1, <2>2 DEF OwnThread, Entry, ModOf
<1>3. callbacks \subseteq DOMAIN data
  BY DEF IInv, TypeOK
<1>4. ASSUME NEW id \in callbacks, ModOf(id)' = m PROVE OwnRefs(id)'
  <2>1. id \in DOMAIN data /\ ModOf(id) = m /\ data'[id] = data[id] /\ OwnRefs(id)
    BY <1>1, <1>3, <1>4 DEF ModRefsGood
  <2>2. Entry(m, data[id].function, "function", id)'
    BY <2>1, EntryStays DEF OwnRefs
  <2>3. id \notin cancelled' => OwnThread(id)'
    BY <1>2, <2>1 DEF OwnRefs
  <2> QED  BY <1>4, <2>1, <2>2, <2>3 DEF OwnRefs, Entry, ModOf
<1>5. \A k \in DOMAIN stack : \A i \in DOMAIN stack[k].release : stack[k].release[i] \in DOMAIN data
  BY DEF IInv, FramesGood, Holds
<1>6. OwnReleases(m)'
  <2> SUFFICES ASSUME NEW k \in DOMAIN stack, NEW i \in DOMAIN stack[k].release,
                      NEW id, id = stack[k].release[i], ModOf(id)' = m
               PROVE  /\ id \in cancelled /\ OwnThread(id)'
                      /\ \A l \in DOMAIN stack : \A j \in DOMAIN stack[l].release :
                           stack[l].release[j] = id => l = k /\ j = i
    BY DEF OwnReleases, ModOf
  <2>1. id \in DOMAIN data /\ ModOf(id) = m
    BY <1>1, <1>5
  <2>2. /\ id \in cancelled /\ OwnThread(id)
        /\ \A l \in DOMAIN stack : \A j \in DOMAIN stack[l].release :
             stack[l].release[j] = id => l = k /\ j = i
    BY <2>1 DEF ModRefsGood, OwnReleases
  <2> QED  BY <1>2, <2>1, <2>2
<1>7. \A id \in DOMAIN data : Known(m, id) => Known(m, id)'
  BY <1>1 DEF Known
<1>8. ASSUME NEW k \in DOMAIN stack PROVE Accounted(m, stack[k])'
  <2>1. Accounted(m, stack[k]) /\ Fresh(k)
    BY DEF ModRefsGood, IInv, FramesGood
  <2>2. \A e \in stack[k].todo : e.id \in DOMAIN data /\ Known(m, e.id)
    BY <2>1 DEF Fresh, Accounted
  <2>3. stack[k].pc = "inside" => stack[k].now.id \in DOMAIN data /\ Known(m, stack[k].now.id)
    BY <2>1 DEF Fresh, Accounted
  <2>4. \A id \in stack[k].remove : id \in DOMAIN data /\ (ModOf(id) = m => id \in cancelled)
    BY <2>1 DEF Accounted
  <2>5. \A e \in stack[k].todo : Known(m, e.id)'
    BY <1>7, <2>2
  <2>6. \A id \in stack[k].remove : id \in DOMAIN data' /\ (ModOf(id)' = m => id \in cancelled')
    BY <1>1, <2>4
  <2>7. PICK now : now = stack[k].now.id
    OBVIOUS
  <2>8. stack[k].pc = "inside" => Known(m, now)'
    BY <1>7, <2>3, <2>7
  <2> QED  BY <2>5, <2>6, <2>7, <2>8 DEF Accounted, Known, ModOf
<1>9. \A refs \in hooks[m] : /\ Entry(m, refs.function, "function", 0)'
                             /\ refs.thread # NoRef => Entry(m, refs.thread, "thread", 0)'
  BY EntryStays DEF ModRefsGood, OwnHooks
<1> QED  BY <1>4, <1>6, <1>8, <1>9

LEMMA UsedSame == ASSUME NEW r, NEW q, q = r PROVE Used(r, q)
BY DEF Used

LEMMA NotifyRefs ==
  ASSUME IInv, RefsGood, NEW m \in Mods, NEW c \in Classes, NotifyOnNewObject(m, c),
         NEW n \in Mods, ModRefsGood(n)
  PROVE  ModRefsGood(n)'
<1>1. PICK id : id = Len(data) + 1
  OBVIOUS
<1>2. PICK a : a = Anchor(m, id)
  OBVIOUS
<1>3. PICK r : r = Ref(a, "function", id)
  OBVIOUS
<1>4. PICK d : d = [mod |-> m, class |-> c, thread |-> ThreadRef(m), function |-> FreshRef(a)]
  OBVIOUS
<1>5. /\ registry' = [registry EXCEPT ![m] = r]
      /\ data' = Append(data, d) /\ callbacks' = callbacks \cup {id}
      /\ UNCHANGED <<hooks, cancelled>> /\ \E moves \in BOOLEAN : stack' = Marked(stack, moves)
  BY <1>1, <1>2, <1>3, <1>4 DEF NotifyOnNewObject, history, Marked
<1>6. data \in Seq(Data) /\ Len(data) \in Nat /\ stack \in Seq(Frame)
      /\ registry \in [Mods -> Registry] /\ DOMAIN data = 1..Len(data)
  BY DEF IInv, TypeOK
<1>7. id \in Nat /\ id \notin DOMAIN data /\ id \notin cancelled
  BY <1>1, <1>6 DEF RefsGood
<1>8. /\ DOMAIN data' = DOMAIN data \cup {id} /\ data'[id] = d
      /\ \A i \in DOMAIN data : i \in DOMAIN data' /\ data'[i] = data[i]
  BY <1>1, <1>5, <1>6
<1>9. /\ DOMAIN stack' = DOMAIN stack
      /\ \A k \in DOMAIN stack :
           /\ stack'[k].release = stack[k].release /\ stack'[k].remove = stack[k].remove
           /\ stack'[k].todo = stack[k].todo /\ stack'[k].now = stack[k].now
           /\ stack'[k].pc = stack[k].pc
  BY <1>5, <1>6, MarkedFacts
<1>10. registry'[n] = IF n = m THEN r ELSE registry[n]
  BY <1>5, <1>6
<1>11. n = m => /\ FreeListGood(r) /\ Used(registry[m], r)
                /\ d.function \in DOMAIN r.cells
                /\ r.cells[d.function] = [kind |-> "function", value |-> id]
                /\ d.thread # NoRef =>
                     /\ d.thread \in DOMAIN r.cells
                     /\ r.cells[d.thread] = [kind |-> "thread", value |-> id]
  <2>1. d.function = FreshRef(a) /\ d.thread = ThreadRef(m)
    BY <1>4
  <2> QED  BY <1>2, <1>3, <1>7, <2>1, PairKeeps DEF ModRefsGood
<1>12. FreeListGood(registry'[n]) /\ Used(registry[n], registry'[n])
  BY <1>10, <1>11, UsedSame DEF ModRefsGood
<1>13. /\ OwnReleases(n)'
       /\ \A i \in callbacks : ModOf(i)' = n => OwnRefs(i)'
       /\ \A k \in DOMAIN stack : Accounted(n, stack[k])'
       /\ \A refs \in hooks[n] : /\ Entry(n, refs.function, "function", 0)'
                                 /\ refs.thread # NoRef => Entry(n, refs.thread, "thread", 0)'
  BY <1>5, <1>8, <1>9, <1>12, TakeRefs
<1>14. ModOf(id)' = n => OwnRefs(id)'
  <2>1. ModOf(id)' = m
    BY <1>4, <1>8 DEF ModOf
  <2> QED  BY <1>8, <1>10, <1>11, <2>1 DEF OwnRefs, OwnThread, Entry, ModOf
<1>15. \A i \in callbacks' : ModOf(i)' = n => OwnRefs(i)'
  BY <1>5, <1>13, <1>14
<1>16. OwnHooks(n)'
  BY <1>5, <1>13 DEF ModRefsGood, OwnHooks
<1> QED  BY <1>9, <1>12, <1>13, <1>15, <1>16 DEF ModRefsGood

LEMMA HookTakesRefs ==
  ASSUME IInv, NEW m \in Mods, NotifyRefused(m) \/ get_hook_lua(m) \/ RegisterHook(m),
         NEW n \in Mods, ModRefsGood(n)
  PROVE  ModRefsGood(n)'
<1>1. registry \in [Mods -> Registry] /\ hooks \in [Mods -> SUBSET HookRefs]
  BY DEF IInv, TypeOK
<1>2. PICK a : a = Anchor(m, 0)
  OBVIOUS
<1>3. PICK r : r = Ref(a, "function", 0)
  OBVIOUS
<1>4. PICK refs : refs = [thread |-> ThreadRef(m), function |-> FreshRef(a)]
  OBVIOUS
<1>5. UNCHANGED <<data, callbacks, cancelled, stack>>
  BY DEF NotifyRefused, get_hook_lua, RegisterHook, regVars, history
<1>6. registry' = [registry EXCEPT ![m] = IF get_hook_lua(m) THEN a ELSE r]
  BY <1>2, <1>3 DEF NotifyRefused, get_hook_lua, RegisterHook
<1>7. n = m => FreeListGood(a) /\ Used(registry[m], a)
  BY <1>2, AnchorKeeps DEF ModRefsGood
<1>8. n = m => /\ FreeListGood(r) /\ Used(registry[m], r)
               /\ refs.function \in DOMAIN r.cells
               /\ r.cells[refs.function] = [kind |-> "function", value |-> 0]
               /\ refs.function \in DOMAIN registry[m].cells =>
                    registry[m].cells[refs.function].kind = "free"
               /\ refs.thread # NoRef =>
                    /\ refs.thread \in DOMAIN r.cells
                    /\ r.cells[refs.thread] = [kind |-> "thread", value |-> 0]
                    /\ refs.thread \in DOMAIN registry[m].cells =>
                         registry[m].cells[refs.thread].kind = "free"
  <2>1. refs.function = FreshRef(a) /\ refs.thread = ThreadRef(m)
    BY <1>4
  <2> QED  BY <1>2, <1>3, <2>1, PairKeeps DEF ModRefsGood
<1>9. registry'[n] = IF n # m THEN registry[n] ELSE IF get_hook_lua(m) THEN a ELSE r
  BY <1>1, <1>6
<1>10. FreeListGood(registry'[n]) /\ Used(registry[n], registry'[n])
  BY <1>7, <1>8, <1>9, UsedSame DEF ModRefsGood
<1>11. /\ OwnReleases(n)'
       /\ \A i \in callbacks : ModOf(i)' = n => OwnRefs(i)'
       /\ \A k \in DOMAIN stack : Accounted(n, stack[k])'
       /\ \A h \in hooks[n] : /\ Entry(n, h.function, "function", 0)'
                              /\ h.thread # NoRef => Entry(n, h.thread, "thread", 0)'
  BY <1>5, <1>10, TakeRefs
<1>12. OwnHooks(n)'
  <2>1. CASE hooks'[n] = hooks[n]
    BY <1>11, <2>1 DEF ModRefsGood, OwnHooks
  <2>2. CASE hooks'[n] # hooks[n]
    <3>1. RegisterHook(m) /\ n = m /\ hooks'[n] = hooks[n] \cup {refs}
      BY <1>1, <1>2, <1>4, <2>2 DEF NotifyRefused, get_hook_lua, RegisterHook
    <3>2. registry'[n] = r
      <4>1. RegisterHook(m) => registry' = [registry EXCEPT ![m] = r]
        BY <1>2, <1>3 DEF RegisterHook
      <4> QED  BY <1>1, <3>1, <4>1
    <3>3. /\ Entry(n, refs.function, "function", 0)'
          /\ refs.thread # NoRef => Entry(n, refs.thread, "thread", 0)'
      BY <1>8, <3>1, <3>2 DEF Entry
    <3>4. \A h \in hooks[n] : /\ h.function # refs.function
                              /\ h.thread = refs.thread => h.thread = NoRef
      <4>1. TAKE h \in hooks[n]
      <4>2. Entry(n, h.function, "function", 0)
        BY DEF ModRefsGood, OwnHooks
      <4>3. h.thread # NoRef => Entry(n, h.thread, "thread", 0)
        BY DEF ModRefsGood, OwnHooks
      <4>4. h.function # refs.function
        BY <1>8, <3>1, <4>2 DEF Entry
      <4>5. h.thread = refs.thread => h.thread = NoRef
        BY <1>8, <3>1, <4>3 DEF Entry
      <4> QED  BY <4>4, <4>5
    <3>5. \A b, h \in hooks[n] :
            b.function = h.function \/ (b.thread = h.thread /\ b.thread # NoRef) => b = h
      BY DEF ModRefsGood, OwnHooks
    <3>6. \A b, h \in hooks'[n] :
            b.function = h.function \/ (b.thread = h.thread /\ b.thread # NoRef) => b = h
      BY <3>1, <3>4, <3>5
    <3>7. \A h \in hooks'[n] : /\ Entry(n, h.function, "function", 0)'
                               /\ h.thread # NoRef => Entry(n, h.thread, "thread", 0)'
      BY <1>11, <3>1, <3>3
    <3> QED  BY <3>6, <3>7 DEF OwnHooks
  <2> QED  BY <2>1, <2>2
<1> QED  BY <1>5, <1>10, <1>11, <1>12 DEF ModRefsGood

-----------------------------------------------------------------------------
(* RefsGood: steps that give references back.                               *)

LEMMA UnregisterRefs ==
  ASSUME IInv, NEW m \in Mods, UnregisterHook(m), NEW n \in Mods, ModRefsGood(n)
  PROVE  ModRefsGood(n)'
<1>1. registry \in [Mods -> Registry] /\ hooks \in [Mods -> SUBSET HookRefs]
  BY DEF IInv, TypeOK
<1>2. PICK refs \in hooks[m] :
        /\ registry' = [registry EXCEPT ![m] = Unref(Unref(@, refs.function), refs.thread)]
        /\ hooks' = [hooks EXCEPT ![m] = @ \ {refs}]
  BY DEF UnregisterHook
<1>3. UNCHANGED <<data, callbacks, cancelled, stack>>
  BY DEF UnregisterHook, regVars, history
<1>4. CASE n # m
  BY <1>1, <1>2, <1>3, <1>4, QuietRefs DEF Quiet
<1>5. CASE n = m
  <2>1. PICK q : q = Unref(registry[m], refs.function)
    OBVIOUS
  <2>2. PICK r : r = Unref(q, refs.thread)
    OBVIOUS
  <2>3. registry[m] \in Registry /\ InRange(registry[m]) /\ FreeListGood(registry[m])
        /\ DOMAIN registry[m].cells = 1..Len(registry[m].cells)
        /\ HeldBy(m, refs)
    BY <1>1, <1>5 DEF IInv, RegistryGood, ModRefsGood, Registry
  <2>4. Entry(m, refs.function, "function", 0)
        /\ (refs.thread # NoRef => Entry(m, refs.thread, "thread", 0))
    BY <1>5 DEF ModRefsGood, OwnHooks
  <2>5. /\ FreeListGood(q) /\ DOMAIN q.cells = DOMAIN registry[m].cells
        /\ \A i \in DOMAIN registry[m].cells : i # refs.function => q.cells[i] = registry[m].cells[i]
    BY <2>1, <2>3, <2>4, UnrefKeepsEntries DEF Entry
  <2>6. q \in Registry /\ InRange(q)
    BY <2>1, <2>3, UnrefFacts DEF HeldBy
  <2>7. refs.thread # NoRef => refs.thread \in DOMAIN q.cells /\ q.cells[refs.thread].kind = "thread"
    BY <2>4, <2>5 DEF Entry
  <2>8. /\ FreeListGood(r) /\ DOMAIN r.cells = DOMAIN registry[m].cells
        /\ \A i \in DOMAIN registry[m].cells : i # refs.function /\ i # refs.thread =>
             r.cells[i] = registry[m].cells[i]
    <3>1. CASE refs.thread = NoRef
      BY <2>2, <2>5, <3>1 DEF Unref
    <3>2. CASE refs.thread # NoRef
      BY <2>2, <2>5, <2>6, <2>7, <3>2, UnrefKeepsEntries
    <3> QED  BY <3>1, <3>2
  <2>9. registry'[m] = r /\ hooks'[m] = hooks[m] \ {refs}
    BY <1>1, <1>2, <2>1, <2>2
  <2>10. \A ref, kind, v : Entry(m, ref, kind, v) /\ ref # refs.function /\ ref # refs.thread =>
           Entry(m, ref, kind, v)'
    BY <2>8, <2>9 DEF Entry
  <2>11. \A id \in DOMAIN data : \A ref, kind : Entry(m, ref, kind, id) => Entry(m, ref, kind, id)'
    <3>1. \A id \in DOMAIN data : id # 0
      BY DEF IInv, TypeOK
    <3>2. ASSUME NEW id \in DOMAIN data, NEW ref, NEW kind, Entry(m, ref, kind, id)
          PROVE  ref # refs.function /\ ref # refs.thread
      <4>1. ref \in DOMAIN registry[m].cells /\ ref # 0
            /\ registry[m].cells[ref] = [kind |-> kind, value |-> id]
        BY <2>3, <3>2 DEF Entry
      <4> QED  BY <2>4, <3>1, <4>1 DEF Entry, NoRef
    <3> QED  BY <2>10, <3>2
  <2>12. \A id \in DOMAIN data : ModOf(id) = m /\ OwnThread(id) => OwnThread(id)'
    BY <1>3, <2>11 DEF OwnThread, ModOf
  <2>13. \A id \in callbacks' : ModOf(id)' = m => OwnRefs(id)'
    <3>1. callbacks \subseteq DOMAIN data
      BY DEF IInv, TypeOK
    <3>2. ASSUME NEW id \in callbacks, ModOf(id) = m PROVE OwnRefs(id)'
      <4>1. id \in DOMAIN data /\ OwnRefs(id)
        BY <1>5, <3>1, <3>2 DEF ModRefsGood
      <4>2. PICK ref : ref = data[id].function
        OBVIOUS
      <4>3. Entry(m, ref, "function", id)'
        BY <2>11, <3>2, <4>1, <4>2 DEF OwnRefs
      <4> QED  BY <1>3, <2>12, <3>2, <4>1, <4>2, <4>3 DEF OwnRefs, ModOf
    <3> QED  BY <1>3, <3>2 DEF ModOf
  <2>14. OwnHooks(m)'
    <3>1. \A a, b \in hooks[m] :
            a.function = b.function \/ (a.thread = b.thread /\ a.thread # NoRef) => a = b
      BY <1>5 DEF ModRefsGood, OwnHooks
    <3>2. ASSUME NEW h \in hooks'[m]
          PROVE  /\ Entry(m, h.function, "function", 0)'
                 /\ h.thread # NoRef => Entry(m, h.thread, "thread", 0)'
      <4>1. h \in hooks[m] /\ h # refs
        BY <2>9
      <4>2. /\ Entry(m, h.function, "function", 0)
            /\ h.thread # NoRef => Entry(m, h.thread, "thread", 0)
        BY <1>5, <4>1 DEF ModRefsGood, OwnHooks
      <4>3. h.function # refs.function /\ (h.thread # NoRef => h.thread # refs.thread)
        BY <3>1, <4>1
      <4>4. h.function # refs.thread
        BY <2>3, <2>4, <4>2 DEF Entry, NoRef
      <4>5. h.thread # NoRef => h.thread # refs.function
        BY <2>4, <4>2 DEF Entry
      <4> QED  BY <2>10, <4>2, <4>3, <4>4, <4>5
    <3> QED  BY <2>9, <3>1, <3>2 DEF OwnHooks
  <2>15. OwnReleases(m)'
    <3> SUFFICES ASSUME NEW k \in DOMAIN stack, NEW i \in DOMAIN stack[k].release,
                        NEW id, id = stack[k].release[i], ModOf(id) = m
                 PROVE  /\ id \in cancelled /\ OwnThread(id)'
                        /\ \A l \in DOMAIN stack : \A j \in DOMAIN stack[l].release :
                             stack[l].release[j] = id => l = k /\ j = i
      BY <1>3 DEF OwnReleases, ModOf
    <3>1. id \in DOMAIN data
      BY DEF IInv, FramesGood, Holds
    <3>2. /\ id \in cancelled /\ OwnThread(id)
          /\ \A l \in DOMAIN stack : \A j \in DOMAIN stack[l].release :
               stack[l].release[j] = id => l = k /\ j = i
      BY <1>5 DEF ModRefsGood, OwnReleases
    <3> QED  BY <2>12, <3>1, <3>2
  <2>16. \A k \in DOMAIN stack' : Accounted(m, stack[k])'
    BY <1>3, <1>5 DEF ModRefsGood, Accounted, Known, ModOf
  <2> QED  BY <1>3, <1>5, <2>8, <2>9, <2>13, <2>14, <2>15, <2>16 DEF ModRefsGood
<1> QED  BY <1>4, <1>5

(* Giving back the thread of a registration leaves every other entry.       *)
LEMMA ReleaseOwn ==
  ASSUME IInv, NEW m \in Mods, FreeListGood(registry[m]), NEW id \in DOMAIN data,
         NEW n \in Mods, n = ModOf(id), n = m => OwnThread(id), Release(n, data[id].thread)
  PROVE  /\ FreeListGood(registry'[m])
         /\ \A ref, kind, v : Entry(m, ref, kind, v) /\ ~(n = m /\ kind = "thread" /\ v = id) =>
              Entry(m, ref, kind, v)'
<1>1. PICK ref : ref = data[id].thread
  OBVIOUS
<1>2. PICK r : r = Unref(registry[n], ref)
  OBVIOUS
<1>3. registry \in [Mods -> Registry] /\ InRange(registry[m])
  BY DEF IInv, TypeOK, RegistryGood
<1>4. registry'[m] = IF m = n THEN r ELSE registry[m]
  BY <1>1, <1>2, <1>3 DEF Release
<1>5. CASE n # m
  BY <1>4, <1>5 DEF Entry
<1>6. CASE n = m /\ ref = NoRef
  <2>1. registry'[m] = registry[m]
    BY <1>2, <1>4, <1>6 DEF Unref
  <2> QED  BY <2>1 DEF Entry
<1>7. CASE n = m /\ ref # NoRef
  <2>1. Entry(m, ref, "thread", id)
    BY <1>1, <1>7 DEF OwnThread
  <2>2. /\ FreeListGood(r) /\ DOMAIN r.cells = DOMAIN registry[m].cells
        /\ \A i \in DOMAIN registry[m].cells : i # ref => r.cells[i] = registry[m].cells[i]
    BY <1>2, <1>3, <1>7, <2>1, UnrefKeepsEntries DEF Entry
  <2>3. registry'[m] = r
    BY <1>4, <1>7
  <2>4. ASSUME NEW s, NEW kind, NEW v, Entry(m, s, kind, v), ~(kind = "thread" /\ v = id)
        PROVE  Entry(m, s, kind, v)'
    <3>1. s # ref
      BY <2>1, <2>4 DEF Entry
    <3> QED  BY <2>2, <2>3, <2>4, <3>1 DEF Entry
  <2> QED  BY <1>7, <2>2, <2>3, <2>4
<1> QED  BY <1>5, <1>6, <1>7

(* A callback has returned: what it releases at once is its own, what it    *)
(* leaves to the batch is released once.                                    *)
LEMMA ReturnRefs ==
  ASSUME IInv, stack # <<>>, Top.pc = "inside", NEW b \in BOOLEAN,
         NEW id, id = Top.now.id, NEW f, SetTop(f), f.todo = Top.todo, f.pc = "next",
         \A i \in f.remove : i \in Top.remove \/ (b /\ i = id),
         cancelled' = IF b THEN cancelled \cup {id} ELSE cancelled,
         UNCHANGED <<data, callbacks, hooks>>,
         NEW m \in Mods, ModRefsGood(m), b /\ ModOf(id) = m => id \notin cancelled,
         FreeListGood(registry'[m]),
         \A ref, kind, v :
           Entry(m, ref, kind, v) /\ ~(b /\ ModOf(id) = m /\ kind = "thread" /\ v = id) =>
             Entry(m, ref, kind, v)',
         \/ f.release = Top.release
         \/ b /\ f.release = Append(Top.release, id) /\ registry'[m] = registry[m]
  PROVE  ModRefsGood(m)'
<1>1. PICK n : n = Len(stack)
  OBVIOUS
<1>2. n \in DOMAIN stack /\ Top = stack[n] /\ Top \in Frame /\ id \in DOMAIN data
  BY <1>1, StackFacts, TopShape
<1>3. DOMAIN stack' = DOMAIN stack /\ stack'[n] = f /\ \A k \in DOMAIN stack : k # n => stack'[k] = stack[k]
  BY <1>1, <1>2 DEF SetTop
<1>4. Accounted(m, Top) /\ cancelled \subseteq cancelled'
  BY TopAccounted
<1>5. b /\ ModOf(id) = m => OwnThread(id)
  BY <1>4 DEF Accounted, Known, ModRefsGood, OwnRefs
<1>6. callbacks \subseteq DOMAIN data /\ \A i \in DOMAIN data : i # 0
  BY DEF IInv, TypeOK
<1>7. ASSUME NEW i \in DOMAIN data, ModOf(i) = m, OwnThread(i), i # id \/ registry'[m] = registry[m]
      PROVE  OwnThread(i)'
  <2>1. PICK ref : ref = data[i].thread
    OBVIOUS
  <2>2. ref # NoRef => Entry(m, ref, "thread", i)
    BY <1>7, <2>1 DEF OwnThread
  <2>3. ref # NoRef => Entry(m, ref, "thread", i)'
    BY <1>7, <2>2 DEF Entry
  <2> QED  BY <1>7, <2>1, <2>3 DEF OwnThread, ModOf
<1>8. \A i \in callbacks' : ModOf(i)' = m => OwnRefs(i)'
  <2>1. ASSUME NEW i \in callbacks, ModOf(i) = m PROVE OwnRefs(i)'
    <3>1. i \in DOMAIN data /\ OwnRefs(i)
      BY <1>6, <2>1 DEF ModRefsGood
    <3>2. PICK ref : ref = data[i].function
      OBVIOUS
    <3>3. Entry(m, ref, "function", i)'
      BY <2>1, <3>1, <3>2 DEF OwnRefs
    <3>4. i \notin cancelled' => OwnThread(i)'
      <4>1. i \notin cancelled' /\ i = id => ~b
        BY <3>1
      <4>2. CASE i # id
        BY <1>4, <1>7, <2>1, <3>1, <4>2 DEF OwnRefs
      <4>3. CASE ~b
        <5>1. PICK thread : thread = data[i].thread
          OBVIOUS
        <5>2. i \notin cancelled' /\ thread # NoRef => Entry(m, thread, "thread", i)'
          BY <2>1, <3>1, <4>3, <5>1 DEF OwnRefs, OwnThread
        <5> QED  BY <2>1, <5>1, <5>2 DEF OwnThread, ModOf
      <4> QED  BY <4>1, <4>2, <4>3
    <3> QED  BY <2>1, <3>2, <3>3, <3>4 DEF OwnRefs, ModOf
  <2> QED  BY <2>1 DEF ModOf
<1>9. OwnHooks(m)'
  <2>1. \A h \in hooks[m] : /\ Entry(m, h.function, "function", 0)'
                            /\ h.thread # NoRef => Entry(m, h.thread, "thread", 0)'
    BY <1>2, <1>6 DEF ModRefsGood, OwnHooks
  <2> QED  BY <2>1 DEF ModRefsGood, OwnHooks
<1>10. \A k \in DOMAIN stack' : Accounted(m, stack[k])'
  <2>1. \A i : Known(m, i) => Known(m, i)'
    BY <1>4 DEF Known, ModOf
  <2>2. Accounted(m, stack[n])'
    BY <1>2, <1>3, <1>4, <2>1 DEF Accounted, ModOf
  <2>3. ASSUME NEW k \in DOMAIN stack, k # n PROVE Accounted(m, stack[k])'
    BY <1>3, <1>4, <2>1, <2>3 DEF ModRefsGood, Accounted, ModOf
  <2> QED  BY <1>3, <2>2, <2>3
<1>11. OwnReleases(m)'
  <2>1. PICK w : w = Len(Top.release) /\ w \in Nat /\ DOMAIN Top.release = 1..w
    BY <1>2 DEF Frame
  <2>2. \A k \in DOMAIN stack : \A i \in DOMAIN stack'[k].release :
          \/ i \in DOMAIN stack[k].release /\ stack'[k].release[i] = stack[k].release[i]
          \/ /\ b /\ k = n /\ i = w + 1 /\ stack'[k].release[i] = id
             /\ registry'[m] = registry[m]
    <3>1. Top.release \in Seq(Ids)
      BY <1>2 DEF Frame
    <3> QED  BY <1>2, <1>3, <2>1, <3>1
  <2>3. \A k \in DOMAIN stack : \A i \in DOMAIN stack[k].release :
          ModOf(stack[k].release[i]) = m =>
            /\ stack[k].release[i] \in DOMAIN data /\ stack[k].release[i] \in cancelled
            /\ OwnThread(stack[k].release[i])
            /\ b => stack[k].release[i] # id
            /\ \A l \in DOMAIN stack : \A j \in DOMAIN stack[l].release :
                 stack[l].release[j] = stack[k].release[i] => l = k /\ j = i
    <3>1. \A k \in DOMAIN stack : Holds(k)
      BY DEF IInv, FramesGood
    <3> QED  BY <3>1 DEF ModRefsGood, OwnReleases, Holds
  <2> SUFFICES ASSUME NEW k \in DOMAIN stack, NEW i \in DOMAIN stack'[k].release,
                      NEW r, r = stack'[k].release[i], ModOf(r) = m
               PROVE  /\ r \in cancelled' /\ OwnThread(r)'
                      /\ \A l \in DOMAIN stack : \A j \in DOMAIN stack'[l].release :
                           stack'[l].release[j] = r => l = k /\ j = i
    BY <1>3 DEF OwnReleases, ModOf
  <2>4. CASE i \in DOMAIN stack[k].release /\ r = stack[k].release[i]
    <3>1. /\ r \in DOMAIN data /\ r \in cancelled /\ OwnThread(r) /\ (b => r # id)
          /\ \A l \in DOMAIN stack : \A j \in DOMAIN stack[l].release :
               stack[l].release[j] = r => l = k /\ j = i
      BY <2>3, <2>4
    <3>2. OwnThread(r)'
      <4>1. CASE r # id
        BY <1>7, <3>1, <4>1
      <4>2. CASE ~b
        <5>1. PICK thread : thread = data[r].thread
          OBVIOUS
        <5>2. thread # NoRef => Entry(m, thread, "thread", r)'
          BY <3>1, <4>2, <5>1 DEF OwnThread
        <5> QED  BY <5>1, <5>2 DEF OwnThread, ModOf
      <4> QED  BY <3>1, <4>1, <4>2
    <3>3. \A l \in DOMAIN stack : \A j \in DOMAIN stack'[l].release :
            stack'[l].release[j] = r => l = k /\ j = i
      BY <2>2, <3>1
    <3> QED  BY <1>4, <3>1, <3>2, <3>3
  <2>5. CASE b /\ k = n /\ i = w + 1 /\ r = id /\ registry'[m] = registry[m]
    <3>1. r \in cancelled' /\ OwnThread(r)'
      BY <1>2, <1>5, <1>7, <2>5
    <3>2. ASSUME NEW l \in DOMAIN stack, NEW j \in DOMAIN stack'[l].release,
                 stack'[l].release[j] = r
          PROVE  l = k /\ j = i
      <4>1. ~(j \in DOMAIN stack[l].release /\ stack[l].release[j] = r)
        BY <2>3, <2>5
      <4> QED  BY <2>2, <2>5, <3>2, <4>1
    <3> QED  BY <3>1, <3>2
  <2> QED  BY <2>2, <2>4, <2>5
<1> QED  BY <1>8, <1>9, <1>10, <1>11 DEF ModRefsGood

LEMMA ReturnInBatchRefs ==
  ASSUME IInv, NEW b \in BOOLEAN, ReturnInBatch(b), NEW m \in Mods \ spoiled',
         ModRefsGood(m)
  PROVE  ModRefsGood(m)'
<1>1. stack # <<>> /\ Top.pc = "inside"
  BY DEF ReturnInBatch, At
<1>2. PICK id : id = Top.now.id
  OBVIOUS
<1>3. Top \in Frame /\ Back.remove = Top.remove /\ Back.release = Top.release /\ Back \in Frame
      /\ Back.todo = Top.todo /\ Back.pc = "next"
  BY <1>1, StackFacts DEF Back, Frame
<1>4. PICK f : f = IF b THEN [Back EXCEPT !.remove = @ \cup {id}, !.release = Append(@, id)]
                   ELSE Back
  OBVIOUS
<1>5. /\ f.todo = Top.todo /\ f.pc = "next"
      /\ f.remove = IF b THEN Top.remove \cup {id} ELSE Top.remove
      /\ f.release = IF b THEN Append(Top.release, id) ELSE Top.release
  BY <1>3, <1>4 DEF Frame
<1>6. SetTop(f)
  BY <1>2, <1>4 DEF ReturnInBatch
<1>7. /\ cancelled' = IF b THEN cancelled \cup {id} ELSE cancelled
      /\ UNCHANGED <<data, callbacks, hooks, registry>> /\ spoiled' = Again(b)
  BY <1>2 DEF ReturnInBatch, regVars
<1>8. b /\ ModOf(id) = m => id \notin cancelled
  BY <1>2, <1>7 DEF Again
<1>9. FreeListGood(registry'[m])
  BY <1>7 DEF ModRefsGood
<1>10. \A ref, kind, v : Entry(m, ref, kind, v) => Entry(m, ref, kind, v)'
  BY <1>7 DEF Entry
<1>11. \A i \in f.remove : i \in Top.remove \/ (b /\ i = id)
  BY <1>5
<1>12. \/ f.release = Top.release
       \/ b /\ f.release = Append(Top.release, id) /\ registry'[m] = registry[m]
  BY <1>5, <1>7
<1> QED  BY <1>1, <1>2, <1>5, <1>6, <1>7, <1>8, <1>9, <1>10, <1>11, <1>12, ReturnRefs

LEMMA ReturnDirectRefs ==
  ASSUME IInv, NEW b \in BOOLEAN, ReturnDirect(b), NEW m \in Mods \ spoiled',
         ModRefsGood(m)
  PROVE  ModRefsGood(m)'
<1>1. stack # <<>> /\ Top.pc = "inside"
  BY DEF ReturnDirect, At
<1>2. PICK id : id = Top.now.id
  OBVIOUS
<1>3. id \in DOMAIN data
  BY <1>1, <1>2, TopShape
<1>4. PICK cancel \in ReadsTrue(b) :
        /\ SetTop([Back EXCEPT !.remove = IF cancel THEN @ \cup {id} ELSE @])
        /\ \/ /\ cancel
              /\ \E i \in IF Referred = {} THEN {id} ELSE Referred :
                   Release(ModOf(i), data[i].thread)
           \/ (cancel => Referred = {}) /\ UNCHANGED registry
        /\ spoiled' = IF Referred = {id} THEN Again(b) ELSE Mods
  BY <1>2 DEF ReturnDirect
<1>5. Referred = {id} /\ spoiled' = Again(b)
  BY <1>4
<1>6. cancel = b
  BY <1>2, <1>5 DEF ReadsTrue
<1>7. (b /\ Release(ModOf(id), data[id].thread)) \/ (~b /\ UNCHANGED registry)
  BY <1>4, <1>5, <1>6
<1>8. /\ cancelled' = IF b THEN cancelled \cup {id} ELSE cancelled
      /\ UNCHANGED <<data, callbacks, hooks>>
  BY <1>2 DEF ReturnDirect, regVars
<1>9. b /\ ModOf(id) = m => id \notin cancelled
  BY <1>2, <1>5 DEF Again
<1>10. b /\ ModOf(id) = m => OwnThread(id)
  <2>1. Accounted(m, Top)
    BY <1>1, TopAccounted
  <2> QED  BY <1>1, <1>2, <1>9, <2>1 DEF Accounted, Known, ModRefsGood, OwnRefs
<1>11. /\ FreeListGood(registry'[m])
       /\ \A ref, kind, v :
            Entry(m, ref, kind, v) /\ ~(b /\ ModOf(id) = m /\ kind = "thread" /\ v = id) =>
              Entry(m, ref, kind, v)'
  <2>1. CASE ~b /\ UNCHANGED registry
    BY <2>1 DEF ModRefsGood, Entry
  <2>2. CASE b /\ Release(ModOf(id), data[id].thread)
    <3>1. PICK n \in Mods : n = ModOf(id)
      BY <1>3, ModOfType
    <3>2. FreeListGood(registry[m]) /\ (n = m => OwnThread(id)) /\ Release(n, data[id].thread)
      BY <1>10, <2>2, <3>1 DEF ModRefsGood
    <3> QED  BY <1>3, <2>2, <3>1, <3>2, ReleaseOwn
  <2> QED  BY <1>7, <2>1, <2>2
<1>12. Top \in Frame /\ Back.remove = Top.remove /\ Back.release = Top.release /\ Back \in Frame
       /\ Back.todo = Top.todo /\ Back.pc = "next"
  BY <1>1, StackFacts DEF Back, Frame
<1>13. PICK f : f = [Back EXCEPT !.remove = IF cancel THEN @ \cup {id} ELSE @]
  OBVIOUS
<1>14. /\ f.todo = Top.todo /\ f.pc = "next" /\ f.release = Top.release
       /\ f.remove = IF b THEN Top.remove \cup {id} ELSE Top.remove
  BY <1>6, <1>12, <1>13 DEF Frame
<1>15. SetTop(f) /\ \A i \in f.remove : i \in Top.remove \/ (b /\ i = id)
  BY <1>4, <1>13, <1>14
<1> QED  BY <1>1, <1>2, <1>8, <1>9, <1>11, <1>14, <1>15, ReturnRefs

LEMMA ReleaseNextRefs ==
  ASSUME IInv, ReleaseNext, NEW m \in Mods, ModRefsGood(m)
  PROVE  ModRefsGood(m)'
<1>1. stack # <<>> /\ Top.release # <<>> /\ Top.pc = "release"
  BY DEF ReleaseNext, At
<1>2. PICK n : n = Len(stack)
  OBVIOUS
<1>3. n \in DOMAIN stack /\ Top = stack[n] /\ Top \in Frame /\ Accounted(m, Top)
  BY <1>1, <1>2, StackFacts, TopAccounted
<1>4. PICK w \in Nat : w = Len(Top.release) /\ DOMAIN Top.release = 1..w /\ w # 0
  BY <1>1, <1>3 DEF Frame
<1>5. PICK f : f = [Top EXCEPT !.release = Tail(@)]
  OBVIOUS
<1>6. /\ f.todo = Top.todo /\ f.pc = Top.pc /\ f.remove = Top.remove /\ f.release = Tail(Top.release)
      /\ DOMAIN f.release = 1..(w - 1)
      /\ \A i \in 1..(w - 1) : f.release[i] = Top.release[i + 1]
  BY <1>3, <1>4, <1>5 DEF Frame
<1>7. DOMAIN stack' = DOMAIN stack /\ stack'[n] = f /\ \A k \in DOMAIN stack : k # n => stack'[k] = stack[k]
  BY <1>2, <1>3, <1>5 DEF ReleaseNext, SetTop
<1>8. PICK id : id = Top.release[1]
  OBVIOUS
<1>9. Release(ModOf(id), data[id].thread) /\ UNCHANGED <<data, callbacks, cancelled, hooks>>
  BY <1>4, <1>8 DEF ReleaseNext, regVars, history
<1>10. \A k \in DOMAIN stack : \A i \in DOMAIN stack[k].release :
         /\ stack[k].release[i] \in DOMAIN data
         /\ ModOf(stack[k].release[i]) = m =>
              /\ stack[k].release[i] \in cancelled /\ OwnThread(stack[k].release[i])
              /\ \A l \in DOMAIN stack : \A j \in DOMAIN stack[l].release :
                   stack[l].release[j] = stack[k].release[i] => l = k /\ j = i
  BY DEF IInv, FramesGood, Holds, ModRefsGood, OwnReleases
<1>11. 1 \in DOMAIN stack[n].release /\ stack[n].release[1] = id
  BY <1>3, <1>4, <1>8
<1>12. id \in DOMAIN data /\ (ModOf(id) = m => id \in cancelled /\ OwnThread(id))
  BY <1>3, <1>10, <1>11
<1>13. /\ FreeListGood(registry'[m])
       /\ \A ref, kind, v :
            Entry(m, ref, kind, v) /\ ~(ModOf(id) = m /\ kind = "thread" /\ v = id) =>
              Entry(m, ref, kind, v)'
  <2>1. PICK o \in Mods : o = ModOf(id)
    BY <1>12, ModOfType
  <2>2. FreeListGood(registry[m]) /\ (o = m => OwnThread(id)) /\ Release(o, data[id].thread)
    BY <1>9, <1>12, <2>1 DEF ModRefsGood
  <2> QED  BY <1>12, <2>1, <2>2, ReleaseOwn
<1>14. ASSUME NEW i \in DOMAIN data, ModOf(i) = m, OwnThread(i), i # id PROVE OwnThread(i)'
  <2>1. PICK ref : ref = data[i].thread
    OBVIOUS
  <2>2. ref # NoRef => Entry(m, ref, "thread", i)'
    BY <1>13, <1>14, <2>1 DEF OwnThread
  <2> QED  BY <1>9, <1>14, <2>1, <2>2 DEF OwnThread, ModOf
<1>15. \A i \in callbacks' : ModOf(i)' = m => OwnRefs(i)'
  <2>1. ASSUME NEW i \in callbacks, ModOf(i) = m PROVE OwnRefs(i)'
    <3>1. i \in DOMAIN data /\ OwnRefs(i)
      BY <2>1 DEF IInv, TypeOK, ModRefsGood
    <3>2. PICK ref : ref = data[i].function
      OBVIOUS
    <3>3. Entry(m, ref, "function", i)'
      BY <1>13, <2>1, <3>1, <3>2 DEF OwnRefs
    <3>4. i \notin cancelled => OwnThread(i)'
      BY <1>12, <1>14, <2>1, <3>1 DEF OwnRefs
    <3> QED  BY <1>9, <2>1, <3>2, <3>3, <3>4 DEF OwnRefs, ModOf
  <2> QED  BY <1>9, <2>1 DEF ModOf
<1>16. OwnHooks(m)'
  <2>1. id # 0
    BY <1>12 DEF IInv, TypeOK
  <2>2. \A h \in hooks[m] : /\ Entry(m, h.function, "function", 0)'
                            /\ h.thread # NoRef => Entry(m, h.thread, "thread", 0)'
    BY <1>13, <2>1 DEF ModRefsGood, OwnHooks
  <2> QED  BY <1>9, <2>2 DEF ModRefsGood, OwnHooks
<1>17. \A k \in DOMAIN stack' : Accounted(m, stack[k])'
  <2>1. \A i : Known(m, i) => Known(m, i)'
    BY <1>9 DEF Known, ModOf
  <2>2. Accounted(m, stack[n])'
    BY <1>1, <1>3, <1>6, <1>7, <1>9, <2>1 DEF Accounted, ModOf
  <2>3. ASSUME NEW k \in DOMAIN stack, k # n PROVE Accounted(m, stack[k])'
    BY <1>7, <1>9, <2>1, <2>3 DEF ModRefsGood, Accounted, ModOf
  <2> QED  BY <1>7, <2>2, <2>3
<1>18. OwnReleases(m)'
  <2> DEFINE Was(k, i) == IF k = n THEN i + 1 ELSE i
  <2>1. \A k \in DOMAIN stack : \A i \in DOMAIN stack'[k].release :
          /\ Was(k, i) \in DOMAIN stack[k].release
          /\ stack'[k].release[i] = stack[k].release[Was(k, i)]
          /\ k = n => i \in Nat /\ i # 0
    <3>1. \A k \in DOMAIN stack : k # n => stack'[k].release = stack[k].release
      BY <1>7
    <3>2. \A i \in DOMAIN stack'[n].release :
            /\ i \in Nat /\ i # 0 /\ i + 1 \in DOMAIN stack[n].release
            /\ stack'[n].release[i] = stack[n].release[i + 1]
      <4>1. stack'[n].release = f.release /\ stack[n].release = Top.release
        BY <1>3, <1>7
      <4>2. \A i \in 1..(w - 1) : i \in Nat /\ i # 0 /\ i + 1 \in 1..w
        OBVIOUS
      <4> QED  BY <1>4, <1>6, <4>1, <4>2
    <3> QED  BY <3>1, <3>2
  <2> HIDE DEF Was
  <2> SUFFICES ASSUME NEW k \in DOMAIN stack, NEW i \in DOMAIN stack'[k].release,
                      NEW r, r = stack'[k].release[i], ModOf(r) = m
               PROVE  /\ r \in cancelled /\ OwnThread(r)'
                      /\ \A l \in DOMAIN stack : \A j \in DOMAIN stack'[l].release :
                           stack'[l].release[j] = r => l = k /\ j = i
    BY <1>7, <1>9 DEF OwnReleases, ModOf
  <2>2. /\ Was(k, i) \in DOMAIN stack[k].release /\ r = stack[k].release[Was(k, i)]
        /\ k = n => i \in Nat /\ i # 0
    BY <2>1
  <2>3. /\ r \in DOMAIN data /\ r \in cancelled /\ OwnThread(r)
        /\ \A l \in DOMAIN stack : \A j \in DOMAIN stack[l].release :
             stack[l].release[j] = r => l = k /\ j = Was(k, i)
    BY <1>10, <2>2
  <2>4. r # id
    <3>1. r = id => k = n /\ Was(k, i) = 1
      BY <1>3, <1>11, <2>3
    <3> QED  BY <2>2, <3>1 DEF Was
  <2>5. ASSUME NEW l \in DOMAIN stack, NEW j \in DOMAIN stack'[l].release, stack'[l].release[j] = r
        PROVE  l = k /\ j = i
    <3>1. l = k /\ Was(l, j) = Was(k, i) /\ (l = n => j \in Nat)
      BY <2>1, <2>3, <2>5
    <3> QED  BY <2>2, <3>1 DEF Was
  <2> QED  BY <1>14, <2>3, <2>4, <2>5
<1> QED  BY <1>13, <1>15, <1>16, <1>17, <1>18 DEF ModRefsGood

-----------------------------------------------------------------------------
(* RefsGood: an uninstall and every other step.                             *)

LEMMA RestartRefs ==
  ASSUME IInv, NEW m \in Mods, Restart(m), NEW n \in Mods, n = m \/ ModRefsGood(n)
  PROVE  ModRefsGood(n)'
<1>1. registry \in [Mods -> Registry] /\ hooks \in [Mods -> SUBSET HookRefs]
  BY DEF IInv, TypeOK
<1>2. PICK r : r = [cells |-> <<>>, free |-> 0]
  OBVIOUS
<1>3. /\ stack = <<>> /\ callbacks' = {id \in callbacks : ModOf(id) # m}
      /\ registry' = [registry EXCEPT ![m] = r] /\ hooks' = [hooks EXCEPT ![m] = {}]
      /\ UNCHANGED <<data, stack, cancelled>>
  BY <1>2 DEF Restart
<1>4. CASE n = m
  <2>1. registry'[n] = r /\ hooks'[n] = {}
    BY <1>1, <1>3, <1>4
  <2>2. FreeListGood(registry'[n])
    BY <1>2, <2>1 DEF FreeListGood
  <2>3. \A id \in callbacks' : ModOf(id)' # n
    BY <1>3, <1>4 DEF ModOf
  <2> QED  BY <1>3, <2>1, <2>2, <2>3 DEF ModRefsGood, OwnHooks, OwnReleases
<1>5. CASE n # m
  <2>1. registry'[n] = registry[n] /\ hooks'[n] = hooks[n]
    BY <1>1, <1>3, <1>5
  <2>2. Quiet(n)
    BY <1>3 DEF Quiet
  <2>3. ModRefsGood(n)
    BY <1>5
  <2>4. \A id \in callbacks : id \in callbacks' \/ id \in cancelled \/ ModOf(id) # n
    BY <1>3, <1>5
  <2> QED  BY <1>3, <2>1, <2>2, <2>3, <2>4, QuietRefs
<1> QED  BY <1>4, <1>5

LEMMA InitRefs == Init => RefsGood
<1> SUFFICES ASSUME Init PROVE RefsGood
  OBVIOUS
<1>1. PICK r : r = [cells |-> <<>>, free |-> 0]
  OBVIOUS
<1>2. /\ callbacks = {} /\ stack = <<>> /\ cancelled = {}
      /\ \A m \in Mods : registry[m] = r /\ hooks[m] = {}
  BY <1>1 DEF Init
<1>3. FreeListGood(r)
  BY <1>1 DEF FreeListGood
<1> QED  BY <1>2, <1>3 DEF RefsGood, ModRefsGood, OwnHooks, OwnReleases

LEMMA CancelledKnown ==
  ASSUME IInv, RefsGood, [Next]_vars PROVE cancelled' \subseteq DOMAIN data'
<1>1. cancelled \subseteq DOMAIN data
  BY DEF RefsGood
<1>2. CASE data' = data
  <2>1. CASE cancelled' = cancelled
    BY <1>1, <1>2, <2>1
  <2>2. ASSUME NEW b \in BOOLEAN, ReturnDirect(b) \/ ReturnInBatch(b)
        PROVE  cancelled' \subseteq DOMAIN data'
    <3>1. Top.now.id \in DOMAIN data
      BY <2>2, TopShape DEF ReturnDirect, ReturnInBatch, At
    <3> QED  BY <1>1, <1>2, <2>2, <3>1 DEF ReturnDirect, ReturnInBatch
  <2>3. cancelled' = cancelled \/ \E b \in BOOLEAN : ReturnDirect(b) \/ ReturnInBatch(b)
    BY DEF Next, vars, ModStep, ObjectStep, DirectStep, BatchStep, history, NotifyOnNewObject,
           NotifyRefused, get_hook_lua, RegisterHook, UnregisterHook, Collect, Restart,
           QueueNotifications, EnterDirect, TakeWeakPointer, Destroy, Climb, EndDirect,
           NextDirect, EndLevel, ThrowDirect, TakeBatch, NextInBatch, ThrowInBatch, CallsDone,
           ReleaseNext, EndBatch, SkipCall, Call
  <2> QED  BY <2>1, <2>2, <2>3
<1>3. CASE data' # data
  <2>1. \E m \in Mods, c \in Classes : NotifyOnNewObject(m, c)
    BY <1>3 DEF Next, vars, ModStep, ObjectStep, DirectStep, BatchStep, regVars,
           NotifyRefused, get_hook_lua, RegisterHook, UnregisterHook, Collect, Restart,
           QueueNotifications, EnterDirect, TakeWeakPointer, Destroy, Climb, EndDirect,
           NextDirect, EndLevel, ThrowDirect, TakeBatch, NextInBatch, ThrowInBatch, CallsDone,
           ReleaseNext, EndBatch, SkipCall, Call, ReturnDirect, ReturnInBatch
  <2>2. data \in Seq(Data)
    BY DEF IInv, TypeOK
  <2>3. PICK d : data' = Append(data, d)
    BY <2>1 DEF NotifyOnNewObject
  <2>4. cancelled' = cancelled /\ DOMAIN data \subseteq DOMAIN data'
    BY <2>1, <2>2, <2>3 DEF NotifyOnNewObject, history
  <2> QED  BY <1>1, <2>4
<1> QED  BY <1>2, <1>3

LEMMA NextRefs == IInv /\ RefsGood /\ [Next]_vars => RefsGood'
<1> SUFFICES ASSUME IInv, RefsGood, [Next]_vars, NEW m \in Mods \ spoiled'
             PROVE  ModRefsGood(m)'
  BY CancelledKnown DEF RefsGood
<1>1. CASE m \in spoiled
  <2>1. ~ UNCHANGED spoiled
    BY <1>1
  <2>2. \/ \E n \in Mods : Restart(n)
        \/ \E b \in BOOLEAN : ReturnDirect(b) \/ ReturnInBatch(b)
    BY <2>1 DEF Next, vars, ModStep, ObjectStep, DirectStep, BatchStep, hookVars,
           NotifyOnNewObject,
           NotifyRefused, get_hook_lua, RegisterHook, UnregisterHook, Collect,
           QueueNotifications, EnterDirect, TakeWeakPointer, Destroy, Climb, EndDirect,
           NextDirect, EndLevel, ThrowDirect, TakeBatch, NextInBatch, ThrowInBatch, CallsDone,
           ReleaseNext, EndBatch, SkipCall, Call
  <2>3. ASSUME NEW n \in Mods, Restart(n) PROVE ModRefsGood(m)'
    <3>1. n = m
      BY <1>1, <2>3 DEF Restart
    <3> QED  BY <2>3, <3>1, RestartRefs
  <2>4. ASSUME NEW b \in BOOLEAN, ReturnDirect(b) \/ ReturnInBatch(b) PROVE FALSE
    BY <1>1, <2>4 DEF ReturnDirect, ReturnInBatch, Again
  <2> QED  BY <2>2, <2>3, <2>4
<1>2. CASE ModRefsGood(m)
  <2>1. ASSUME NEW n \in Mods, ModStep(n) PROVE ModRefsGood(m)'
    <3>1. CASE Collect(n)
      BY <1>2, <3>1, SameRefs DEF Collect, regVars, history
    <3>2. CASE Restart(n)
      BY <1>2, <3>2, RestartRefs
    <3> QED  BY <1>2, <2>1, <3>1, <3>2, NotifyRefs, HookTakesRefs, UnregisterRefs DEF ModStep
  <2>2. ASSUME NEW s \in Slots, ObjectStep(s) PROVE ModRefsGood(m)'
    <3>1. CASE \E c \in Classes : EnterDirect(s, c)
      BY <1>2, <3>1, EnterRefs
    <3>2. CASE ~\E c \in Classes : EnterDirect(s, c)
      <4>1. UNCHANGED <<data, callbacks, cancelled, registry, hooks, stack>>
        BY <2>2, <3>2 DEF ObjectStep, QueueNotifications, TakeWeakPointer, Destroy, regVars,
                          hookVars, history
      <4> QED  BY <1>2, <4>1, SameRefs
    <3> QED  BY <3>1, <3>2
  <2>3. CASE DirectStep
    <3>1. CASE NextDirect
      <4>1. PICK e \in Top.todo : SkipCall(e) \/ Call(e, e.object)
        BY <3>1 DEF NextDirect, First
      <4> QED  BY <1>2, <3>1, <4>1, SkipOrCallRefs DEF NextDirect, At
    <3> QED  BY <1>2, <2>3, <3>1, ClimbRefs, EndRefs, EndLevelRefs, ReturnDirectRefs DEF DirectStep
  <2>4. CASE BatchStep
    <3>1. CASE NextInBatch
      <4>1. PICK e \in Top.todo : SkipCall(e) \/ Call(e, Occupant(e))
        BY <3>1 DEF NextInBatch
      <4> QED  BY <1>2, <3>1, <4>1, SkipOrCallRefs DEF NextInBatch, At
    <3> QED  BY <1>2, <2>4, <3>1, EnterRefs, BackOrReleaseRefs, ReleaseNextRefs, EndRefs,
                ReturnInBatchRefs DEF BatchStep
  <2>5. CASE UNCHANGED vars
    BY <1>2, <2>5, SameRefs DEF vars, regVars, hookVars, history
  <2> QED  BY <2>1, <2>2, <2>3, <2>4, <2>5 DEF Next
<1> QED  BY <1>1, <1>2 DEF RefsGood

-----------------------------------------------------------------------------
(* What a callback is given: the object its notification was resolved to, or *)
(* one that was built later at the same address.                            *)

GivenTo(k) ==
  stack[k].pc = "inside" =>
    /\ stack[k].now.object <= made
    /\ \/ Promised(stack[k], stack[k].now)
       \/ stack[k].kind = "batch" /\ BuiltOver(stack[k].now.object, stack[k].now.for)
GivenGood == AddressGood /\ \A k \in DOMAIN stack : GivenTo(k)

(* The callbacks that run afterwards ran before.                            *)
NoCall ==
  \A k \in DOMAIN stack' : stack'[k].pc = "inside" =>
    /\ k \in DOMAIN stack /\ stack[k].pc = "inside"
    /\ stack'[k].now = stack[k].now /\ stack'[k].kind = stack[k].kind

LEMMA NowFacts ==
  ASSUME IInv, NEW k \in DOMAIN stack, stack[k].pc = "inside"
  PROVE  /\ stack[k].now.object \in Objects /\ stack[k].now.for \in Objects
         /\ stack[k].now.for <= made
<1>1. Shape(stack[k]) /\ Fresh(k)
  BY DEF IInv, FramesGood
<1>2. stack[k].now \in Exec
  BY <1>1 DEF Shape
<1> QED  BY <1>1, <1>2 DEF Exec, Fresh

LEMMA GivenStays ==
  ASSUME IInv, GivenGood, NoCall, AddressGood', made' \in Nat, made <= made',
         \A o \in Objects : o <= made => address'[o] = address[o]
  PROVE  GivenGood'
<1>1. ASSUME NEW k \in DOMAIN stack', stack'[k].pc = "inside"
      PROVE  /\ stack'[k].now.object <= made'
             /\ \/ Promised(stack'[k], stack'[k].now)
                \/ /\ stack'[k].kind = "batch"
                   /\ stack'[k].now.object > stack'[k].now.for
                   /\ address'[stack'[k].now.object] = address'[stack'[k].now.for]
  <2>1. /\ k \in DOMAIN stack /\ stack[k].pc = "inside"
        /\ stack'[k].now = stack[k].now /\ stack'[k].kind = stack[k].kind
    BY <1>1 DEF NoCall
  <2>2. PICK e : e = stack[k].now
    OBVIOUS
  <2>3. /\ e.object <= made
        /\ \/ Promised(stack[k], e)
           \/ stack[k].kind = "batch" /\ BuiltOver(e.object, e.for)
    BY <2>1, <2>2 DEF GivenGood, GivenTo
  <2>4. e.object \in Objects /\ e.for \in Objects /\ e.for <= made
    BY <2>1, <2>2, NowFacts
  <2>5. made \in Nat /\ e.object \in Nat
    BY <2>4 DEF IInv, TypeOK, Objects
  <2>6. e.object <= made'
    BY <2>3, <2>5
  <2>7. address'[e.object] = address[e.object] /\ address'[e.for] = address[e.for]
    BY <2>3, <2>4
  <2> QED  BY <2>1, <2>2, <2>3, <2>6, <2>7 DEF Promised, BuiltOver
<1>2. ASSUME NEW k \in DOMAIN stack' PROVE GivenTo(k)'
  BY <1>1, <1>2 DEF GivenTo, BuiltOver
<1> QED  BY <1>2 DEF GivenGood

(* What lives afterwards lived before, and the addresses are the same.      *)
LEMMA AddressStays ==
  ASSUME AddressGood, UNCHANGED <<made, address>>, Living' \subseteq Living
  PROVE  AddressGood'
BY DEF AddressGood

LEMMA MakeAddress ==
  ASSUME IInv, AddressGood, NEW s \in Slots, NEW c \in Classes, NEW weak \in BOOLEAN,
         Make(s, c, weak), UNCHANGED <<data, called>>
  PROVE  /\ AddressGood' /\ made' \in Nat /\ made <= made'
         /\ \A o \in Objects : o <= made => address'[o] = address[o]
<1>1. /\ made' = made + 1 /\ made \in Nat /\ made + 1 \in Objects
      /\ slots' \in [Slots -> Item] /\ slots'[s].object = made + 1
      /\ \A t \in Slots : t # s => slots'[t] = slots[t]
  BY MakeFacts
<1>2. address \in [Objects -> Objects \cup {None}] /\ 1..made \subseteq Objects
      /\ 1..made' = (1..made) \cup {made + 1}
  <2>1. made \in 0..MaxObjects /\ MaxObjects \in Nat
    BY BoundsAssumption DEF IInv, TypeOK
  <2> QED  BY <1>1, <2>1 DEF IInv, TypeOK, Objects
<1>3. PICK a \in Vacant \cup {made + 1} : address' = [address EXCEPT ![made + 1] = a]
  BY DEF Make
<1>4. address'[made + 1] = a /\ \A o \in Objects : o # made + 1 => address'[o] = address[o]
  BY <1>1, <1>2, <1>3
<1>5. \A o \in Objects : o <= made => address'[o] = address[o]
  BY <1>1, <1>4
<1>6. \A p \in Living : p \in 1..made
  <2>1. \A t \in Slots : ~Free(t) => slots[t].object \in 1..made
    BY LivingFacts, ItemFacts DEF Objects
  <2> QED  BY <2>1 DEF Living
<1>7. \A p \in Living' : p \in Living \/ p = made + 1
  <2>1. \A t \in Slots : ~Free(t)' => slots'[t].object = made + 1 \/ ~Free(t)
    BY <1>1 DEF Free
  <2>2. \A t \in Slots : ~Free(t)' => slots'[t].object = made + 1 \/ slots'[t].object \in Living
    BY <1>1, <2>1 DEF Living
  <2> QED  BY <2>2 DEF Living
<1>8. a \in 1..(made + 1) /\ \A p \in Living : address[p] # a
  <2>1. \A o \in 1..made : address[o] \in 1..made
    BY DEF AddressGood
  <2>2. CASE a \in Vacant
    BY <1>1, <2>1, <2>2 DEF Vacant
  <2>3. CASE a = made + 1
    BY <1>1, <1>6, <2>1, <2>3
  <2> QED  BY <2>2, <2>3
<1>9. \A o \in 1..made' : address'[o] \in 1..made'
  BY <1>1, <1>2, <1>4, <1>8 DEF AddressGood
<1>10. ASSUME NEW p \in Living', NEW o \in 1..made', o > p PROVE address'[o] # address'[p]
  <2>1. p \in Living /\ p \in 1..made
    BY <1>1, <1>2, <1>6, <1>7, <1>10
  <2>2. p \in Objects /\ address'[p] = address[p]
    BY <1>1, <1>2, <1>5, <2>1
  <2>3. CASE o = made + 1
    BY <1>4, <1>8, <2>1, <2>2, <2>3
  <2>4. CASE o # made + 1
    <3>1. o \in 1..made /\ o \in Objects /\ address'[o] = address[o]
      BY <1>2, <1>4, <2>4
    <3> QED  BY <1>10, <2>1, <2>2, <3>1 DEF AddressGood
  <2> QED  BY <2>3, <2>4
<1> QED  BY <1>1, <1>5, <1>9, <1>10 DEF AddressGood

(* A call gives what is at the entry's address.                             *)
LEMMA CallGives ==
  ASSUME IInv, GivenGood, stack # <<>>, Top.pc = "next", NEW e \in Top.todo,
         NEW object \in Objects, Call(e, object), object <= made,
         Top.kind = "direct" \/ e.serial # 0 =>
           object = e.for \/ (Top.kind = "batch" /\ BuiltOver(object, e.for))
  PROVE  GivenGood'
<1>1. PICK g : g = [e EXCEPT !.object = object]
  OBVIOUS
<1>2. PICK f : f = [Top EXCEPT !.pc = "inside", !.todo = @ \ {e}, !.now = g,
                               !.position = Position(e.id), !.moved = FALSE]
  OBVIOUS
<1>3. Top \in Frame /\ Shape(Top) /\ Top = stack[Len(stack)]
  BY StackFacts
<1>4. e \in Exec /\ e.object \in Objects
  BY TopTodo
<1>5. g \in Exec /\ g.serial = e.serial /\ g.for = e.for /\ g.object = object
  BY <1>1, <1>4 DEF Exec
<1>6. f \in Frame /\ f.kind = Top.kind /\ f.pc = "inside" /\ f.now = g
  BY <1>2, <1>3, <1>5, PositionIsNat DEF Frame
<1>7. SetTop(f)
  BY <1>1, <1>2 DEF Call
<1>8. PICK n : n = Len(stack)
  OBVIOUS
<1>9. /\ n \in DOMAIN stack /\ DOMAIN stack' = DOMAIN stack /\ stack'[n] = f
      /\ \A k \in DOMAIN stack : k # n => stack'[k] = stack[k]
  BY <1>6, <1>7, <1>8, StackFacts, TopSetFacts DEF SetTop
<1>10. UNCHANGED <<slots, made, address>>
  BY DEF Call, engineVars
<1>12. \/ Promised(f, g)
       \/ f.kind = "batch" /\ BuiltOver(g.object, g.for)
  BY <1>5, <1>6 DEF Promised
<1>13. ASSUME NEW k \in DOMAIN stack' PROVE GivenTo(k)'
  <2>1. CASE k = n
    BY <1>5, <1>6, <1>9, <1>10, <1>12, <2>1 DEF GivenTo, BuiltOver
  <2>2. CASE k # n
    BY <1>9, <1>10, <1>13, <2>2 DEF GivenGood, GivenTo, BuiltOver
  <2> QED  BY <2>1, <2>2
<1>14. AddressGood'
  BY <1>10 DEF GivenGood, AddressGood, Living, Free
<1> QED  BY <1>13, <1>14 DEF GivenGood

LEMMA TopNoCall ==
  ASSUME IInv, stack # <<>>, NEW f \in Frame, SetTop(f), f.kind = Top.kind,
         f.pc = "inside" => Top.pc = "inside" /\ f.now = Top.now
  PROVE  NoCall
<1>1. PICK n : n = Len(stack)
  OBVIOUS
<1>2. /\ n \in DOMAIN stack /\ DOMAIN stack' = DOMAIN stack /\ stack'[n] = f
      /\ \A k \in DOMAIN stack : k # n => stack'[k] = stack[k]
      /\ Top = stack[n]
  BY <1>1, StackFacts, TopSetFacts DEF SetTop
<1>3. ASSUME NEW k \in DOMAIN stack', stack'[k].pc = "inside"
      PROVE  /\ k \in DOMAIN stack /\ stack[k].pc = "inside"
             /\ stack'[k].now = stack[k].now /\ stack'[k].kind = stack[k].kind
  BY <1>2, <1>3
<1> QED  BY <1>3 DEF NoCall

LEMMA PushNoCall ==
  ASSUME IInv, NEW f \in Frame, stack' = Append(stack, f), f.pc # "inside"
  PROVE  NoCall
<1>1. stack \in Seq(Frame)
  BY DEF IInv, TypeOK
<1>2. PICK n : n = Len(stack) + 1
  OBVIOUS
<1>3. /\ DOMAIN stack' = DOMAIN stack \cup {n} /\ stack'[n] = f
      /\ \A k \in DOMAIN stack : k # n /\ stack'[k] = stack[k]
  BY <1>1, <1>2
<1> QED  BY <1>3 DEF NoCall

LEMMA PopNoCall == ASSUME IInv, stack # <<>>, stack' = Outside PROVE NoCall
<1>1. stack \in Seq(Frame)
  BY DEF IInv, TypeOK
<1>2. \A k \in DOMAIN stack' : k \in DOMAIN stack /\ stack'[k] = stack[k]
  BY <1>1, PoppedFacts DEF Outside
<1> QED  BY <1>2 DEF NoCall

LEMMA SameNoCall == ASSUME stack' = stack PROVE NoCall
BY DEF NoCall

LEMMA SkipIsNoCall ==
  ASSUME IInv, stack # <<>>, Top.pc = "next", NEW e \in Top.todo, SkipCall(e)
  PROVE  NoCall
<1>1. PICK f : f = [Top EXCEPT !.todo = @ \ {e}]
  OBVIOUS
<1>2. Top \in Frame
  BY StackFacts
<1>3. f \in Frame /\ f.kind = Top.kind /\ f.pc = Top.pc
  BY <1>1, <1>2 DEF Frame
<1>4. SetTop(f)
  BY <1>1 DEF SkipCall
<1> QED  BY <1>3, <1>4, TopNoCall

LEMMA NextInBatchGives == ASSUME IInv, GivenGood, NextInBatch PROVE GivenGood' \/ NoCall
<1>1. stack # <<>> /\ Top.pc = "next" /\ Top.kind = "batch"
  BY DEF NextInBatch, At
<1>2. PICK e \in Top.todo : IF StillAt(e) THEN Call(e, Occupant(e)) ELSE SkipCall(e)
  BY DEF NextInBatch
<1>3. e.slot \in Slots /\ e.object \in Objects
  BY <1>1, TopTodo
<1>4. CASE StillAt(e)
  <2>1. Occupant(e) \in Objects /\ Occupant(e) \in Living /\ Occupant(e) <= made /\ made \in Nat
    BY <1>3, <1>4, LivingFacts, ItemFacts DEF StillAt, Occupant
  <2>2. address[Occupant(e)] = address[e.object]
    BY <1>4 DEF StillAt
  <2>3. ASSUME e.serial # 0 PROVE Occupant(e) = e.for \/ Occupant(e) > e.for
    <3>1. Shape(Top) /\ Fresh(Len(stack)) /\ Top = stack[Len(stack)]
      BY <1>1, StackFacts
    <3>2. e.object = e.for /\ e.for <= made
      BY <2>3, <3>1 DEF Shape, Promised, Fresh
    <3>3. e.for \in 1..made /\ Occupant(e) \in Nat
      BY <1>3, <2>1, <3>2 DEF Objects
    <3>4. ~(e.for > Occupant(e))
      BY <2>1, <2>2, <3>2, <3>3 DEF GivenGood, AddressGood
    <3> QED  BY <3>3, <3>4
  <2>4. e.serial # 0 => e.object = e.for
    BY <1>1, StackFacts DEF Shape, Promised
  <2> QED  BY <1>1, <1>2, <1>4, <2>1, <2>2, <2>3, <2>4, CallGives DEF BuiltOver
<1>5. CASE ~StillAt(e)
  BY <1>1, <1>2, <1>5, SkipIsNoCall
<1> QED  BY <1>4, <1>5

LEMMA NextDirectGives == ASSUME IInv, GivenGood, NextDirect PROVE GivenGood' \/ NoCall
<1>1. stack # <<>> /\ Top.pc = "next" /\ Top.kind = "direct"
  BY DEF NextDirect, At
<1>2. PICK e \in Top.todo : IF e.id \in callbacks THEN Call(e, e.object) ELSE SkipCall(e)
  BY DEF NextDirect, First
<1>3. CASE e.id \in callbacks
  <2>1. e.object \in Objects
    BY <1>1, TopTodo
  <2>2. Shape(Top) /\ Fresh(Len(stack)) /\ Top = stack[Len(stack)]
    BY <1>1, StackFacts
  <2>3. e.object <= made /\ e.object = e.for
    BY <1>1, <2>2 DEF Shape, Promised, Fresh
  <2> QED  BY <1>1, <1>2, <1>3, <2>1, <2>3, CallGives
<1>4. CASE e.id \notin callbacks
  BY <1>1, <1>2, <1>4, SkipIsNoCall
<1> QED  BY <1>3, <1>4

(* Steps that call nothing and leave the objects alone.                     *)
LEMMA TopStepsNoCall ==
  ASSUME IInv,
         Climb \/ EndLevel \/ CallsDone \/ ReleaseNext \/ ThrowInBatch
         \/ \E b \in BOOLEAN : ReturnDirect(b) \/ ReturnInBatch(b)
  PROVE  NoCall
<1>1. stack # <<>>
  BY DEF Climb, EndLevel, CallsDone, ReleaseNext, ThrowInBatch, ReturnDirect, ReturnInBatch, At
<1>2. Top \in Frame /\ Shape(Top)
  BY <1>1, StackFacts
<1>3. CASE Climb
  <2>1. PICK f : f = [Top EXCEPT !.pc = "next", !.remove = {},
                        !.todo = {ForObject(Top, id) : id \in Matching({Head(Top.chain)})}]
    OBVIOUS
  <2>2. {ForObject(Top, id) : id \in Matching({Head(Top.chain)})} \subseteq Exec
    <3>1. Top.slot \in Slots /\ Top.object \in Objects
      BY <1>2, <1>3 DEF Climb, At, Shape
    <3>2. Matching({Head(Top.chain)}) \subseteq Ids
      BY DomainIds DEF Matching
    <3> QED  BY <3>1, <3>2 DEF ForObject, Exec
  <2>3. f \in Frame /\ f.kind = Top.kind /\ f.pc = "next"
    BY <1>2, <2>1, <2>2 DEF Frame
  <2> QED  BY <1>1, <1>3, <2>1, <2>3, TopNoCall DEF Climb
<1>4. CASE EndLevel
  <2>1. PICK f : f = [Top EXCEPT !.pc = "climb", !.chain = Tail(@)]
    OBVIOUS
  <2>2. Top.chain \in Seq(Classes) /\ Top.chain # <<>>
    BY <1>2, <1>4 DEF EndLevel, At, Shape, Frame
  <2>3. Tail(Top.chain) \in Seq(Classes)
    BY <2>2
  <2>4. f \in Frame /\ f.kind = Top.kind /\ f.pc = "climb"
    BY <1>2, <2>1, <2>3 DEF Frame
  <2> QED  BY <1>1, <1>4, <2>1, <2>4, TopNoCall DEF EndLevel
<1>5. CASE CallsDone
  <2>1. PICK f : f = [Top EXCEPT !.pc = "release"]
    OBVIOUS
  <2>2. f \in Frame /\ f.kind = Top.kind /\ f.pc = "release"
    BY <1>2, <2>1 DEF Frame
  <2> QED  BY <1>1, <1>5, <2>1, <2>2, TopNoCall DEF CallsDone
<1>6. CASE ReleaseNext
  <2>1. PICK f : f = [Top EXCEPT !.release = Tail(@)]
    OBVIOUS
  <2>2. Top.release \in Seq(Ids) /\ Top.release # <<>> /\ Top.pc = "release"
    BY <1>2, <1>6 DEF ReleaseNext, At, Frame
  <2>3. Tail(Top.release) \in Seq(Ids)
    BY <2>2
  <2>4. f \in Frame /\ f.kind = Top.kind /\ f.pc = "release"
    BY <1>2, <2>1, <2>2, <2>3 DEF Frame
  <2> QED  BY <1>1, <1>6, <2>1, <2>4, TopNoCall DEF ReleaseNext
<1>7. ASSUME NEW f, NEW d \in SUBSET Ids, NEW l \in Seq(Ids), Top.pc = "inside",
             f = BackWith(d, l), SetTop(f)
      PROVE  NoCall
  <2>1. f \in Frame /\ f.kind = Top.kind /\ f.pc = "next"
    BY <1>1, <1>7, BackFacts
  <2> QED  BY <1>1, <1>7, <2>1, TopNoCall
<1>8. /\ Top.remove \in SUBSET Ids /\ Top.release \in Seq(Ids)
      /\ Back = BackWith(Top.remove, Top.release)
      /\ Back.remove = Top.remove /\ Back.release = Top.release
      /\ Top.pc = "inside" => Top.now.id \in Ids
  BY <1>1, TopShape
<1>9. CASE ThrowInBatch
  BY <1>7, <1>8, <1>9 DEF ThrowInBatch, At
<1>10. ASSUME NEW b \in BOOLEAN, ReturnInBatch(b) PROVE NoCall
  <2>1. Top.pc = "inside"
    BY <1>10 DEF ReturnInBatch, At
  <2>2. PICK d : d = Top.remove \cup {Top.now.id}
    OBVIOUS
  <2>3. PICK l : l = Append(Top.release, Top.now.id)
    OBVIOUS
  <2>4. d \in SUBSET Ids /\ l \in Seq(Ids)
    BY <1>8, <2>1, <2>2, <2>3
  <2>5. CASE b
    <3>1. SetTop([Back EXCEPT !.remove = @ \cup {Top.now.id},
                              !.release = Append(@, Top.now.id)])
      BY <1>10, <2>5 DEF ReturnInBatch
    <3>2. [Back EXCEPT !.remove = @ \cup {Top.now.id},
                       !.release = Append(@, Top.now.id)] = BackWith(d, l)
      BY <1>8, <2>2, <2>3 DEF BackWith
    <3> QED  BY <1>7, <2>1, <2>4, <3>1, <3>2
  <2>6. CASE ~b
    BY <1>7, <1>8, <1>10, <2>1, <2>6 DEF ReturnInBatch
  <2> QED  BY <2>5, <2>6
<1>11. ASSUME NEW b \in BOOLEAN, ReturnDirect(b) PROVE NoCall
  <2>1. Top.pc = "inside"
    BY <1>11 DEF ReturnDirect, At
  <2>2. PICK cancel \in ReadsTrue(b) :
          SetTop([Back EXCEPT !.remove = IF cancel THEN @ \cup {Top.now.id} ELSE @])
    BY <1>11 DEF ReturnDirect
  <2>3. PICK d : d = IF cancel THEN Top.remove \cup {Top.now.id} ELSE Top.remove
    OBVIOUS
  <2>4. d \in SUBSET Ids
    BY <1>8, <2>1, <2>3
  <2>5. [Back EXCEPT !.remove = IF cancel THEN @ \cup {Top.now.id} ELSE @]
          = BackWith(d, Top.release)
    <3>1. Back \in Frame
      BY <1>2 DEF Back, Frame
    <3> QED  BY <1>8, <2>3, <3>1 DEF BackWith, Frame
  <2> QED  BY <1>7, <1>8, <2>1, <2>2, <2>4, <2>5
<1> QED  BY <1>3, <1>4, <1>5, <1>6, <1>9, <1>10, <1>11

LEMMA EnterNoCall ==
  ASSUME IInv, TakeBatch \/ \E s \in Slots, c \in Classes : EnterDirect(s, c)
  PROVE  NoCall
<1>1. stack' \in Seq(Frame)
  <2>1. IInv'
    BY EnterDirectKeeps, TakeBatchKeeps
  <2> QED  BY <2>1 DEF IInv, TypeOK
<1>2. ASSUME NEW f, stack' = Append(stack, f), f.pc # "inside" PROVE NoCall
  <2>1. stack \in Seq(Frame)
    BY DEF IInv, TypeOK
  <2>2. stack'[Len(stack) + 1] = f /\ Len(stack) + 1 \in DOMAIN stack'
    BY <1>2, <2>1
  <2>3. f \in Frame
    BY <1>1, <2>2
  <2> QED  BY <1>2, <2>3, PushNoCall
<1>3. CASE TakeBatch
  <2>1. BatchFrame.pc # "inside"
    BY DEF BatchFrame
  <2> QED  BY <1>2, <1>3, <2>1 DEF TakeBatch
<1>4. ASSUME NEW s \in Slots, NEW c \in Classes, EnterDirect(s, c) PROVE NoCall
  BY <1>2, <1>4 DEF EnterDirect
<1> QED  BY <1>3, <1>4

LEMMA NotifyNoCall ==
  ASSUME IInv, NEW m \in Mods, NEW c \in Classes, NotifyOnNewObject(m, c) PROVE NoCall
<1>1. PICK moves \in BOOLEAN : stack' = Marked(stack, moves)
  BY DEF NotifyOnNewObject, Marked
<1>2. stack \in Seq(Frame)
  BY DEF IInv, TypeOK
<1>3. DOMAIN stack' = DOMAIN stack
      /\ \A k \in DOMAIN stack : stack'[k] = [stack[k] EXCEPT !.moved = @ \/ moves]
  BY <1>1, <1>2 DEF Marked
<1>4. \A k \in DOMAIN stack : stack[k] \in Frame
  BY <1>2
<1>5. \A k \in DOMAIN stack : stack'[k].pc = stack[k].pc /\ stack'[k].now = stack[k].now
                              /\ stack'[k].kind = stack[k].kind
  BY <1>3, <1>4 DEF Frame
<1> QED  BY <1>3, <1>5 DEF NoCall

(* Of every step: it gives, or it calls nothing.                            *)
LEMMA StepGives ==
  ASSUME IInv, GivenGood, [Next]_vars PROVE GivenGood' \/ NoCall
<1>1. ASSUME NEW m \in Mods, ModStep(m) PROVE NoCall
  BY <1>1, NotifyNoCall, SameNoCall
     DEF ModStep, NotifyRefused, get_hook_lua, RegisterHook, UnregisterHook, Collect, Restart
<1>2. ASSUME NEW s \in Slots, ObjectStep(s) PROVE NoCall
  BY <1>2, EnterNoCall, SameNoCall DEF ObjectStep, QueueNotifications, TakeWeakPointer, Destroy
<1>3. CASE DirectStep
  <2>1. CASE EndDirect \/ ThrowDirect
    BY <2>1, PopNoCall DEF EndDirect, ThrowDirect, At
  <2> QED  BY <1>3, <2>1, NextDirectGives, TopStepsNoCall DEF DirectStep
<1>4. CASE BatchStep
  <2>1. CASE EndBatch
    BY <2>1, PopNoCall DEF EndBatch, At
  <2> QED  BY <1>4, <2>1, NextInBatchGives, TopStepsNoCall, EnterNoCall DEF BatchStep
<1>5. CASE UNCHANGED vars
  BY <1>5, SameNoCall DEF vars
<1> QED  BY <1>1, <1>2, <1>3, <1>4, <1>5 DEF Next

LEMMA StepAddress ==
  ASSUME IInv, GivenGood, [Next]_vars
  PROVE  /\ AddressGood' /\ made' \in Nat /\ made <= made'
         /\ \A o \in Objects : o <= made => address'[o] = address[o]
<1>0. AddressGood /\ made \in Nat
  BY DEF GivenGood, IInv, TypeOK
<1>1. CASE UNCHANGED engineVars
  BY <1>0, <1>1 DEF engineVars, AddressGood, Living, Free
<1>2. ASSUME NEW s \in Slots, ObjectStep(s)
      PROVE  /\ AddressGood' /\ made' \in Nat /\ made <= made'
             /\ \A o \in Objects : o <= made => address'[o] = address[o]
  <2>1. ASSUME NEW c \in Classes, NEW weak \in BOOLEAN,
               QueueNotifications(s, c, weak) \/ EnterDirect(s, c)
        PROVE  /\ AddressGood' /\ made' \in Nat /\ made <= made'
               /\ \A o \in Objects : o <= made => address'[o] = address[o]
    <3>1. (Make(s, c, weak) \/ Make(s, c, FALSE)) /\ UNCHANGED <<data, called>>
      BY <2>1 DEF QueueNotifications, EnterDirect, regVars
    <3> QED  BY <1>0, <3>1, MakeAddress
  <2>2. CASE TakeWeakPointer(s) \/ Destroy(s)
    <3>1. UNCHANGED <<made, address>>
      BY <2>2 DEF TakeWeakPointer, Destroy
    <3>2. slots \in [Slots -> Item]
      BY DEF IInv, TypeOK
    <3>3. \A t \in Slots : ~Free(t)' => ~Free(t) /\ slots'[t].object = slots[t].object
      <4>1. CASE Destroy(s)
        BY <3>2, <4>1 DEF Destroy, Free
      <4>2. CASE TakeWeakPointer(s)
        <5>1. slots' = [slots EXCEPT ![s].serial = slots[s].object] /\ ~Free(s)
          BY <4>2 DEF TakeWeakPointer
        <5>2. slots'[s] = [slots[s] EXCEPT !.serial = slots[s].object]
              /\ \A t \in Slots : t # s => slots'[t] = slots[t]
          BY <3>2, <5>1
        <5>3. slots'[s].object = slots[s].object
          BY <3>2, <5>2 DEF Item, Empty
        <5> QED  BY <5>1, <5>2, <5>3 DEF Free
      <4> QED  BY <2>2, <4>1, <4>2
    <3>4. Living' \subseteq Living
      BY <3>3 DEF Living
    <3> QED  BY <1>0, <3>1, <3>4, AddressStays
  <2> QED  BY <1>2, <2>1, <2>2 DEF ObjectStep
<1>3. UNCHANGED engineVars \/ \E s \in Slots : ObjectStep(s)
  BY DEF Next, vars, ModStep, DirectStep, BatchStep, NotifyOnNewObject,
         NotifyRefused, get_hook_lua, RegisterHook, UnregisterHook, Collect, Restart,
         Climb, EndDirect, NextDirect, EndLevel, ThrowDirect, TakeBatch, NextInBatch,
         ThrowInBatch, CallsDone, ReleaseNext, EndBatch, SkipCall, Call, ReturnDirect,
         ReturnInBatch
<1> QED  BY <1>1, <1>2, <1>3

LEMMA NextGiven == IInv /\ GivenGood /\ [Next]_vars => GivenGood'
BY StepGives, StepAddress, GivenStays

LEMMA InitGiven == Init => GivenGood
<1> SUFFICES ASSUME Init PROVE GivenGood
  OBVIOUS
<1>1. made = 0 /\ stack = <<>> /\ 1..made = {}
  BY DEF Init
<1> QED  BY <1>1 DEF GivenGood, AddressGood

-----------------------------------------------------------------------------
(* The theorems.                                                            *)

(* The invariant: what frames and the queue are still to call was never     *)
(* called, no object is with two of them, and every reference that will be  *)
(* released exists.                                                         *)
THEOREM InvHolds == Spec => []IInv
<1> QED  BY InitInv, NextInv, PTL DEF Spec

(* NotifyOnNewObject's callbacks run once at most for a construction, for   *)
(* any class chains, any nesting of constructions and drains and any number *)
(* of registrations.                                                        *)
THEOREM OncePerConstructionHolds == Spec => []OncePerConstruction
<1>1. IInv => OncePerConstruction
  BY DEF IInv
<1> QED  BY <1>1, InvHolds, PTL

(* A promised notification is in the queue, in a batch or ahead of its      *)
(* object's frame until it is given, whichever slots are freed and reused.  *)
THEOREM NothingLostHolds == Spec => []NothingLost
<1>1. IInv => NothingLost
  BY DEF IInv
<1> QED  BY <1>1, InvHolds, PTL

(* With a serial number, or on the game thread, a notification is resolved  *)
(* to the object whose construction it was asked about, and the callback    *)
(* gets that object, or one built at its address since, whatever slots and  *)
(* addresses are used again.                                                *)
THEOREM GetsItsObjectHolds == Spec => []GetsItsObject
<1>1. IInv /\ GivenGood => GetsItsObject
  BY DEF IInv, FramesGood, Shape, GivenGood, GivenTo, GetsItsObject
<1> QED  BY <1>1, InitInv, NextInv, InitGiven, NextGiven, PTL DEF Spec

(* The free list, the references of registrations and hooks and those that  *)
(* batches have yet to give back agree, in the registry of every mod that   *)
(* no second cancellation and no moved element met.                         *)
THEOREM RefsGoodHolds == Spec => []RefsGood
<1> QED  BY InitInv, NextInv, InitRefs, NextRefs, InvHolds, PTL DEF Spec

(* The registry gives a registered callback its own function, whatever its  *)
(* mod registers, cancels and unregisters, unless a callback was cancelled  *)
(* twice or its element moved.                                              *)
THEOREM RefIsOwnHolds == Spec => []RefIsOwn
<1>1. IInv /\ RefsGood => RefIsOwn
  <2> SUFFICES ASSUME IInv, RefsGood, NEW id \in callbacks, ModOf(id) \notin spoiled
               PROVE  registry[ModOf(id)].cells[data[id].function]
                        = [kind |-> "function", value |-> id]
    BY DEF RefIsOwn
  <2>1. ModOf(id) \in Mods
    BY ModOfType DEF IInv, TypeOK
  <2> QED  BY <2>1 DEF RefsGood, ModRefsGood, OwnRefs, Entry
<1> QED  BY <1>1, RefsGoodHolds, InvHolds, PTL

=============================================================================
