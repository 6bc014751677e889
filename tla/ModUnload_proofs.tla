--------------------------- MODULE ModUnload_proofs ---------------------------
(***************************************************************************)
(* Proofs about ModUnload, for any set of mods, any nesting and any number  *)
(* of requests.  IInv is inductive; it implies the type invariant and three *)
(* safety invariants.  EntryInv, at the end, needs no wait to end in time.  *)
(***************************************************************************)
EXTENDS ModUnload, FiniteSetTheorems, TLAPS

USE DEF registry, Unlisted

-----------------------------------------------------------------------------
(* The three things a step does to the game thread's stack.                 *)

LEMMA PushFacts ==
  ASSUME NEW S, NEW s \in Seq(S), NEW f \in S, NEW t, t = Append(s, f)
  PROVE  /\ t \in Seq(S) /\ Len(t) = Len(s) + 1
         /\ DOMAIN s = 1..Len(s) /\ DOMAIN t = 1..(Len(s) + 1)
         /\ t[Len(s) + 1] = f
         /\ \A k \in DOMAIN s : t[k] = s[k]
OBVIOUS

LEMMA TopFacts ==
  ASSUME NEW S, NEW s \in Seq(S), s # <<>>, NEW f \in S, NEW t,
         t = [s EXCEPT ![Len(s)] = f]
  PROVE  /\ t \in Seq(S) /\ Len(t) = Len(s) /\ Len(s) \in 1..Len(s)
         /\ DOMAIN s = 1..Len(s) /\ DOMAIN t = DOMAIN s
         /\ s[Len(s)] \in S /\ t[Len(s)] = f
         /\ \A k \in DOMAIN s : k # Len(s) => t[k] = s[k]
OBVIOUS

LEMMA PopFacts ==
  ASSUME NEW S, NEW s \in Seq(S), s # <<>>, NEW t, t = SubSeq(s, 1, Len(s) - 1)
  PROVE  /\ t \in Seq(S) /\ Len(s) \in 1..Len(s)
         /\ DOMAIN s = 1..Len(s) /\ DOMAIN t = 1..(Len(s) - 1)
         /\ s[Len(s)] \in S
         /\ \A k \in DOMAIN t : k \in DOMAIN s /\ t[k] = s[k]
OBVIOUS

LEMMA StackDomainFinite ==
  ASSUME NEW S, NEW s \in Seq(S), NEW D \in SUBSET (DOMAIN s)
  PROVE  IsFiniteSet(D)
BY FS_Interval, FS_Subset
-----------------------------------------------------------------------------
(* Counting frames.  A step changes the stack at one index at most, so the  *)
(* number of frames of a kind changes with that frame only.                 *)

OnlyAt(s, t, i) ==
  /\ i \in Nat
  /\ \A k \in (DOMAIN s \cup DOMAIN t) \ {i} : k \in DOMAIN s /\ k \in DOMAIN t /\ t[k] = s[k]

DrainsIn(s) == {k \in DOMAIN s : InDrain(s[k])}
CountedIn(s, m) == {k \in DOMAIN s : Counted(s[k], m)}

(* Two finite sets of indices that agree outside i.                         *)
LEMMA CountAt ==
  ASSUME NEW D, IsFiniteSet(D), NEW E, IsFiniteSet(E), NEW i,
         \A k : k # i => (k \in D <=> k \in E)
  PROVE  /\ Cardinality(D) \in Nat /\ Cardinality(E) \in Nat
         /\ (i \in D <=> i \in E) => Cardinality(E) = Cardinality(D)
         /\ (i \notin D /\ i \in E) => Cardinality(E) = Cardinality(D) + 1
         /\ (i \in D /\ i \notin E) => Cardinality(E) = Cardinality(D) - 1
<1>1. Cardinality(D) \in Nat /\ Cardinality(E) \in Nat
  BY FS_CardinalityType
<1>2. ASSUME i \in D <=> i \in E PROVE Cardinality(E) = Cardinality(D)
  <2>1. D = E  BY <1>2
  <2> QED  BY <2>1
<1>3. ASSUME i \notin D, i \in E PROVE Cardinality(E) = Cardinality(D) + 1
  <2>1. E = D \cup {i}  BY <1>3
  <2> QED  BY <1>3, <2>1, FS_AddElement
<1>4. ASSUME i \in D, i \notin E PROVE Cardinality(E) = Cardinality(D) - 1
  <2>1. E = D \ {i}  BY <1>4
  <2> QED  BY <1>4, <2>1, FS_RemoveElement
<1> QED  BY <1>1, <1>2, <1>3, <1>4

LEMMA DrainCount ==
  ASSUME NEW S, NEW s \in Seq(S), NEW t \in Seq(S), NEW i, OnlyAt(s, t, i)
  PROVE  /\ Cardinality(DrainsIn(s)) \in Nat /\ Cardinality(DrainsIn(t)) \in Nat
         /\ (i \in DrainsIn(s) <=> i \in DrainsIn(t)) =>
              Cardinality(DrainsIn(t)) = Cardinality(DrainsIn(s))
         /\ (i \notin DrainsIn(s) /\ i \in DrainsIn(t)) =>
              Cardinality(DrainsIn(t)) = Cardinality(DrainsIn(s)) + 1
         /\ (i \in DrainsIn(s) /\ i \notin DrainsIn(t)) =>
              Cardinality(DrainsIn(t)) = Cardinality(DrainsIn(s)) - 1
<1>1. IsFiniteSet(DrainsIn(s)) /\ IsFiniteSet(DrainsIn(t))
  BY StackDomainFinite DEF DrainsIn
<1>2. \A k : k # i => (k \in DrainsIn(s) <=> k \in DrainsIn(t))
  BY DEF OnlyAt, DrainsIn
<1> QED  BY <1>1, <1>2, CountAt

LEMMA FlightCount ==
  ASSUME NEW S, NEW s \in Seq(S), NEW t \in Seq(S), NEW i, OnlyAt(s, t, i), NEW m
  PROVE  /\ Cardinality(CountedIn(s, m)) \in Nat /\ Cardinality(CountedIn(t, m)) \in Nat
         /\ (i \in CountedIn(s, m) <=> i \in CountedIn(t, m)) =>
              Cardinality(CountedIn(t, m)) = Cardinality(CountedIn(s, m))
         /\ (i \notin CountedIn(s, m) /\ i \in CountedIn(t, m)) =>
              Cardinality(CountedIn(t, m)) = Cardinality(CountedIn(s, m)) + 1
         /\ (i \in CountedIn(s, m) /\ i \notin CountedIn(t, m)) =>
              Cardinality(CountedIn(t, m)) = Cardinality(CountedIn(s, m)) - 1
<1>1. IsFiniteSet(CountedIn(s, m)) /\ IsFiniteSet(CountedIn(t, m))
  BY StackDomainFinite DEF CountedIn
<1>2. \A k : k # i => (k \in CountedIn(s, m) <=> k \in CountedIn(t, m))
  BY DEF OnlyAt, CountedIn
<1> QED  BY <1>1, <1>2, CountAt

-----------------------------------------------------------------------------
(* The same for the stack of the specification.                             *)

LEMMA SetTopFacts ==
  ASSUME stack \in Seq(Frame), stack # <<>>, NEW f \in Frame, SetTop(f)
  PROVE  /\ stack' \in Seq(Frame) /\ OnlyAt(stack, stack', Len(stack))
         /\ Len(stack) \in DOMAIN stack /\ Len(stack) \in DOMAIN stack'
         /\ Top \in Frame /\ Top = stack[Len(stack)] /\ stack'[Len(stack)] = f
<1> stack' = [stack EXCEPT ![Len(stack)] = f]
  BY DEF SetTop
<1> QED  BY TopFacts DEF OnlyAt, Top

LEMMA PushedFacts ==
  ASSUME stack \in Seq(Frame), NEW f \in Frame, stack' = Append(stack, f)
  PROVE  /\ stack' \in Seq(Frame) /\ OnlyAt(stack, stack', Len(stack) + 1)
         /\ Len(stack) + 1 \notin DOMAIN stack /\ Len(stack) + 1 \in DOMAIN stack'
         /\ stack'[Len(stack) + 1] = f
BY PushFacts DEF OnlyAt

LEMMA PoppedFacts ==
  ASSUME stack \in Seq(Frame), stack # <<>>, Pop
  PROVE  /\ stack' \in Seq(Frame) /\ OnlyAt(stack, stack', Len(stack))
         /\ Len(stack) \in DOMAIN stack /\ Len(stack) \notin DOMAIN stack'
         /\ Top \in Frame /\ Top = stack[Len(stack)]
<1> stack' = SubSeq(stack, 1, Len(stack) - 1)
  BY DEF Pop
<1> QED  BY PopFacts DEF OnlyAt, Top

(* How the counters follow a change at index i.  `Adds' and `Drops' say      *)
(* that the step adds a frame that is counted for m, or takes one away.     *)
LEMMA DepthFollows ==
  ASSUME stack \in Seq(Frame), stack' \in Seq(Frame), NEW i, OnlyAt(stack, stack', i),
         DepthExact
  PROVE  /\ depth \in Nat
         /\ (depth' = depth /\ (i \in DrainsIn(stack) <=> i \in DrainsIn(stack'))) =>
              DepthExact' /\ depth' \in Nat
         /\ (depth' = depth + 1 /\ i \notin DrainsIn(stack) /\ i \in DrainsIn(stack')) =>
              DepthExact' /\ depth' \in Nat
         /\ (depth' = depth - 1 /\ i \in DrainsIn(stack) /\ i \notin DrainsIn(stack')) =>
              DepthExact' /\ depth' \in Nat
<1>1. depth = Cardinality(DrainsIn(stack))
  BY DEF DepthExact, DrainsIn
<1>2. DepthExact' <=> depth' = Cardinality(DrainsIn(stack'))
  BY DEF DepthExact, DrainsIn
<1> QED  BY <1>1, <1>2, DrainCount

LEMMA InFlightFollows ==
  ASSUME stack \in Seq(Frame), stack' \in Seq(Frame), NEW i, OnlyAt(stack, stack', i),
         InFlightExact, inFlight \in [Mods -> Nat]
  PROVE  /\ (inFlight' = inFlight
             /\ \A m \in Mods : i \in CountedIn(stack, m) <=> i \in CountedIn(stack', m))
              => InFlightExact' /\ inFlight' \in [Mods -> Nat]
         /\ \A n \in Mods :
              (\A m \in Mods \ {n} : i \in CountedIn(stack, m) <=> i \in CountedIn(stack', m)) =>
              /\ (Count(n) /\ i \notin CountedIn(stack, n) /\ i \in CountedIn(stack', n))
                   => InFlightExact' /\ inFlight' \in [Mods -> Nat]
              /\ (Uncount(n) /\ i \in CountedIn(stack, n) /\ i \notin CountedIn(stack', n))
                   => InFlightExact' /\ inFlight' \in [Mods -> Nat]
<1>1. \A m \in Mods : inFlight[m] = Cardinality(CountedIn(stack, m))
  BY DEF InFlightExact, CountedIn
<1>2. InFlightExact' <=> \A m \in Mods : inFlight'[m] = Cardinality(CountedIn(stack', m))
  BY DEF InFlightExact, CountedIn
<1>3. \A m \in Mods : (i \in CountedIn(stack, m) <=> i \in CountedIn(stack', m)) =>
        Cardinality(CountedIn(stack', m)) = Cardinality(CountedIn(stack, m))
  BY FlightCount
<1>4. CASE inFlight' = inFlight
           /\ \A m \in Mods : i \in CountedIn(stack, m) <=> i \in CountedIn(stack', m)
  <2>1. \A m \in Mods : inFlight'[m] = Cardinality(CountedIn(stack', m))
    BY <1>1, <1>3, <1>4
  <2> QED  BY <1>2, <1>4, <2>1
<1>5. ASSUME NEW n \in Mods,
             \A m \in Mods \ {n} : i \in CountedIn(stack, m) <=> i \in CountedIn(stack', m)
      PROVE  /\ (Count(n) /\ i \notin CountedIn(stack, n) /\ i \in CountedIn(stack', n))
                  => InFlightExact' /\ inFlight' \in [Mods -> Nat]
             /\ (Uncount(n) /\ i \in CountedIn(stack, n) /\ i \notin CountedIn(stack', n))
                  => InFlightExact' /\ inFlight' \in [Mods -> Nat]
  <2>1. Cardinality(CountedIn(stack', n)) \in Nat /\ Cardinality(CountedIn(stack, n)) \in Nat
    BY FlightCount
  <2>2. CASE Count(n) /\ i \notin CountedIn(stack, n) /\ i \in CountedIn(stack', n)
    <3>1. Cardinality(CountedIn(stack', n)) = Cardinality(CountedIn(stack, n)) + 1
      BY <2>2, FlightCount
    <3> QED  BY <1>1, <1>2, <1>3, <1>5, <2>1, <2>2, <3>1 DEF Count
  <2>3. CASE Uncount(n) /\ i \in CountedIn(stack, n) /\ i \notin CountedIn(stack', n)
    <3>1. Cardinality(CountedIn(stack', n)) = Cardinality(CountedIn(stack, n)) - 1
      BY <2>3, FlightCount
    <3> QED  BY <1>1, <1>2, <1>3, <1>5, <2>1, <2>3, <3>1 DEF Uncount
  <2> QED  BY <2>2, <2>3
<1> QED  BY <1>4, <1>5

-----------------------------------------------------------------------------
(* A step of the game thread that changes one frame keeps the others good,  *)
(* also when a hook is registered for a mod that had none, or is freed.     *)

Frames == \A k \in DOMAIN stack : GoodFrame(stack[k])
ModStates == \A m \in Mods : ModState(m)

HookMoves ==
  /\ late \subseteq late'
  /\ \/ hook' = hook
     \/ \E m \in Mods, h \in Hook \ {"none"} :
          hook' = [hook EXCEPT ![m] = h] /\ (h = "live" => hook[m] = "none")

RegistryTyped ==
  hook' \in [Mods -> Hook] /\ listens' \in [Mods -> SUBSET Containers] /\ late' \subseteq Mods

LEMMA GameFrames ==
  ASSUME stack \in Seq(Frame), stack' \in Seq(Frame), NEW i, OnlyAt(stack, stack', i),
         hook \in [Mods -> Hook], HookMoves, UNCHANGED <<loop, life>>, Frames,
         i \in DOMAIN stack' => GoodFrame(stack'[i])
  PROVE  Frames'
<1>1. ASSUME NEW k \in DOMAIN stack' PROVE GoodFrame(stack'[k])
  BY <1>1 DEF OnlyAt, Frames
<1>2. ASSUME NEW k \in DOMAIN stack' PROVE GoodFrame(stack[k])'
  <2>1. GoodFrame(stack'[k])  BY <1>1
  <2>2. CASE hook' = hook
    BY <2>1, <2>2 DEF GoodFrame, FrameShape, LoopHoldsActions, DrainsOver, loop, HookMoves
  <2>3. ASSUME NEW m \in Mods, NEW h \in Hook \ {"none"},
               hook' = [hook EXCEPT ![m] = h], h = "live" => hook[m] = "none"
        PROVE  GoodFrame(stack[k])'
    <3>1. FrameShape(stack[k])'
      BY <2>1, <2>3 DEF GoodFrame, FrameShape
    <3>2. (epc \in AfterFlag /\ PreEntering(stack'[k]) /\ stack'[k].mod = target)
            => hook'[target] # "live"
      BY <2>1, <2>3 DEF GoodFrame, FrameShape, PreEntering
    <3> QED  BY <2>1, <3>1, <3>2 DEF GoodFrame, LoopHoldsActions, DrainsOver, loop, PreEntering,
                                     HookMoves
  <2> QED  BY <2>2, <2>3 DEF HookMoves
<1> QED  BY <1>2 DEF Frames

-----------------------------------------------------------------------------
(* What a step of the game thread leaves alone.                             *)

GameKeeps ==
  /\ UNCHANGED <<life, token, async, stopping, transitions, loop>>
  /\ queued' \subseteq Mods /\ events' \in Seq(Request) /\ asked' \in Nat
  /\ RegistryTyped /\ HookMoves
  /\ LoopState' /\ ModStates'

(* An action may be queued for m: m is not closed and is not being closed.   *)
MayQueue(m) ==
  /\ m \in Mods
  /\ life[m] = "closed" => m \in forced
  /\ (epc \in {"close", "erase"} /\ target \notin forced) => m # target

LEMMA KeepsWhen ==
  ASSUME IInv, UNCHANGED <<life, token, registry, async, stopping, transitions, loop>>,
         \A m \in queued' : m \in queued \/ MayQueue(m),
         events' \in Seq(Request), asked' \in Nat
  PROVE  GameKeeps
<1>1. queued' \subseteq Mods
  BY DEF IInv, TypeOK, MayQueue
<1>2. LoopState'
  BY DEF IInv, LoopState, MayQueue, loop
<1>3. ModStates'
  BY DEF IInv, ModState, ModStates, MayQueue, loop
<1> QED  BY <1>1, <1>2, <1>3 DEF GameKeeps, IInv, TypeOK, HookMoves, RegistryTyped

(* The counters follow the frame that changes from `was' to `now'.           *)
DepthMoves(was, now) ==
  \/ depth' = depth /\ (was <=> now)
  \/ depth' = depth + 1 /\ ~was /\ now
  \/ depth' = depth - 1 /\ was /\ ~now

FlightMoves(was, now) ==
  \/ inFlight' = inFlight /\ was = now
  \/ \E n \in Mods : \/ Count(n) /\ n \notin was /\ now = was \cup {n}
                     \/ Uncount(n) /\ n \in was /\ now = was \ {n}

CountedFor(f) == {m \in Mods : Counted(f, m)}
CountedAt(s, i) == {m \in Mods : i \in CountedIn(s, m)}

LEMMA IndexStep ==
  ASSUME IInv, stack' \in Seq(Frame), NEW i, OnlyAt(stack, stack', i), GameKeeps,
         i \in DOMAIN stack' => GoodFrame(stack'[i]),
         DepthMoves(i \in DrainsIn(stack), i \in DrainsIn(stack')),
         FlightMoves(CountedAt(stack, i), CountedAt(stack', i))
  PROVE  IInv'
<1>1. stack \in Seq(Frame) /\ hook \in [Mods -> Hook] /\ inFlight \in [Mods -> Nat]
  BY DEF IInv, TypeOK
<1>2. Frames'
  BY <1>1, GameFrames DEF IInv, Frames, GameKeeps
<1>3. DepthExact' /\ depth' \in Nat
  BY <1>1, DepthFollows DEF IInv, DepthMoves
<1>4. InFlightExact' /\ inFlight' \in [Mods -> Nat]
  BY <1>1, InFlightFollows DEF IInv, FlightMoves, CountedAt
<1>5. TransitionsExact'
  BY DEF IInv, TransitionsExact, GameKeeps, loop
<1>6. TypeOK'
  BY <1>3, <1>4 DEF IInv, TypeOK, GameKeeps, RegistryTyped, loop
<1> QED  BY <1>2, <1>3, <1>4, <1>5, <1>6 DEF IInv, Frames, GameKeeps, ModStates

LEMMA TopStep ==
  ASSUME IInv, stack # <<>>, NEW f \in Frame, SetTop(f), GameKeeps, GoodFrame(f),
         DepthMoves(InDrain(Top), InDrain(f)),
         FlightMoves(CountedFor(Top), CountedFor(f))
  PROVE  IInv'
<1>1. /\ stack' \in Seq(Frame) /\ OnlyAt(stack, stack', Len(stack))
      /\ Len(stack) \in DOMAIN stack /\ Len(stack) \in DOMAIN stack'
      /\ Top = stack[Len(stack)] /\ stack'[Len(stack)] = f
  BY SetTopFacts DEF IInv, TypeOK
<1>2. DepthMoves(Len(stack) \in DrainsIn(stack), Len(stack) \in DrainsIn(stack'))
  BY <1>1 DEF DepthMoves, DrainsIn
<1>3. FlightMoves(CountedAt(stack, Len(stack)), CountedAt(stack', Len(stack)))
  BY <1>1 DEF CountedAt, CountedFor, CountedIn
<1> QED  BY <1>1, <1>2, <1>3, IndexStep

LEMMA PushStep ==
  ASSUME IInv, NEW f \in Frame, stack' = Append(stack, f), GameKeeps, GoodFrame(f),
         DepthMoves(FALSE, InDrain(f)), FlightMoves({}, CountedFor(f))
  PROVE  IInv'
<1> DEFINE i == Len(stack) + 1
<1>1. /\ stack' \in Seq(Frame) /\ OnlyAt(stack, stack', i)
      /\ i \notin DOMAIN stack /\ i \in DOMAIN stack' /\ stack'[i] = f
  BY PushedFacts DEF IInv, TypeOK
<1>2. DepthMoves(i \in DrainsIn(stack), i \in DrainsIn(stack'))
  BY <1>1 DEF DepthMoves, DrainsIn
<1>3. FlightMoves(CountedAt(stack, i), CountedAt(stack', i))
  BY <1>1 DEF CountedAt, CountedFor, CountedIn
<1> QED  BY <1>1, <1>2, <1>3, IndexStep

LEMMA PopStep ==
  ASSUME IInv, stack # <<>>, Pop, GameKeeps,
         DepthMoves(InDrain(Top), FALSE), FlightMoves(CountedFor(Top), {})
  PROVE  IInv'
<1>1. /\ stack' \in Seq(Frame) /\ OnlyAt(stack, stack', Len(stack))
      /\ Len(stack) \in DOMAIN stack /\ Len(stack) \notin DOMAIN stack'
      /\ Top = stack[Len(stack)]
  BY PoppedFacts DEF IInv, TypeOK
<1>2. DepthMoves(Len(stack) \in DrainsIn(stack), Len(stack) \in DrainsIn(stack'))
  BY <1>1 DEF DepthMoves, DrainsIn
<1>3. FlightMoves(CountedAt(stack, Len(stack)), CountedAt(stack', Len(stack)))
  BY <1>1 DEF CountedAt, CountedFor, CountedIn
<1> QED  BY <1>1, <1>2, <1>3, IndexStep

-----------------------------------------------------------------------------
(* The actions of the game thread.                                          *)

LEMMA TopIsGood ==
  ASSUME IInv, stack # <<>>
  PROVE  Top \in Frame /\ GoodFrame(Top)
<1>1. stack \in Seq(Frame) /\ Len(stack) \in DOMAIN stack
  BY DEF IInv, TypeOK
<1> QED  BY <1>1 DEF IInv, Top

LEMMA DrainCollectStep ==
  ASSUME IInv, DrainCollect
  PROVE  IInv'
<1>1. stack # <<>> /\ Top \in Frame /\ GoodFrame(Top)
  BY TopIsGood DEF DrainCollect, At
<1>2. PICK S \in SUBSET (IF Top.phase = "notify" THEN {m \in Mods : "event" \in listens[m]} ELSE queued) :
        /\ SetTop([Top EXCEPT !.pc = "run", !.batch = S])
        /\ queued' = IF Top.phase = "simple" THEN queued \ S ELSE queued
  BY DEF DrainCollect
<1> DEFINE f == [Top EXCEPT !.pc = "run", !.batch = S]
<1>3. S \subseteq Mods
  BY <1>2 DEF IInv, TypeOK
<1>4. /\ Top.kind = "drain" /\ Top.phase \in DrainPhases /\ Top.pc = "lock"
      /\ ~LoopHoldsActions
      /\ UNCHANGED <<life, token, registry, depth, inFlight, async, stopping, transitions, loop,
                     events, asked>>
  BY DEF DrainCollect, At
<1>5. f \in Frame
  BY <1>1, <1>3 DEF Frame, DrainPC
<1>6. \A m \in S : life[m] = "closed" => m \in forced \/ (Top.phase = "notify" /\ m \in late)
  BY <1>1, <1>2 DEF IInv, ModState, TypeOK
<1>7. ~DrainsOver
  BY <1>1, <1>4 DEF GoodFrame, DrainIdle
<1>8. GoodFrame(f)
  BY <1>1, <1>3, <1>4, <1>6, <1>7
     DEF GoodFrame, FrameShape, Frame, DrainPC, InLua, PreEntering, PreInside, DrainIdle
<1>9. DepthMoves(InDrain(Top), InDrain(f))
  BY <1>1, <1>4 DEF DepthMoves, InDrain, Frame
<1>10. FlightMoves(CountedFor(Top), CountedFor(f))
  BY <1>1, <1>4 DEF FlightMoves, CountedFor, Counted, Frame
<1>11. GameKeeps
  BY <1>2, <1>4, KeepsWhen DEF IInv, TypeOK
<1> QED  BY <1>1, <1>2, <1>5, <1>8, <1>9, <1>10, <1>11, TopStep

(* The frames of the game thread, and nothing else but the counters.        *)
FramesOnly == UNCHANGED <<life, token, registry, queued, async, stopping, transitions, loop,
                          events, asked>>

LEMMA FramesOnlyKeeps ==
  ASSUME IInv, FramesOnly
  PROVE  GameKeeps
BY KeepsWhen DEF FramesOnly, IInv, TypeOK

(* The top frame changes and the counters do not.                           *)
LEMMA QuietTop ==
  ASSUME IInv, stack # <<>>, NEW f \in Frame, SetTop(f), GoodFrame(f), FramesOnly,
         UNCHANGED <<depth, inFlight>>, InDrain(Top) <=> InDrain(f),
         CountedFor(Top) = CountedFor(f)
  PROVE  IInv'
BY FramesOnlyKeeps, TopStep DEF DepthMoves, FlightMoves

LEMMA QuietPop ==
  ASSUME IInv, stack # <<>>, Pop, FramesOnly, UNCHANGED <<depth, inFlight>>, ~InDrain(Top),
         CountedFor(Top) = {}
  PROVE  IInv'
BY FramesOnlyKeeps, PopStep DEF DepthMoves, FlightMoves

(* Facts on every drain step.                                               *)
LEMMA DrainFrames ==
  ASSUME NEW f \in Frame, NEW g \in Frame, f.kind = "drain", g.kind = "drain",
         f.pc # "merge", g.pc # "merge"
  PROVE  (InDrain(f) <=> InDrain(g)) /\ CountedFor(f) = CountedFor(g)
BY DEF InDrain, CountedFor, Counted

LEMMA NextPhaseGood ==
  ASSUME NEW f \in Frame, GoodFrame(f), f.kind = "drain", f.pc \in {"test", "run"},
         f.batch = {}, f.deferred = {}
  PROVE  NextPhase(f) \in Frame /\ GoodFrame(NextPhase(f)) /\ NextPhase(f).kind = "drain"
         /\ NextPhase(f).pc # "merge"
<1>1. f.phase \in DrainPhases /\ f.mod = NoMod
  BY DEF GoodFrame, FrameShape, InLua
<1>2. /\ NextPhase(f) \in Frame /\ NextPhase(f).kind = "drain"
      /\ NextPhase(f).phase \in DrainPhases /\ NextPhase(f).pc \in {"test", "leave"}
      /\ NextPhase(f).mod = NoMod /\ NextPhase(f).batch = {}
      /\ NextPhase(f).deferred = {}
  BY <1>1 DEF NextPhase, Frame, DrainPhases, DrainPC
<1>3. GoodFrame(NextPhase(f))
  BY <1>2 DEF GoodFrame, FrameShape, DrainPC, InLua, Locked, PreEntering, PreInside, DrainIdle, DrainPhases
<1> QED  BY <1>2, <1>3

LEMMA DrainStepPreserves ==
  ASSUME IInv, DrainStep
  PROVE  IInv'
<1>1. CASE DrainCollect
  BY <1>1, DrainCollectStep
<1> USE DEF FramesOnly
<1>2. CASE DrainTest
  <2>1. /\ stack # <<>> /\ Top \in Frame /\ GoodFrame(Top)
        /\ Top.kind = "drain" /\ Top.pc = "test" /\ Top.batch = {} /\ Top.deferred = {}
    BY <1>2, TopIsGood DEF DrainTest, At, GoodFrame, FrameShape, InLua
  <2>2. CASE transitions # 0
    <3>1. SetTop(NextPhase(Top))  BY <1>2, <2>2 DEF DrainTest
    <3> QED  BY <1>2, <2>1, <3>1, NextPhaseGood, DrainFrames, QuietTop DEF DrainTest
  <2>3. CASE transitions = 0
    <3> DEFINE f == [Top EXCEPT !.pc = "lock"]
    <3>1. SetTop(f)  BY <1>2, <2>3 DEF DrainTest, Goto
    <3>2. f \in Frame /\ f.kind = "drain" /\ f.pc # "merge"
      BY <2>1 DEF Frame, DrainPC
    <3>3. ~DrainsOver
      BY <2>3 DEF IInv, TransitionsExact, DrainsOver, AfterDrains, AfterHooks, AfterFlag,
                  AfterJoin, Uninstalling, TypeOK
    <3>4. GoodFrame(f)
      BY <2>1, <3>3 DEF GoodFrame, FrameShape, Frame, DrainPC, InLua, Locked, PreEntering,
                        PreInside
    <3> QED  BY <1>2, <2>1, <3>1, <3>2, <3>4, DrainFrames, QuietTop DEF DrainTest
  <2> QED  BY <2>2, <2>3
<1>3. CASE DrainPhaseEnds
  <2> DEFINE f == [Top EXCEPT !.deferred = {}]
  <2>1. /\ stack # <<>> /\ Top \in Frame /\ GoodFrame(Top) /\ SetTop(NextPhase(f))
        /\ Top.kind = "drain" /\ Top.pc = "run" /\ Top.batch = {}
        /\ queued' = queued \cup Top.deferred
    BY <1>3, TopIsGood DEF DrainPhaseEnds, At
  <2>2. /\ f \in Frame /\ f.kind = "drain" /\ f.pc = "run" /\ f.batch = {} /\ f.deferred = {}
        /\ f.phase = Top.phase /\ f.mod = Top.mod
    BY <2>1 DEF Frame
  <2>3. GoodFrame(f)
    BY <2>1, <2>2 DEF GoodFrame, FrameShape, Locked, PreEntering, PreInside, DrainIdle
  <2>4. /\ NextPhase(f) \in Frame /\ GoodFrame(NextPhase(f)) /\ NextPhase(f).kind = "drain"
        /\ NextPhase(f).pc # "merge"
    BY <2>2, <2>3, NextPhaseGood
  <2>5. \A m \in Top.deferred : MayQueue(m)
    BY <2>1 DEF GoodFrame, MayQueue, DrainsOver, DrainIdle, AfterDrains, Frame
  <2>6. GameKeeps
    BY <1>3, <2>1, <2>5, KeepsWhen DEF DrainPhaseEnds, IInv, TypeOK
  <2> QED  BY <1>3, <2>1, <2>4, <2>6, DrainFrames, TopStep
           DEF DrainPhaseEnds, DepthMoves, FlightMoves
<1>4. CASE DrainAction
  <2>1. /\ stack # <<>> /\ Top \in Frame /\ GoodFrame(Top)
        /\ Top.kind = "drain" /\ Top.pc = "run" /\ Top.phase \in DrainPhases
    BY <1>4, TopIsGood DEF DrainAction, At
  <2> DEFINE put(m) == [Top EXCEPT !.batch = @ \ {m},
                                   !.deferred = IF m \notin token /\ Top.phase = "simple"
                                                  THEN @ \cup {m} ELSE @]
             in(m) == [Top EXCEPT !.pc = "inLua", !.mod = m]
  <2>2. PICK m \in Top.batch : SetTop(put(m)) \/ SetTop(in(m))
    BY <1>4 DEF DrainAction
  <2>3. m \in Mods /\ m \in Top.batch
    BY <2>1, <2>2 DEF Frame
  <2>4. ~DrainsOver
    BY <2>1 DEF GoodFrame, DrainIdle
  <2>5. \E f \in Frame : SetTop(f) /\ GoodFrame(f) /\ f.kind = "drain" /\ f.pc # "merge"
    <3>1. CASE SetTop(put(m))
      <4> DEFINE f == put(m)
      <4>1. /\ f \in Frame /\ f.kind = "drain" /\ f.pc = "run" /\ f.phase = Top.phase
            /\ f.mod = Top.mod /\ f.batch \cup f.deferred \subseteq Top.batch \cup Top.deferred
        BY <2>1, <2>3 DEF Frame
      <4>2. GoodFrame(f)
        BY <2>1, <2>4, <4>1 DEF GoodFrame, FrameShape, InLua, Locked, PreEntering, PreInside
      <4> QED  BY <3>1, <4>1, <4>2
    <3>2. CASE SetTop(in(m))
      <4> DEFINE f == in(m)
      <4>1. /\ f \in Frame /\ f.kind = "drain" /\ f.pc = "inLua" /\ f.mod = m
            /\ f.batch = Top.batch /\ f.deferred = Top.deferred /\ f.phase = Top.phase
        BY <2>1, <2>3 DEF Frame, DrainPC, InLua
      <4>2. GoodFrame(f)
        BY <2>1, <2>3, <2>4, <4>1 DEF GoodFrame, FrameShape, InLua, Locked, PreEntering,
                                      PreInside, DrainPC
      <4> QED  BY <3>2, <4>1, <4>2
    <3> QED  BY <2>2, <3>1, <3>2
  <2> QED  BY <1>4, <2>1, <2>5, DrainFrames, QuietTop DEF DrainAction
<1>5. CASE DrainActionReturns
  <2>1. /\ stack # <<>> /\ Top \in Frame /\ GoodFrame(Top)
        /\ Top.kind = "drain" /\ Top.pc = "inLua" /\ Top.phase \in DrainPhases
    BY <1>5, TopIsGood DEF DrainActionReturns, At
  <2> DEFINE out(rest) == [Top EXCEPT !.pc = "run", !.mod = NoMod, !.batch = rest]
  <2>2. PICK rest \in {Top.batch, Top.batch \ {Top.mod}} : SetTop(out(rest))
    BY <1>5 DEF DrainActionReturns
  <2> DEFINE f == out(rest)
  <2>3. /\ f \in Frame /\ f.kind = "drain" /\ f.pc = "run" /\ f.mod = NoMod
        /\ f.batch \subseteq Top.batch /\ f.deferred = Top.deferred /\ f.phase = Top.phase
    BY <2>1 DEF Frame, DrainPC
  <2>4. GoodFrame(f)
    BY <2>1, <2>3 DEF GoodFrame, FrameShape, Frame, InLua, Locked, PreEntering, PreInside,
                      DrainPhases,
                      DrainPC, DrainIdle
  <2> HIDE DEF f, out
  <2>5. \E g \in Frame : SetTop(g) /\ GoodFrame(g) /\ g.kind = "drain" /\ g.pc # "merge"
    BY <2>2, <2>3, <2>4 DEF f
  <2> QED  BY <1>5, <2>1, <2>5, DrainFrames, QuietTop DEF DrainActionReturns
<1>6. CASE DrainLeave
  <2>1. /\ stack # <<>> /\ Top \in Frame /\ GoodFrame(Top)
        /\ Top.kind = "drain" /\ Top.pc = "leave"
    BY <1>6, TopIsGood DEF DrainLeave, At
  <2> DEFINE f == [Top EXCEPT !.pc = "merge"]
  <2>2. f \in Frame /\ f.kind = "drain" /\ f.pc = "merge"
    BY <2>1 DEF Frame, DrainPC
  <2>3. GoodFrame(f)
    BY <2>1, <2>2 DEF GoodFrame, FrameShape, Frame, InLua, Locked, PreEntering, PreInside,
                      DrainPC, DrainIdle
  <2>4. DepthMoves(InDrain(Top), InDrain(f))
    BY <1>6, <2>1, <2>2 DEF DrainLeave, DepthMoves, InDrain
  <2>5. FlightMoves(CountedFor(Top), CountedFor(f))
    BY <1>6, <2>1, <2>2 DEF DrainLeave, FlightMoves, CountedFor, Counted
  <2>6. GameKeeps
    BY <1>6, FramesOnlyKeeps DEF DrainLeave
  <2> QED  BY <1>6, <2>1, <2>2, <2>3, <2>4, <2>5, <2>6, TopStep DEF DrainLeave, Goto
<1>7. CASE DrainMerge
  <2>1. stack # <<>> /\ ~InDrain(Top) /\ CountedFor(Top) = {}
    BY <1>7 DEF DrainMerge, At, InDrain, CountedFor, Counted
  <2> QED  BY <1>7, <2>1, QuietPop DEF DrainMerge
<1> QED  BY <1>1, <1>2, <1>3, <1>4, <1>5, <1>6, <1>7 DEF DrainStep

(* No transition: the event loop neither unloads nor starts a restarted mod. *)
LEMMA Calm ==
  ASSUME IInv, transitions = 0
  PROVE  epc \notin Uninstalling /\ ~op.outer
BY DEF IInv, TypeOK, TransitionsExact

(* A hook frame moves on, past the place where it is counted or not.         *)
LEMMA HookMovesOn ==
  ASSUME IInv, stack # <<>>, Top.kind = "hook", NEW f \in Frame, SetTop(f),
         f.kind = "hook", f.mod = Top.mod, f.batch = Top.batch, f.deferred = Top.deferred, f.pc \in HookPC,
         f.phase \in {"pre", "post", "after"}, GoodFrame(f), FramesOnly, UNCHANGED depth,
         \/ UNCHANGED inFlight /\ (f.pc \in InLua \cup {"flag"} <=> Top.pc \in InLua \cup {"flag"})
         \/ Count(Top.mod) /\ f.pc \in InLua \cup {"flag"} /\ Top.pc \notin InLua \cup {"flag"}
         \/ Uncount(Top.mod) /\ f.pc \notin InLua \cup {"flag"} /\ Top.pc \in InLua \cup {"flag"}
  PROVE  IInv'
<1>1. Top.mod \in Mods
  BY TopIsGood DEF GoodFrame, FrameShape
<1>2. DepthMoves(InDrain(Top), InDrain(f))
  BY DEF DepthMoves, InDrain
<1>3. FlightMoves(CountedFor(Top), CountedFor(f))
  BY <1>1 DEF FlightMoves, CountedFor, Counted
<1> QED  BY <1>2, <1>3, FramesOnlyKeeps, TopStep

LEMMA PreStepPreserves ==
  ASSUME IInv, PreTest \/ PreCount \/ PreFlag \/ PreReturns \/ FirePost
  PROVE  IInv'
<1> USE DEF FramesOnly
<1>1. /\ stack # <<>> /\ Top \in Frame /\ GoodFrame(Top)
      /\ Top.kind = "hook" /\ Top.phase = "pre" /\ Top.mod \in Mods /\ Top.batch = {} /\ Top.deferred = {}
  BY TopIsGood DEF PreTest, PreCount, PreFlag, PreReturns, FirePost, At, GoodFrame, FrameShape
<1>2. ASSUME NEW pc \in {"original", "dangling", "flag", "data"},
             pc = "original" \/ Top.pc = "data" \/ transitions = 0,
             pc = "dangling" => Top.pc = "data"
      PROVE  GoodFrame([Top EXCEPT !.pc = pc]) /\ [Top EXCEPT !.pc = pc] \in Frame
  <2> DEFINE f == [Top EXCEPT !.pc = pc]
  <2>1. /\ f \in Frame /\ f.kind = "hook" /\ f.phase = "pre" /\ f.mod = Top.mod
        /\ f.batch = {} /\ f.deferred = {} /\ f.pc = pc /\ f.pc \in HookPC /\ f.pc \notin InLua
    BY <1>1 DEF Frame, HookPC, InLua
  <2>2. (epc \in AfterFlag /\ PreEntering(f) /\ f.mod = target) => hook[target] # "live"
    BY <1>1, <1>2, <2>1, Calm DEF GoodFrame, PreEntering, Uninstalling, AfterJoin
  <2>3. (epc = "main" /\ op.outer /\ f.mod = target) => Outside(f)
    BY <1>1, <1>2, <2>1, Calm DEF GoodFrame, Outside
  <2> QED  BY <1>1, <2>1, <2>2, <2>3
           DEF GoodFrame, FrameShape, Locked, PreInside, DrainIdle
<1>3. CASE PreTest
  <2> DEFINE f == [Top EXCEPT !.pc = IF transitions # 0 THEN "original" ELSE "data"]
  <2>1. SetTop(f) /\ Top.pc = "test"
    BY <1>3 DEF PreTest, Goto, At
  <2>2. f \in Frame /\ GoodFrame(f)
    BY <1>1, <1>2, <2>1
  <2> QED  BY <1>1, <1>3, <2>1, <2>2, HookMovesOn DEF PreTest, HookPC, InLua, Frame
<1>4. CASE PreCount
  <2>1. Top.pc = "data"
    BY <1>4 DEF PreCount, At
  <2>2. CASE DataFreed(Top.mod)
    <3> DEFINE f == [Top EXCEPT !.pc = "dangling"]
    <3>1. f \in Frame /\ GoodFrame(f) /\ SetTop(f)
      BY <1>2, <1>4, <2>1, <2>2 DEF PreCount, Goto
    <3> QED  BY <1>1, <1>4, <2>1, <2>2, <3>1, HookMovesOn DEF PreCount, HookPC, InLua, Frame
  <2>3. CASE ~DataFreed(Top.mod)
    <3> DEFINE f == [Top EXCEPT !.pc = "flag"]
    <3>1. f \in Frame /\ GoodFrame(f) /\ SetTop(f)
      BY <1>2, <1>4, <2>1, <2>3 DEF PreCount, Goto
    <3> QED  BY <1>1, <1>4, <2>1, <2>3, <3>1, HookMovesOn DEF PreCount, HookPC, InLua, Frame
  <2> QED  BY <2>2, <2>3
<1>5. CASE PreFlag
  <2>1. Top.pc = "flag"
    BY <1>5 DEF PreFlag, At
  <2>2. CASE hook[Top.mod] # "live"
    <3> DEFINE f == [Top EXCEPT !.pc = "original"]
    <3>1. f \in Frame /\ GoodFrame(f) /\ SetTop(f)
      BY <1>2, <1>5, <2>1, <2>2 DEF PreFlag, Goto
    <3> QED  BY <1>1, <1>5, <2>1, <2>2, <3>1, HookMovesOn DEF PreFlag, HookPC, InLua, Frame
  <2>3. CASE hook[Top.mod] = "live"
    <3> DEFINE f == [Top EXCEPT !.pc = "inLua"]
    <3>1. SetTop(f)
      BY <1>5, <2>3 DEF PreFlag
    <3>2. /\ f \in Frame /\ f.kind = "hook" /\ f.phase = "pre" /\ f.mod = Top.mod
          /\ f.batch = {} /\ f.deferred = {} /\ f.pc = "inLua"
      BY <1>1 DEF Frame, HookPC, InLua
    <3>3. (epc \in AfterHooks /\ target \notin forced) => f.mod # target
      BY <1>1, <2>1, <2>3, <3>2 DEF GoodFrame, PreEntering, AfterFlag
    <3>4. life[Top.mod] # "closed"
      BY <1>1, <2>1, <2>3
         DEF IInv, ModState, GoodFrame, PreEntering, AfterFlag, AfterHooks, AfterDrains
    <3>5. GoodFrame(f)
      BY <1>1, <2>1, <3>2, <3>3, <3>4
         DEF GoodFrame, FrameShape, Locked, PreEntering, PreInside, DrainIdle, Outside,
             HookPC, InLua
    <3> QED  BY <1>1, <1>5, <2>1, <2>3, <3>1, <3>2, <3>5, HookMovesOn
             DEF PreFlag, HookPC, InLua
  <2> QED  BY <2>2, <2>3
<1>6. CASE PreReturns
  <2> DEFINE f == [Top EXCEPT !.pc = "original"]
  <2>1. SetTop(f) /\ Top.pc = "inLua" /\ f \in Frame /\ GoodFrame(f)
    BY <1>2, <1>6 DEF PreReturns, Goto, At
  <2> QED  BY <1>1, <1>6, <2>1, HookMovesOn DEF PreReturns, HookPC, InLua, Frame
<1>7. CASE FirePost
  <2>1. Top.pc = "original"
    BY <1>7 DEF FirePost, At
  <2>2. CASE Pop
    <3>1. ~InDrain(Top) /\ CountedFor(Top) = {}
      BY <1>1, <2>1 DEF InDrain, CountedFor, Counted, InLua
    <3> QED  BY <1>1, <1>7, <2>2, <3>1, QuietPop DEF FirePost
  <2>3. CASE SetTop([Top EXCEPT !.phase = "post", !.pc = "test"])
    <3> DEFINE f == [Top EXCEPT !.phase = "post", !.pc = "test"]
    <3>1. /\ f \in Frame /\ f.kind = "hook" /\ f.phase = "post" /\ f.mod = Top.mod
          /\ f.batch = {} /\ f.deferred = {} /\ f.pc = "test"
      BY <1>1 DEF Frame, HookPC
    <3>2. GoodFrame(f)
      BY <1>1, <3>1 DEF GoodFrame, FrameShape, Locked, PreEntering, PreInside, DrainIdle,
                        Outside, HookPC
    <3> QED  BY <1>1, <1>7, <2>1, <2>3, <3>1, <3>2, HookMovesOn DEF FirePost, HookPC, InLua
  <2> QED  BY <1>7, <2>2, <2>3 DEF FirePost
<1> QED  BY <1>3, <1>4, <1>5, <1>6, <1>7

LEMMA PostStepPreserves ==
  ASSUME IInv, \/ PostTest \/ ReadUnloading \/ ReadScheduled \/ PostCount \/ PostReturns
               \/ DanglingEnds
  PROVE  IInv'
<1> USE DEF FramesOnly
<1>1. /\ stack # <<>> /\ Top \in Frame /\ GoodFrame(Top)
      /\ Top.kind = "hook" /\ Top.mod \in Mods /\ Top.batch = {} /\ Top.deferred = {}
  BY TopIsGood DEF PostTest, ReadUnloading, ReadScheduled, PostCount, PostReturns,
                   DanglingEnds, At, GoodFrame, FrameShape
<1>2. ASSUME NEW phase \in {"post", "after"}, NEW pc \in HookPC,
             Top.pc = "test" => transitions = 0,
             Top.pc # "original", phase = "after" => pc \notin InLua
      PROVE  /\ [Top EXCEPT !.phase = phase, !.pc = pc] \in Frame
             /\ GoodFrame([Top EXCEPT !.phase = phase, !.pc = pc])
  <2> DEFINE f == [Top EXCEPT !.phase = phase, !.pc = pc]
  <2>1. /\ f \in Frame /\ f.kind = "hook" /\ f.phase = phase /\ f.mod = Top.mod
        /\ f.batch = Top.batch /\ f.deferred = Top.deferred
        /\ f.batch = {} /\ f.deferred = {} /\ f.pc = pc
    BY <1>1 DEF Frame
  <2>2. ~(epc = "main" /\ op.outer /\ f.mod = target)
    BY <1>1, <1>2, <2>1, Calm DEF GoodFrame, Outside
  <2>3. GoodFrame(f)
    BY <1>1, <1>2, <2>1, <2>2
       DEF GoodFrame, FrameShape, Locked, PreEntering, PreInside, DrainIdle
  <2> QED  BY <2>1, <2>3
<1>3. ASSUME Pop, UNCHANGED <<depth, inFlight>>, FramesOnly, Top.pc \notin InLua \cup {"flag"}
      PROVE  IInv'
  <2>1. ~InDrain(Top) /\ CountedFor(Top) = {}
    BY <1>1, <1>3 DEF InDrain, CountedFor, Counted
  <2> QED  BY <1>1, <1>3, <2>1, QuietPop
<1>4. ASSUME Top.phase \in {"post", "after"}, NEW pc \in HookPC, Goto(pc), FramesOnly,
             UNCHANGED <<depth, inFlight>>, Top.pc = "test" => transitions = 0,
             Top.pc \notin InLua \cup {"flag", "original"}, pc \notin InLua \cup {"flag"}
      PROVE  IInv'
  <2>1. PICK phase \in {"post", "after"} : phase = Top.phase
    BY <1>4
  <2> DEFINE f == [Top EXCEPT !.phase = phase, !.pc = pc]
  <2>2. SetTop(f)
    BY <1>1, <1>4, <2>1 DEF Goto, Frame
  <2>3. /\ f \in Frame /\ f.kind = "hook" /\ f.phase = phase /\ f.pc = pc
        /\ f.mod = Top.mod /\ f.batch = Top.batch /\ f.deferred = Top.deferred /\ GoodFrame(f)
    BY <1>1, <1>2, <1>4, <2>1 DEF Frame
  <2> QED  BY <1>1, <1>4, <2>2, <2>3, HookMovesOn
<1>5. CASE PostTest
  <2>1. Top.pc = "test" /\ Top.phase = "post" /\ "test" \notin InLua \cup {"flag", "original"}
        /\ "unloadingFlag" \notin InLua \cup {"flag"} /\ "unloadingFlag" \in HookPC
    BY <1>5 DEF PostTest, At, InLua, HookPC
  <2>2. CASE transitions # 0
    BY <1>3, <1>5, <2>1, <2>2 DEF PostTest
  <2>3. CASE transitions = 0
    BY <1>4, <1>5, <2>1, <2>3 DEF PostTest
  <2> QED  BY <2>2, <2>3
<1>6. CASE ReadUnloading
  <2>1. Top.pc = "unloadingFlag" /\ Top.phase \in {"post", "after"}
        /\ "unloadingFlag" \notin InLua \cup {"flag", "original"}
        /\ \A pc \in {"scheduledFlag", "dangling"} : pc \in HookPC /\ pc \notin InLua \cup {"flag"}
    BY <1>6 DEF ReadUnloading, At, InLua, HookPC
  <2>2. Goto("scheduledFlag") \/ Goto("dangling") \/ Pop
    BY <1>6 DEF ReadUnloading
  <2> QED  BY <1>3, <1>4, <1>6, <2>1, <2>2 DEF ReadUnloading
<1>7. CASE ReadScheduled
  <2>1. Top.pc = "scheduledFlag" /\ Top.phase \in {"post", "after"}
        /\ "scheduledFlag" \notin InLua \cup {"flag", "original"}
        /\ \A pc \in {"count", "dangling", "erase"} :
             pc \in HookPC /\ pc \notin InLua \cup {"flag"}
    BY <1>7 DEF ReadScheduled, At, InLua, HookPC
  <2>2. Goto("count") \/ Goto("dangling") \/ Goto("erase") \/ Pop
    BY <1>7 DEF ReadScheduled
  <2> QED  BY <1>3, <1>4, <1>7, <2>1, <2>2 DEF ReadScheduled
<1>8. CASE PostCount
  <2>1. Top.pc = "count" /\ Top.phase = "post"
        /\ "count" \notin InLua \cup {"flag", "original"}
        /\ "dangling" \in HookPC /\ "dangling" \notin InLua \cup {"flag"}
        /\ "inLua" \in HookPC /\ "inLua" \in InLua
    BY <1>8 DEF PostCount, At, InLua, HookPC
  <2>2. CASE DataFreed(Top.mod)
    BY <1>4, <1>8, <2>1, <2>2 DEF PostCount
  <2>3. CASE ~DataFreed(Top.mod)
    <3> DEFINE f == [Top EXCEPT !.phase = "post", !.pc = "inLua"]
    <3>1. SetTop(f)
      BY <1>1, <1>8, <2>1, <2>3 DEF PostCount, Goto, Frame
    <3>2. /\ f \in Frame /\ f.kind = "hook" /\ f.phase = "post" /\ f.pc = "inLua"
          /\ f.mod = Top.mod /\ f.batch = Top.batch /\ f.deferred = Top.deferred /\ GoodFrame(f)
      BY <1>1, <1>2, <2>1 DEF Frame
    <3> QED  BY <1>1, <1>8, <2>1, <2>3, <3>1, <3>2, HookMovesOn DEF PostCount
  <2> QED  BY <2>2, <2>3
<1>9. CASE PostReturns
  <2>1. Top.pc = "inLua" /\ Top.pc \in InLua /\ Top.pc # "original" /\ Top.pc # "test"
        /\ "unloadingFlag" \in HookPC /\ "unloadingFlag" \notin InLua \cup {"flag"}
    BY <1>9 DEF PostReturns, At, InLua, HookPC
  <2> DEFINE f == [Top EXCEPT !.phase = "after", !.pc = "unloadingFlag"]
  <2>2. SetTop(f)
    BY <1>9 DEF PostReturns
  <2>3. /\ f \in Frame /\ f.kind = "hook" /\ f.phase = "after" /\ f.pc = "unloadingFlag"
        /\ f.mod = Top.mod /\ f.batch = Top.batch /\ f.deferred = Top.deferred /\ GoodFrame(f)
    BY <1>1, <1>2, <2>1 DEF Frame
  <2> QED  BY <1>1, <1>9, <2>1, <2>2, <2>3, HookMovesOn DEF PostReturns
<1>10. CASE DanglingEnds
  <2>1. Top.pc \notin InLua \cup {"flag"}
    BY <1>10 DEF DanglingEnds, At, InLua
  <2> QED  BY <1>3, <1>10, <2>1 DEF DanglingEnds
<1> QED  BY <1>5, <1>6, <1>7, <1>8, <1>9, <1>10

LEMMA GameErasesHookPreserves ==
  ASSUME IInv, GameErasesHook
  PROVE  IInv'
<1>1. /\ stack # <<>> /\ Top \in Frame /\ GoodFrame(Top)
      /\ Top.kind = "hook" /\ Top.pc = "erase" /\ Top.mod \in Mods /\ hook[Top.mod] # "none"
  BY TopIsGood DEF GameErasesHook, At, GoodFrame, FrameShape
<1>2. hook' = [hook EXCEPT ![Top.mod] = "erased"] /\ hook \in [Mods -> Hook]
  BY DEF GameErasesHook, IInv, TypeOK
<1>3. HookMoves /\ hook' \in [Mods -> Hook]
  <2>1. "erased" \in Hook \ {"none"} /\ "erased" # "live"
    BY DEF Hook
  <2> QED  BY <1>1, <1>2, <2>1 DEF HookMoves, GameErasesHook
<1>4. LoopState'
  BY <1>1, <1>2 DEF IInv, LoopState, GameErasesHook, loop
<1>5. ModStates'
  BY <1>1, <1>2 DEF IInv, ModStates, ModState, GameErasesHook, loop
<1>6. GameKeeps
  BY <1>3, <1>4, <1>5 DEF GameKeeps, GameErasesHook, IInv, TypeOK, loop, RegistryTyped
<1>7. DepthMoves(InDrain(Top), FALSE)
  BY <1>1 DEF DepthMoves, InDrain, GameErasesHook
<1>8. FlightMoves(CountedFor(Top), {})
  BY <1>1 DEF FlightMoves, CountedFor, Counted, InLua, GameErasesHook
<1> QED  BY <1>1, <1>6, <1>7, <1>8, PopStep DEF GameErasesHook

LEMMA HookStepPreserves ==
  ASSUME IInv, HookStep
  PROVE  IInv'
BY PreStepPreserves, PostStepPreserves, GameErasesHookPreserves DEF HookStep

(* A frame is pushed: no counter but the drains' sees it.                    *)
LEMMA EnterPreserves ==
  ASSUME IInv, Enter
  PROVE  IInv'
<1> USE DEF FramesOnly
<1>1. CASE EnterDrain
  <2> DEFINE f == [kind |-> "drain", phase |-> "simple", pc |-> "test", mod |-> NoMod,
                   batch |-> {}, deferred |-> {}]
  <2>1. f \in Frame /\ GoodFrame(f)
    BY DEF Frame, DrainPC, InLua, GoodFrame, FrameShape, DrainPhases, Locked, PreEntering,
           PreInside, DrainIdle
  <2>2. DepthMoves(FALSE, InDrain(f)) /\ FlightMoves({}, CountedFor(f)) /\ GameKeeps
    BY <1>1, FramesOnlyKeeps
       DEF EnterDrain, DepthMoves, FlightMoves, InDrain, CountedFor, Counted
  <2> QED  BY <1>1, <2>1, <2>2, PushStep DEF EnterDrain, Push
<1>2. ASSUME NEW m \in Mods, FireHook(m) PROVE IInv'
  <2> DEFINE f == [kind |-> "hook", phase |-> "pre", pc |-> "test", mod |-> m,
                   batch |-> {}, deferred |-> {}]
  <2>1. hook[m] # "none"
    BY <1>2 DEF FireHook
  <2>2. f \in Frame /\ GoodFrame(f)
    BY <1>2, <2>1
       DEF Frame, DrainPC, HookPC, InLua, GoodFrame, FrameShape, Locked, PreEntering,
           PreInside, DrainIdle, Outside
  <2>3. DepthMoves(FALSE, InDrain(f)) /\ FlightMoves({}, CountedFor(f)) /\ GameKeeps
    BY <1>2, FramesOnlyKeeps
       DEF FireHook, DepthMoves, FlightMoves, InDrain, CountedFor, Counted, InLua
  <2> QED  BY <1>2, <2>2, <2>3, PushStep DEF FireHook, Push
<1>3. ASSUME NEW m \in Mods, NEW c \in Events, FireEvent(m, c) PROVE IInv'
  <2> DEFINE f == [kind |-> "event", phase |-> c, pc |-> "inLua", mod |-> m,
                   batch |-> {}, deferred |-> {}]
  <2>1. /\ ~LoopHoldsActions /\ c \in {"event", "endPlay"}
        /\ (life[m] = "closed" /\ c = "event") => m \in late
    BY <1>3, ConstantsAssumption DEF FireEvent, IInv, ModState, Containers
  <2>2. f \in Frame /\ GoodFrame(f)
    BY <1>3, <2>1
       DEF Frame, DrainPC, InLua, GoodFrame, FrameShape, Locked, PreEntering, PreInside,
           DrainIdle
  <2>3. DepthMoves(FALSE, InDrain(f)) /\ FlightMoves({}, CountedFor(f)) /\ GameKeeps
    BY <1>3, FramesOnlyKeeps
       DEF FireEvent, DepthMoves, FlightMoves, InDrain, CountedFor, Counted
  <2> QED  BY <1>3, <2>2, <2>3, PushStep DEF FireEvent, Push
<1> QED  BY <1>1, <1>2, <1>3 DEF Enter

LEMMA EventReturnsPreserves ==
  ASSUME IInv, EventReturns
  PROVE  IInv'
<1>1. stack # <<>> /\ ~InDrain(Top) /\ CountedFor(Top) = {}
  BY DEF EventReturns, At, InDrain, CountedFor, Counted
<1> QED  BY <1>1, QuietPop DEF EventReturns, FramesOnly

(* Lua runs on, or blocks, or goes on after it blocked.                      *)
LEMMA StaysInLua ==
  ASSUME IInv, stack # <<>>, Top.pc \in InLua, NEW pc \in InLua
  PROVE  LET f == [Top EXCEPT !.pc = pc]
         IN /\ f \in Frame /\ GoodFrame(f) /\ (InDrain(Top) <=> InDrain(f))
            /\ CountedFor(Top) = CountedFor(f)
<1>1. Top \in Frame /\ GoodFrame(Top)
  BY TopIsGood
<1> DEFINE f == [Top EXCEPT !.pc = pc]
<1>2. /\ f \in Frame /\ f.kind = Top.kind /\ f.phase = Top.phase /\ f.mod = Top.mod
      /\ f.batch = Top.batch /\ f.deferred = Top.deferred /\ f.pc = pc
  BY <1>1 DEF Frame, DrainPC
<1>3. FrameShape(f)
  BY <1>1, <1>2 DEF GoodFrame, FrameShape, DrainPC, HookPC
<1>4. GoodFrame(f)
  BY <1>1, <1>2, <1>3 DEF GoodFrame, Locked, PreEntering, PreInside, DrainIdle, Outside, InLua
<1> QED  BY <1>2, <1>4 DEF InDrain, CountedFor, Counted, InLua

LEMMA LuaCallKeeps ==
  ASSUME IInv, NEW m, LuaCall(m), UNCHANGED <<life, loop>>,
         epc \notin {"close", "erase"},
         \A x \in Mods : async[x] = "none" => async'[x] = "none"
  PROVE  /\ queued' \subseteq Mods /\ RegistryTyped /\ HookMoves
         /\ LoopState' /\ ModStates'
<1>1. IInv /\ TypeOK /\ LoopState /\ \A x \in Mods : ModState(x)
  BY DEF IInv
<1>2. epc \in AfterJoin => async'[target] = "none"
  BY <1>1 DEF LoopState, Uninstalling
<1>3. CASE UNCHANGED <<queued, registry>>
  <2>1. LoopState'
    BY <1>1, <1>2, <1>3 DEF LoopState, loop
  <2> QED  BY <1>1, <1>3, <2>1 DEF TypeOK, HookMoves, RegistryTyped, ModStates, ModState, loop
<1>4. CASE Open(m) /\ queued' = queued \cup {m} /\ UNCHANGED registry
  <2>1. LoopState'
    BY <1>1, <1>2, <1>4 DEF LoopState, loop
  <2>2. ModStates'
    BY <1>1, <1>4 DEF ModStates, ModState, Open, loop
  <2> QED  BY <1>1, <1>4, <2>1, <2>2 DEF TypeOK, HookMoves, RegistryTyped, Open
<1>5. CASE /\ Open(m) /\ hook[m] = "none" /\ hook' = [hook EXCEPT ![m] = "live"]
           /\ Records(m) /\ UNCHANGED <<listens, queued>>
  <2>1. "live" \in Hook \ {"none"} /\ m \in Mods
    BY <1>5 DEF Hook, Open
  <2>2. HookMoves /\ RegistryTyped
    BY <1>1, <1>5, <2>1 DEF HookMoves, TypeOK, RegistryTyped, Records
  <2>3. LoopState'
    BY <1>1, <1>2, <1>5, <2>1 DEF LoopState, loop, Records, TypeOK
  <2>4. ModStates'
    BY <1>1, <1>5, <2>1 DEF ModStates, ModState, Open, TypeOK, loop, Records
  <2> QED  BY <1>1, <1>5, <2>2, <2>3, <2>4 DEF TypeOK
<1> QED  BY <1>3, <1>4, <1>5 DEF LuaCall

LEMMA QueueEventKeeps ==
  ASSUME IInv, QueueEvent
  PROVE  events' \in Seq(Request)
BY DEF QueueEvent, IInv, TypeOK

LEMMA CallsPreserve ==
  ASSUME IInv, GameCalls \/ CallStep
  PROVE  IInv'
<1>1. ASSUME NEW pc \in InLua, stack # <<>>, Top.pc \in InLua, Goto(pc), GameKeeps,
             UNCHANGED <<depth, inFlight>>
      PROVE  IInv'
  <2> DEFINE f == [Top EXCEPT !.pc = pc]
  <2>1. /\ f \in Frame /\ GoodFrame(f) /\ (InDrain(Top) <=> InDrain(f))
        /\ CountedFor(Top) = CountedFor(f)
    BY <1>1, StaysInLua
  <2> QED  BY <1>1, <2>1, TopStep DEF Goto, DepthMoves, FlightMoves
<1>2. CASE GameCalls
  <2>1. PICK call \in Calls :
          /\ Goto(call)
          /\ IF call = "wantEvent" THEN asked < MaxRequests /\ asked' = asked + 1
                                   ELSE UNCHANGED asked
    BY <1>2 DEF GameCalls
  <2>2. call \in InLua /\ Top.pc \in InLua /\ stack # <<>>
    BY <1>2, <2>1, ConstantsAssumption DEF GameCalls, TopIn, InLua
  <2>3. GameKeeps
    BY <1>2, <2>1, KeepsWhen DEF GameCalls, IInv, TypeOK
  <2> QED  BY <1>1, <1>2, <2>1, <2>2, <2>3 DEF GameCalls
<1>3. CASE GameGetsActions
  <2>1. "inLua" \in InLua /\ Top.pc \in InLua /\ stack # <<>> /\ Goto("inLua")
    BY <1>3 DEF GameGetsActions, TopIn, InLua
  <2>2. GameKeeps
    BY <1>3, LuaCallKeeps DEF GameGetsActions, GameKeeps, LoopHoldsActions, IInv, TypeOK
  <2> QED  BY <1>1, <1>3, <2>1, <2>2 DEF GameGetsActions
<1>4. CASE GameGetsEvents
  <2>1. "inLua" \in InLua /\ Top.pc \in InLua /\ stack # <<>> /\ Goto("inLua")
    BY <1>4 DEF GameGetsEvents, TopIn, InLua
  <2>2. GameKeeps
    BY <1>4, KeepsWhen, QueueEventKeeps DEF GameGetsEvents, IInv, TypeOK
  <2> QED  BY <1>1, <1>4, <2>1, <2>2 DEF GameGetsEvents
<1> QED  BY <1>2, <1>3, <1>4 DEF CallStep

-----------------------------------------------------------------------------
(* The async threads, and whoever else asks for something.                   *)

LEMMA GameStill ==
  ASSUME IInv, UNCHANGED <<game, loop, life, transitions>>, HookMoves
  PROVE  Frames' /\ DepthExact' /\ InFlightExact' /\ TransitionsExact'
<1>1. stack \in Seq(Frame) /\ hook \in [Mods -> Hook] /\ Frames /\ UNCHANGED stack
  BY DEF IInv, TypeOK, Frames, game
<1>2. OnlyAt(stack, stack', 0) /\ 0 \notin DOMAIN stack'
  BY <1>1 DEF OnlyAt
<1>3. stack' \in Seq(Frame)
  BY <1>1
<1>4. Frames'
  BY <1>1, <1>2, <1>3, GameFrames
<1> QED  BY <1>4 DEF IInv, DepthExact, InFlightExact, TransitionsExact, game, loop

LEMMA AsyncPreserves ==
  ASSUME IInv, OthersAsk \/ \E m \in Mods : AsyncStep(m)
  PROVE  IInv'
<1>1. /\ IInv /\ TypeOK /\ LoopState /\ \A x \in Mods : ModState(x)
      /\ epc \in AfterJoin => target \in Mods
  BY DEF IInv, LoopState, Uninstalling
<1>2. CASE OthersAsk
  <2>1. UNCHANGED <<game, loop, life, transitions, registry>>
    BY <1>2 DEF OthersAsk
  <2>2. Frames' /\ DepthExact' /\ InFlightExact' /\ TransitionsExact'
    BY <2>1, GameStill DEF HookMoves
  <2>3. TypeOK'
    BY <1>1, <1>2, QueueEventKeeps DEF OthersAsk, TypeOK, game, loop
  <2>4. LoopState' /\ ModStates'
    BY <1>1, <1>2 DEF OthersAsk, LoopState, ModStates, ModState, loop
  <2> QED  BY <2>2, <2>3, <2>4 DEF IInv, Frames, ModStates
<1>3. ASSUME NEW m \in Mods, NEW pc \in {"none", "idle"} \cup InLua, SetAsync(m, pc),
             async[m] # "none", UNCHANGED <<life, token, registry, queued, game, stopping,
                                            transitions, loop>>,
             events' \in Seq(Request), asked' \in Nat
      PROVE  IInv'
  <2>1. Frames' /\ DepthExact' /\ InFlightExact' /\ TransitionsExact'
    BY <1>3, GameStill DEF HookMoves
  <2>2. TypeOK'
    BY <1>1, <1>3 DEF SetAsync, TypeOK, game, loop
  <2>3. LoopState'
    BY <1>1, <1>3 DEF SetAsync, TypeOK, LoopState, loop
  <2>4. ModStates'
    BY <1>1, <1>3 DEF SetAsync, TypeOK, ModStates, ModState, loop
  <2> QED  BY <2>1, <2>2, <2>3, <2>4 DEF IInv, Frames, ModStates
<1>4. ASSUME NEW m \in Mods, AsyncRuns(m) \/ AsyncReturns(m) \/ AsyncStops(m) PROVE IInv'
  <2>1. /\ events' \in Seq(Request) /\ asked' \in Nat /\ async[m] # "none"
        /\ UNCHANGED <<life, token, registry, queued, game, stopping, transitions, loop>>
    BY <1>1, <1>4 DEF AsyncRuns, AsyncReturns, AsyncStops, TypeOK
  <2>2. \E pc \in {"none", "idle"} \cup InLua : SetAsync(m, pc)
    BY <1>4 DEF AsyncRuns, AsyncReturns, AsyncStops, InLua
  <2> QED  BY <1>3, <1>4, <2>1, <2>2
<1>5. ASSUME NEW m \in Mods, AsyncCalls(m) PROVE IInv'
  <2>1. PICK call \in Calls :
          /\ SetAsync(m, call)
          /\ IF call = "wantEvent" THEN asked < MaxRequests /\ asked' = asked + 1
                                   ELSE UNCHANGED asked
    BY <1>5 DEF AsyncCalls
  <2>2. call \in InLua
    BY <2>1, ConstantsAssumption DEF InLua
  <2>3. events' \in Seq(Request) /\ asked' \in Nat
    BY <1>1, <1>5, <2>1 DEF AsyncCalls, TypeOK
  <2> QED  BY <1>3, <1>5, <2>1, <2>2, <2>3 DEF AsyncCalls
<1>6. ASSUME NEW m \in Mods, AsyncGetsEvents(m) PROVE IInv'
  <2>1. events' \in Seq(Request) /\ asked' \in Nat /\ "inLua" \in InLua
    BY <1>1, <1>6, QueueEventKeeps DEF AsyncGetsEvents, TypeOK, InLua
  <2> QED  BY <1>3, <1>6, <2>1 DEF AsyncGetsEvents
<1>7. ASSUME NEW m \in Mods, AsyncGetsActions(m) PROVE IInv'
  <2>1. /\ async' = [async EXCEPT ![m] = "inLua"] /\ async[m] = "wantActions"
        /\ "inLua" \in InLua
        /\ UNCHANGED <<life, token, game, stopping, transitions, loop, events, asked>>
    BY <1>7 DEF AsyncGetsActions, SetAsync, InLua
  <2>2. \A x \in Mods : async[x] = "none" => async'[x] = "none"
    BY <1>1, <2>1 DEF TypeOK
  <2>3. /\ queued' \subseteq Mods /\ RegistryTyped /\ HookMoves
        /\ LoopState' /\ ModStates'
    BY <1>7, <2>1, <2>2, LuaCallKeeps DEF AsyncGetsActions, LoopHoldsActions
  <2>4. Frames' /\ DepthExact' /\ InFlightExact' /\ TransitionsExact'
    BY <2>1, <2>3, GameStill
  <2>5. TypeOK'
    BY <1>1, <2>1, <2>3 DEF TypeOK, RegistryTyped, game, loop
  <2> QED  BY <2>3, <2>4, <2>5 DEF IInv, Frames, ModStates
<1> QED  BY <1>2, <1>4, <1>5, <1>6, <1>7 DEF AsyncStep

-----------------------------------------------------------------------------
(* The event-loop thread.  It never touches the game thread's frames; each   *)
(* of its steps changes what the frames may be doing.                        *)

LEMMA LoopStep ==
  ASSUME IInv, UNCHANGED game, TypeOK', TransitionsExact', LoopState', ModStates',
         \A k \in DOMAIN stack : GoodFrame(stack[k])'
  PROVE  IInv'
BY DEF IInv, ModStates, DepthExact, InFlightExact, game

(* What a zero in one of the counters says of every frame.                   *)
LEMMA ZeroDepth ==
  ASSUME IInv, depth = 0, NEW k \in DOMAIN stack
  PROVE  ~InDrain(stack[k])
<1>1. stack \in Seq(Frame) /\ Cardinality(DrainsIn(stack)) = 0
  BY DEF IInv, TypeOK, DepthExact, DrainsIn
<1>2. IsFiniteSet(DrainsIn(stack))
  BY <1>1, StackDomainFinite DEF DrainsIn
<1>3. DrainsIn(stack) = {}
  BY <1>1, <1>2, FS_EmptySet
<1> QED  BY <1>3 DEF DrainsIn

LEMMA ZeroInFlight ==
  ASSUME IInv, NEW m \in Mods, inFlight[m] = 0, NEW k \in DOMAIN stack
  PROVE  ~Counted(stack[k], m)
<1>1. stack \in Seq(Frame) /\ Cardinality(CountedIn(stack, m)) = 0
  BY DEF IInv, TypeOK, InFlightExact, CountedIn
<1>2. IsFiniteSet(CountedIn(stack, m))
  BY <1>1, StackDomainFinite DEF CountedIn
<1>3. CountedIn(stack, m) = {}
  BY <1>1, <1>2, FS_EmptySet
<1> QED  BY <1>3 DEF CountedIn

LEMMA BeginPreserves ==
  ASSUME IInv, NEW r \in Request, NEW inEvent \in BOOLEAN, NEW key \in Mods \cup {NoMod},
         epc \in {"idle", "keybind"}, key # NoMod => op.keybind # NoMod,
         Acceptable(r), Begin(r, inEvent, key), events' \in Seq(Request), asked' \in Nat
  PROVE  IInv'
<1>1. ~op.outer /\ transitions = 0 /\ TypeOK
  BY DEF IInv, LoopState, TransitionsExact, Uninstalling, AfterJoin, AfterFlag, AfterHooks,
         AfterDrains
<1>2. ToUnload(r) \subseteq Mods
  BY DEF ToUnload, Started, Request
<1>3. Starts(r) \in Nat
  <2>1. IsFiniteSet(ToUnload(r))
    BY <1>2, ConstantsAssumption, FS_Subset
  <2> QED  BY <2>1, FS_CardinalityType DEF Starts
<1>4. /\ UNCHANGED <<life, token, registry, queued, game, async, stopping, target, seen, forced>>
      /\ epc' = "next"
      /\ op' = [outer |-> Outer(r), inEvent |-> inEvent, keybind |-> key,
                todo |-> ToUnload(r), starts |-> Starts(r), drained |-> FALSE]
      /\ transitions' = IF Outer(r) THEN 1 ELSE 0
      /\ Outer(r) \in BOOLEAN
  BY <1>1 DEF Begin, Outer
<1>5. TypeOK'
  BY <1>1, <1>2, <1>3, <1>4 DEF TypeOK, LoopPC, game
<1>6. TransitionsExact'
  BY <1>4 DEF TransitionsExact, Uninstalling, AfterJoin, AfterFlag, AfterHooks, AfterDrains
<1>7. LoopState'
  <2>1. \A m \in ToUnload(r) : life[m] = "started"
    BY DEF Acceptable, ToUnload, Started
  <2> QED  BY <1>4, <2>1 DEF IInv, LoopState, Uninstalling, AfterJoin, AfterFlag, AfterHooks, AfterDrains
<1>8. ModStates'
  BY <1>4 DEF IInv, ModStates, ModState
<1>9. ASSUME NEW k \in DOMAIN stack PROVE GoodFrame(stack[k])'
  <2>1. GoodFrame(stack[k]) /\ stack' = stack
    BY <1>4 DEF IInv, game
  <2>2. ~DrainsOver' /\ (LoopHoldsActions' => LoopHoldsActions)
    BY <1>4 DEF DrainsOver, LoopHoldsActions, AfterDrains
  <2> QED  BY <1>4, <2>1, <2>2
           DEF GoodFrame, FrameShape, AfterFlag, AfterHooks, AfterDrains
<1> QED  BY <1>4, <1>5, <1>6, <1>7, <1>8, <1>9, LoopStep

LEMMA RequestStepPreserves ==
  ASSUME IInv, RequestStep
  PROVE  IInv'
<1>1. TypeOK /\ LoopState /\ (\A m \in Mods : ModState(m)) /\ TransitionsExact
  BY DEF IInv
<1>2. \A k \in DOMAIN stack : GoodFrame(stack[k])
  BY DEF IInv
<1> USE DEF Uninstalling, AfterJoin, AfterFlag, AfterHooks, AfterDrains
<1>3. CASE RunEvent
  <2>1. Head(events) \in Request /\ events' \in Seq(Request) /\ asked' \in Nat /\ epc = "idle"
    BY <1>1, <1>3 DEF RunEvent, TypeOK
  <2>2. CASE Acceptable(Head(events))
    <3>1. Begin(Head(events), TRUE, NoMod)
      BY <1>3, <2>2 DEF RunEvent
    <3> QED  BY <2>1, <2>2, <3>1, BeginPreserves
  <2>3. CASE ~Acceptable(Head(events))
    <3>1. UNCHANGED <<life, token, registry, queued, game, async, stopping, transitions, loop>>
      BY <1>3, <2>3 DEF RunEvent
    <3>2. Frames' /\ DepthExact' /\ InFlightExact' /\ TransitionsExact'
      BY <3>1, GameStill DEF HookMoves
    <3>3. TypeOK' /\ LoopState' /\ ModStates'
      BY <1>1, <2>1, <3>1 DEF TypeOK, LoopState, ModStates, ModState, game, loop
    <3> QED  BY <3>2, <3>3 DEF IInv, Frames, ModStates
  <2> QED  BY <2>2, <2>3
<1>4. ASSUME NEW m \in Mods, AutoReload(m) PROVE IInv'
  <2> DEFINE r == [kind |-> "autoReload", mod |-> m]
  <2>1. r \in Request /\ Acceptable(r)
    BY <1>4 DEF Request, Kinds, Acceptable, AutoReload
  <2>2. Begin(r, FALSE, NoMod) /\ epc = "idle" /\ events' \in Seq(Request) /\ asked' \in Nat
    <3>1. asked \in Nat /\ events \in Seq(Request)
      BY <1>1 DEF TypeOK
    <3>2. epc = "idle" /\ asked' = asked + 1 /\ events' = events
      BY <1>4 DEF AutoReload
    <3>3. Begin(r, FALSE, NoMod)
      BY <1>4, Zenon DEF AutoReload
    <3>4. events' \in Seq(Request) /\ asked' \in Nat
      BY <3>1, <3>2
    <3> QED  BY <3>2, <3>3, <3>4
  <2> QED  BY <2>1, <2>2, BeginPreserves
<1>5. CASE KeybindAsks
  <2>1. PICK r \in Request : Acceptable(r) /\ Begin(r, FALSE, op.keybind)
    BY <1>5 DEF KeybindAsks
  <2>2. /\ epc = "keybind" /\ op.keybind \in Mods \cup {NoMod} /\ op.keybind # NoMod
        /\ events' \in Seq(Request) /\ asked' \in Nat
    BY <1>1, <1>5, ConstantsAssumption DEF KeybindAsks, TypeOK, Open
  <2> QED  BY <2>1, <2>2, BeginPreserves
<1>6. ASSUME NEW m \in Mods, PressKey(m) PROVE IInv'
  <2>1. /\ UNCHANGED <<life, token, registry, queued, game, async, stopping, transitions, target,
                       seen, forced, events>>
        /\ epc = "idle" /\ epc' = "keybind" /\ op' = [NoOp EXCEPT !.keybind = m]
        /\ asked' = asked + 1 /\ ~GameHoldsActions
    BY <1>6 DEF PressKey
  <2>2. TypeOK'
    <3>1. asked' \in Nat
      BY <1>1, <2>1 DEF TypeOK
    <3>2. op' \in [outer : BOOLEAN, inEvent : BOOLEAN, keybind : Mods \cup {NoMod},
                   todo : SUBSET Mods, starts : Nat, drained : BOOLEAN]
      BY <1>6, <2>1 DEF NoOp
    <3> QED  BY <1>1, <2>1, <3>1, <3>2 DEF TypeOK, LoopPC, game
  <2>3. TransitionsExact'
    BY <1>1, <2>1 DEF TransitionsExact, LoopState, NoOp
  <2>4. LoopState' /\ ModStates'
    BY <1>1, <2>1 DEF LoopState, ModStates, ModState, NoOp
  <2>5. ASSUME NEW k \in DOMAIN stack PROVE GoodFrame(stack[k])'
    <3>1. GoodFrame(stack[k]) /\ stack' = stack /\ ~Locked(stack[k])
      BY <1>2, <2>1 DEF game, GameHoldsActions
    <3> QED  BY <2>1, <3>1 DEF GoodFrame, FrameShape, DrainsOver, NoOp
  <2> QED  BY <2>1, <2>2, <2>3, <2>4, <2>5, LoopStep
<1>7. CASE KeybindReturns
  <2>1. /\ UNCHANGED <<life, token, registry, queued, game, async, stopping, transitions, target,
                       seen, forced, events, asked>>
        /\ epc = "keybind" /\ epc' = "idle" /\ op' = NoOp
    BY <1>7 DEF KeybindReturns
  <2>2. TypeOK'
    BY <1>1, <2>1 DEF TypeOK, NoOp, LoopPC, game
  <2>3. TransitionsExact' /\ LoopState' /\ ModStates'
    BY <1>1, <2>1 DEF TransitionsExact, LoopState, ModStates, ModState, NoOp
  <2>4. ASSUME NEW k \in DOMAIN stack PROVE GoodFrame(stack[k])'
    <3>1. GoodFrame(stack[k]) /\ stack' = stack
      BY <1>2, <2>1 DEF game
    <3> QED  BY <2>1, <3>1 DEF GoodFrame, FrameShape, DrainsOver, LoopHoldsActions, NoOp
  <2> QED  BY <2>1, <2>2, <2>3, <2>4, LoopStep
<1>8. CASE EndRequest
  <2>1. /\ UNCHANGED <<life, token, registry, queued, game, async, stopping, target, seen, forced,
                       events, asked>>
        /\ epc = "next" /\ epc' = (IF op.keybind = NoMod THEN "idle" ELSE "keybind")
        /\ op' = [NoOp EXCEPT !.keybind = op.keybind]
        /\ transitions' = (IF op.outer THEN transitions - 1 ELSE transitions)
    BY <1>8 DEF EndRequest
  <2>2. TypeOK'
    <3>1. transitions' \in Nat
      BY <1>1, <2>1 DEF TypeOK, TransitionsExact
    <3>2. op' \in [outer : BOOLEAN, inEvent : BOOLEAN, keybind : Mods \cup {NoMod},
                   todo : SUBSET Mods, starts : Nat, drained : BOOLEAN]
      BY <1>1, <2>1 DEF TypeOK, NoOp
    <3>3. epc' \in LoopPC
      BY <2>1 DEF LoopPC
    <3> QED  BY <1>1, <2>1, <3>1, <3>2, <3>3 DEF TypeOK, game
  <2>3. TransitionsExact'
    BY <1>1, <2>1 DEF TransitionsExact, NoOp
  <2>4. LoopState' /\ ModStates'
    BY <1>1, <2>1 DEF LoopState, ModStates, ModState, NoOp
  <2>5. ASSUME NEW k \in DOMAIN stack PROVE GoodFrame(stack[k])'
    <3>1. GoodFrame(stack[k]) /\ stack' = stack
      BY <1>2, <2>1 DEF game
    <3> QED  BY <2>1, <3>1 DEF GoodFrame, FrameShape, DrainsOver, LoopHoldsActions, NoOp
  <2> QED  BY <2>1, <2>2, <2>3, <2>4, <2>5, LoopStep
<1> QED  BY <1>3, <1>4, <1>5, <1>6, <1>7, <1>8 DEF RequestStep

(* The unload moves on and touches no mod: only where it is has changed, and *)
(* what it waits for.                                                        *)
LEMMA WaitsPreserve ==
  ASSUME IInv, SetToken \/ JoinAsync \/ HooksLeft \/ HookWaitExpires \/ DrainsLeft
               \/ WaitForDrains \/ DepthChanged \/ DrainWaitExpires
  PROVE  IInv'
<1>1. TypeOK /\ LoopState /\ (\A m \in Mods : ModState(m)) /\ TransitionsExact
  BY DEF IInv
<1>2. \A k \in DOMAIN stack : GoodFrame(stack[k])
  BY DEF IInv
<1> USE DEF Uninstalling, AfterJoin, AfterFlag, AfterHooks, AfterDrains
<1>3. /\ UNCHANGED <<life, registry, queued, game, async, transitions, target, events, asked>>
      /\ epc \in {"token", "join", "waitHooks", "waitDrains", "blocked"}
      /\ epc' \in {"join", "flag", "waitDrains", "blocked", "lock"}
      /\ target \in Mods /\ life[target] = "unloading"
      /\ (epc' # "join" /\ epc # "join") => async[target] = "none"
  BY <1>1 DEF SetToken, JoinAsync, HooksLeft, HookWaitExpires, DrainsLeft, WaitForDrains,
              DepthChanged, DrainWaitExpires, LoopState
<1>4. /\ token' \subseteq Mods /\ stopping' \subseteq Mods
      /\ forced \subseteq forced' /\ forced' \subseteq Mods
      /\ op' = op \/ op' = [op EXCEPT !.drained = TRUE]
      /\ seen' \in Nat
  BY <1>1, <1>3 DEF SetToken, JoinAsync, HooksLeft, HookWaitExpires, DrainsLeft,
                    WaitForDrains, DepthChanged, DrainWaitExpires, TypeOK
<1>5. /\ op' \in [outer : BOOLEAN, inEvent : BOOLEAN, keybind : Mods \cup {NoMod},
                  todo : SUBSET Mods, starts : Nat, drained : BOOLEAN]
      /\ op'.outer = op.outer /\ op'.keybind = op.keybind /\ op'.todo = op.todo
  BY <1>1, <1>4 DEF TypeOK
<1>6. TypeOK'
  <2>1. epc' \in LoopPC
    BY <1>3 DEF LoopPC
  <2> QED  BY <1>1, <1>3, <1>4, <1>5, <2>1 DEF TypeOK, game
<1>7. TransitionsExact'
  BY <1>1, <1>3, <1>5 DEF TransitionsExact
<1>8. LoopState'
  <2>1. epc' \in {"flag", "waitDrains", "blocked", "lock"} => async[target] = "none"
    BY <1>1, <1>3 DEF SetToken, JoinAsync, HooksLeft, HookWaitExpires, DrainsLeft,
                      WaitForDrains, DepthChanged, DrainWaitExpires, LoopState
  <2>2. \A m \in op.todo : life[m] = "started"
    BY <1>1 DEF LoopState
  <2> QED  BY <1>3, <1>5, <2>1, <2>2 DEF LoopState
<1>9. ModStates'
  BY <1>1, <1>3, <1>4 DEF ModStates, ModState
<1>10. ASSUME NEW k \in DOMAIN stack PROVE GoodFrame(stack[k])'
  <2> DEFINE f == stack[k]
  <2>1. GoodFrame(f) /\ stack' = stack
    BY <1>2, <1>3 DEF game
  <2>2. ~LoopHoldsActions => ~LoopHoldsActions'
    BY <1>3, <1>5 DEF LoopHoldsActions
  <2>3. (epc' \in AfterFlag /\ PreEntering(f) /\ f.mod = target) => hook[target] # "live"
    BY <1>3, <2>1 DEF GoodFrame, SetToken, JoinAsync, HooksLeft, HookWaitExpires, DrainsLeft,
                      WaitForDrains, DepthChanged, DrainWaitExpires
  <2>4. (epc' \in AfterHooks /\ target \notin forced' /\ PreInside(f)) => f.mod # target
    <3>1. CASE HooksLeft
      BY <1>3, <3>1, ZeroInFlight DEF HooksLeft, PreInside, Counted
    <3>2. CASE HookWaitExpires
      BY <3>2 DEF HookWaitExpires
    <3> QED  BY <1>4, <2>1, <3>1, <3>2
             DEF GoodFrame, SetToken, JoinAsync, DrainsLeft, WaitForDrains, DepthChanged,
                 DrainWaitExpires
  <2>5. DrainsOver' => DrainIdle(f)
    <3>1. CASE DrainsLeft
      <4>1. ~InDrain(f)
        BY <3>1, ZeroDepth DEF DrainsLeft
      <4> QED  BY <4>1 DEF DrainIdle, InDrain
    <3>2. CASE ~DrainsLeft
      <4>1. op' = op /\ (epc' \in AfterDrains => target \in forced')
        BY <3>2 DEF SetToken, JoinAsync, HooksLeft, HookWaitExpires, WaitForDrains,
                    DepthChanged, DrainWaitExpires
      <4>2. DrainsOver' => DrainsOver
        BY <1>3, <1>4, <4>1 DEF DrainsOver
      <4> QED  BY <2>1, <4>2 DEF GoodFrame
    <3> QED  BY <3>1, <3>2
  <2> QED  BY <1>3, <1>4, <2>1, <2>2, <2>3, <2>4, <2>5 DEF GoodFrame, FrameShape
<1> QED  BY <1>3, <1>6, <1>7, <1>8, <1>9, <1>10, LoopStep

LEMMA UninstallStepPreserves ==
  ASSUME IInv, UninstallStep
  PROVE  IInv'
<1>1. TypeOK /\ LoopState /\ (\A m \in Mods : ModState(m)) /\ TransitionsExact
  BY DEF IInv
<1>2. \A k \in DOMAIN stack : GoodFrame(stack[k])
  BY DEF IInv
<1> USE DEF Uninstalling, AfterJoin, AfterFlag, AfterHooks, AfterDrains
<1>3. CASE \/ SetToken \/ JoinAsync \/ HooksLeft \/ HookWaitExpires \/ DrainsLeft
           \/ WaitForDrains \/ DepthChanged \/ DrainWaitExpires
  BY <1>3, WaitsPreserve
<1>4. ASSUME NEW m \in Mods, BeginUninstall(m) PROVE IInv'
  <2>1. /\ UNCHANGED <<token, registry, queued, game, async, stopping, seen, forced, events, asked>>
        /\ epc = "next" /\ epc' = "token" /\ target' = m /\ op' = [op EXCEPT !.todo = @ \ {m}]
        /\ life' = [life EXCEPT ![m] = "unloading"] /\ transitions' = transitions + 1
    BY <1>4 DEF BeginUninstall
  <2>2. /\ op' \in [outer : BOOLEAN, inEvent : BOOLEAN, keybind : Mods \cup {NoMod},
                    todo : SUBSET Mods, starts : Nat, drained : BOOLEAN]
        /\ op'.outer = op.outer /\ op'.keybind = op.keybind /\ op'.drained = op.drained
    BY <1>1, <2>1 DEF TypeOK
  <2>3. TypeOK'
    <3>1. transitions' \in Nat
      BY <1>1, <2>1 DEF TypeOK
    <3>2. life' \in [Mods -> Life]
      BY <1>1, <1>4, <2>1 DEF TypeOK, Life
    <3> QED  BY <1>1, <1>4, <2>1, <2>2, <3>1, <3>2 DEF TypeOK, LoopPC, game
  <2>4. TransitionsExact'
    BY <1>1, <2>1, <2>2 DEF TransitionsExact
  <2>5. LoopState'
    BY <1>1, <1>4, <2>1 DEF LoopState, TypeOK
  <2>6. ModStates'
    <3>1. life[m] = "started" /\ m \in Mods
      BY <1>1, <1>4 DEF BeginUninstall, LoopState
    <3>2. \A x \in Mods : life'[x] = IF x = m THEN "unloading" ELSE life[x]
      BY <1>1, <2>1 DEF TypeOK
    <3> QED  BY <1>1, <2>1, <3>1, <3>2 DEF ModStates, ModState, Unlisted
  <2>7. ASSUME NEW k \in DOMAIN stack PROVE GoodFrame(stack[k])'
    <3>1. GoodFrame(stack[k]) /\ stack' = stack
      BY <1>2, <2>1 DEF game
    <3>2. \A x \in Mods : life'[x] = "closed" => life[x] = "closed"
      BY <1>1, <2>1 DEF TypeOK
    <3> QED  BY <2>1, <2>2, <3>1, <3>2 DEF GoodFrame, FrameShape, DrainsOver, LoopHoldsActions
  <2> QED  BY <2>1, <2>3, <2>4, <2>5, <2>6, <2>7, LoopStep
<1>5. ASSUME NEW h \in Hook, NEW L \in SUBSET Containers, NEW pc \in LoopPC,
             epc \in Uninstalling, pc \in Uninstalling \/ epc = "erase",
             hook' = [hook EXCEPT ![target] = h], hook[target] # "none" => h # "none",
             listens' = [listens EXCEPT ![target] = L], late' = late,
             UNCHANGED <<life, token, queued, game, async, stopping, target, op, seen,
                         forced, events, asked>>,
             epc' = pc, LoopState', TransitionsExact', transitions' \in Nat, ModState(target)',
             \A k \in DOMAIN stack : /\ DrainsOver' => DrainIdle(stack[k])
                                     /\ LoopHoldsActions' => ~Locked(stack[k]),
             epc' \in AfterFlag => hook'[target] # "live",
             epc' \in AfterHooks => epc \in AfterHooks
      PROVE  IInv'
  <2>1. target \in Mods /\ epc' # "main"
    BY <1>1, <1>5 DEF LoopState
  <2>2. /\ hook' \in [Mods -> Hook] /\ listens' \in [Mods -> SUBSET Containers]
        /\ h = hook'[target]
        /\ \A x \in Mods \ {target} : hook'[x] = hook[x] /\ listens'[x] = listens[x]
    BY <1>1, <1>5, <2>1 DEF TypeOK
  <2>3. TypeOK'
    BY <1>1, <1>5, <2>2 DEF TypeOK, game
  <2>4. ModStates'
    <3>1. ASSUME NEW x \in Mods \ {target} PROVE ModState(x)'
      BY <1>1, <1>5, <2>2 DEF ModState
    <3> QED  BY <1>5, <3>1 DEF ModStates
  <2>5. ASSUME NEW k \in DOMAIN stack PROVE GoodFrame(stack[k])'
    <3>1. GoodFrame(stack[k]) /\ stack' = stack
      BY <1>2, <1>5 DEF game
    <3>2. FrameShape(stack[k])'
      BY <1>5, <2>2, <3>1 DEF GoodFrame, FrameShape
    <3> QED  BY <1>5, <2>1, <3>1, <3>2 DEF GoodFrame
  <2> QED  BY <1>5, <2>3, <2>4, <2>5, LoopStep DEF ModStates
<1>6. CASE FlagHooks
  <2> DEFINE h == IF hook[target] = "live" THEN "unloading" ELSE hook[target]
  <2>1. /\ UNCHANGED <<life, token, listens, late, queued, game, async, stopping, transitions,
                       target, op, seen, forced, events, asked>>
        /\ epc = "flag" /\ epc' = "waitHooks" /\ target \in Mods /\ life[target] = "unloading"
        /\ hook' = [hook EXCEPT ![target] = h]
    BY <1>1, <1>6 DEF FlagHooks, LoopState
  <2>2. /\ h \in Hook /\ hook'[target] = h /\ h # "live" /\ (hook[target] # "none" => h # "none")
        /\ h = "freed" => hook[target] = "freed"
        /\ listens' = [listens EXCEPT ![target] = listens[target]]
        /\ listens[target] \in SUBSET Containers
    BY <1>1, <2>1 DEF TypeOK, Hook
  <2> HIDE DEF h
  <2>3. LoopState' /\ ModState(target)'
    BY <1>1, <2>1, <2>2 DEF LoopState, ModState
  <2>4. TransitionsExact' /\ transitions' \in Nat
    BY <1>1, <2>1 DEF TransitionsExact, TypeOK
  <2>5. \A k \in DOMAIN stack : /\ DrainsOver' => DrainIdle(stack[k])
                                /\ LoopHoldsActions' => ~Locked(stack[k])
    BY <1>2, <2>1 DEF GoodFrame, DrainsOver, LoopHoldsActions
  <2>6. "waitHooks" \in LoopPC
    BY DEF LoopPC
  <2> QED  BY <1>5, <2>1, <2>2, <2>3, <2>4, <2>5, <2>6
<1>7. CASE LockAndUnregister
  <2> DEFINE h == IF hook[target] \in {"live", "unloading"} THEN "removed" ELSE hook[target]
             L == listens[target] \cap {"endPlay"}
  <2>1. /\ UNCHANGED <<life, token, late, queued, game, async, stopping, transitions, target,
                       op, seen, forced, events, asked>>
        /\ epc = "lock" /\ epc' = "unloadLua" /\ target \in Mods /\ ~GameHoldsActions
        /\ life[target] = "unloading"
        /\ hook' = [hook EXCEPT ![target] = h] /\ listens' = [listens EXCEPT ![target] = L]
    BY <1>1, <1>7 DEF LockAndUnregister, LoopState
  <2>2. /\ h \in Hook /\ hook'[target] = h /\ h \notin {"live", "unloading", "freed"}
        /\ hook[target] # "none" => h # "none"
        /\ listens'[target] = L /\ L \subseteq {"endPlay"} /\ L \in SUBSET Containers
    BY <1>1, <2>1 DEF TypeOK, Hook, ModState, Containers
  <2> HIDE DEF h, L
  <2>3. LoopState' /\ ModState(target)'
    BY <1>1, <2>1, <2>2 DEF LoopState, ModState
  <2>4. TransitionsExact' /\ transitions' \in Nat
    BY <1>1, <2>1 DEF TransitionsExact, TypeOK
  <2>5. \A k \in DOMAIN stack : /\ DrainsOver' => DrainIdle(stack[k])
                                /\ LoopHoldsActions' => ~Locked(stack[k])
    BY <1>2, <2>1 DEF GoodFrame, DrainsOver, GameHoldsActions
  <2>6. "unloadLua" \in LoopPC
    BY DEF LoopPC
  <2> QED  BY <1>5, <2>1, <2>2, <2>3, <2>4, <2>5, <2>6
<1>8. CASE EraseHooks
  <2> DEFINE h == CASE hook[target] = "removed" -> "erased" [] hook[target] = "live" -> "freed"
                    [] OTHER -> hook[target]
  <2>1. /\ UNCHANGED <<life, token, listens, late, queued, game, async, stopping, target, op,
                       seen, forced, events, asked>>
        /\ epc = "erase" /\ epc' = "next" /\ target \in Mods /\ transitions' = transitions - 1
        /\ life[target] = "closed" /\ hook' = [hook EXCEPT ![target] = h]
    BY <1>1, <1>8 DEF EraseHooks, LoopState
  <2>2. /\ h \in Hook /\ hook'[target] = h /\ h # "live" /\ (hook[target] # "none" => h # "none")
        /\ h = "unloading" => hook[target] = "unloading"
        /\ h = "freed" => hook[target] \in {"live", "freed"}
        /\ listens' = [listens EXCEPT ![target] = listens[target]]
        /\ listens[target] \in SUBSET Containers
    BY <1>1, <2>1 DEF TypeOK, Hook
  <2> HIDE DEF h
  <2>3. LoopState' /\ ModState(target)'
    BY <1>1, <2>1, <2>2 DEF LoopState, ModState
  <2>4. TransitionsExact' /\ transitions' \in Nat
    BY <1>1, <2>1 DEF TransitionsExact, TypeOK
  <2>5. \A k \in DOMAIN stack : /\ DrainsOver' => DrainIdle(stack[k])
                                /\ LoopHoldsActions' => ~Locked(stack[k])
    BY <1>2, <2>1 DEF GoodFrame, DrainsOver, LoopHoldsActions
  <2>6. "next" \in LoopPC
    BY DEF LoopPC
  <2> QED  BY <1>5, <2>1, <2>2, <2>3, <2>4, <2>5, <2>6
<1>9. CASE EraseActions
  <2>1. /\ UNCHANGED <<life, token, registry, game, async, stopping, transitions, target, op, seen,
                       forced, events, asked>>
        /\ epc = "unloadLua" /\ epc' = "close" /\ queued' = queued \ {target}
    BY <1>9 DEF EraseActions
  <2>2. TypeOK'
    BY <1>1, <2>1 DEF TypeOK, LoopPC, game
  <2>3. TransitionsExact' /\ LoopState' /\ ModStates'
    BY <1>1, <2>1 DEF TransitionsExact, LoopState, ModStates, ModState
  <2>4. ASSUME NEW k \in DOMAIN stack PROVE GoodFrame(stack[k])'
    <3>1. GoodFrame(stack[k]) /\ stack' = stack
      BY <1>2, <2>1 DEF game
    <3> QED  BY <2>1, <3>1 DEF GoodFrame, FrameShape, DrainsOver, LoopHoldsActions
  <2> QED  BY <2>1, <2>2, <2>3, <2>4, LoopStep
<1>10. CASE CloseState
  <2>1. /\ UNCHANGED <<token, registry, queued, game, async, stopping, transitions, target, op,
                       seen, forced, events, asked>>
        /\ epc = "close" /\ epc' = "erase" /\ target \in Mods
        /\ life' = [life EXCEPT ![target] = "closed"]
    BY <1>1, <1>10 DEF CloseState, LoopState
  <2>2. TypeOK'
    <3>1. life' \in [Mods -> Life]
      BY <1>1, <2>1 DEF TypeOK, Life
    <3> QED  BY <1>1, <2>1, <3>1 DEF TypeOK, LoopPC, game
  <2>3. TransitionsExact'
    BY <1>1, <2>1 DEF TransitionsExact
  <2>4. LoopState'
    BY <1>1, <2>1 DEF LoopState, TypeOK
  <2>5. ModStates'
    BY <1>1, <2>1 DEF ModStates, ModState, LoopState, TypeOK
  <2>6. ASSUME NEW k \in DOMAIN stack PROVE GoodFrame(stack[k])'
    <3> DEFINE f == stack[k]
    <3>1. GoodFrame(f) /\ stack' = stack
      BY <1>2, <2>1 DEF game
    <3>2. target \notin forced => DrainIdle(f) /\ (PreInside(f) => f.mod # target)
      BY <2>1, <3>1 DEF GoodFrame, DrainsOver
    <3>3. f.phase # "event"
      <4>1. f.kind \in {"drain", "hook", "event"}
        <5>1. f \in Frame
          BY <1>1 DEF TypeOK
        <5> QED  BY <5>1 DEF Frame
      <4>2. f.kind # "event"
        BY <2>1, <3>1 DEF GoodFrame, LoopHoldsActions, Locked
      <4> QED  BY <3>1, <4>1, <4>2 DEF GoodFrame, FrameShape, DrainPhases
    <3>4. target \notin forced => target \notin f.batch \cup f.deferred
      <4>1. f \in Frame
        BY <1>1 DEF TypeOK
      <4> QED  BY <3>1, <3>2, <4>1 DEF GoodFrame, FrameShape, Frame, DrainIdle, InLua
    <3>5. \A x \in Mods : x # target => life'[x] = life[x]
      BY <1>1, <2>1 DEF TypeOK
    <3> QED  BY <2>1, <3>1, <3>2, <3>3, <3>4, <3>5
             DEF GoodFrame, FrameShape, DrainsOver, LoopHoldsActions
  <2> QED  BY <2>1, <2>2, <2>3, <2>4, <2>5, <2>6, LoopStep
<1> QED  BY <1>3, <1>4, <1>6, <1>7, <1>8, <1>9, <1>10 DEF UninstallStep

(* The event loop runs Lua: main.lua, or an unload handler.                  *)
LEMMA LoopCallsPreserve ==
  ASSUME IInv, MainCalls \/ HandlerCalls
  PROVE  IInv'
<1>1. /\ UNCHANGED <<life, token, game, async, stopping, transitions, loop, events, asked>>
      /\ epc \in {"main", "unloadLua"} /\ LuaCall(target)
  BY DEF MainCalls, HandlerCalls
<1>2. /\ queued' \subseteq Mods /\ RegistryTyped /\ HookMoves
      /\ LoopState' /\ ModStates'
  BY <1>1, LuaCallKeeps
<1>3. Frames' /\ DepthExact' /\ InFlightExact' /\ TransitionsExact'
  BY <1>1, <1>2, GameStill
<1>4. TypeOK'
  BY <1>1, <1>2 DEF IInv, TypeOK, RegistryTyped, game, loop
<1> QED  BY <1>2, <1>3, <1>4 DEF IInv, Frames, ModStates

(* A callback is registered in a container, for a mod that is not closed.    *)
LEMMA RegistersPreserve ==
  ASSUME IInv, Registers
  PROVE  IInv'
<1>1. CASE HandlerCalls
  BY <1>1, LoopCallsPreserve
<1>2. ASSUME NEW m \in Mods, NEW c \in Events, RegisterCallback(m, c) PROVE IInv'
  <2>1. /\ listens' = [listens EXCEPT ![m] = @ \cup {c}] /\ Records(m) /\ Open(m)
        /\ UNCHANGED <<life, token, hook, queued, game, async, stopping, transitions, loop,
                       events, asked>>
    BY <1>2 DEF RegisterCallback
  <2>2. TypeOK /\ LoopState /\ (\A x \in Mods : ModState(x)) /\ c \in Containers
    BY ConstantsAssumption DEF IInv
  <2>3. late \subseteq late' /\ late' \subseteq Mods /\ HookMoves
    BY <1>2, <2>1, <2>2 DEF Records, TypeOK, HookMoves
  <2>4. listens' \in [Mods -> SUBSET Containers]
        /\ \A x \in Mods \ {m} : listens'[x] = listens[x]
    BY <1>2, <2>1, <2>2 DEF TypeOK
  <2>5. TypeOK'
    BY <2>1, <2>2, <2>3, <2>4 DEF TypeOK, game, loop
  <2>6. LoopState'
    <3>1. (epc \in {"unloadLua", "close", "erase"} /\ target = m) => target \in late'
      BY <2>1 DEF Records
    <3> QED  BY <2>1, <2>2, <2>3, <2>4, <3>1
             DEF LoopState, loop, Uninstalling, AfterJoin, AfterFlag, AfterHooks, AfterDrains
  <2>7. ModStates'
    BY <2>1, <2>2, <2>3, <2>4 DEF ModStates, ModState, Open, loop
  <2>8. Frames' /\ DepthExact' /\ InFlightExact' /\ TransitionsExact'
    BY <2>1, <2>3, GameStill
  <2> QED  BY <2>5, <2>6, <2>7, <2>8 DEF IInv, Frames, ModStates
<1> QED  BY <1>1, <1>2 DEF Registers

LEMMA StartStepPreserves ==
  ASSUME IInv, StartStep
  PROVE  IInv'
<1>1. TypeOK /\ LoopState /\ (\A m \in Mods : ModState(m)) /\ TransitionsExact
  BY DEF IInv
<1>2. \A k \in DOMAIN stack : GoodFrame(stack[k])
  BY DEF IInv
<1> USE DEF Uninstalling, AfterJoin, AfterFlag, AfterHooks, AfterDrains
<1>3. CASE MainCalls
  BY <1>3, LoopCallsPreserve
<1>4. CASE MainReturns
  <2>1. /\ UNCHANGED <<token, registry, queued, game, async, stopping, transitions, target, op,
                       seen, forced, events, asked>>
        /\ epc = "main" /\ epc' = "next" /\ target \in Mods
        /\ life' = [life EXCEPT ![target] = "started"]
    BY <1>1, <1>4 DEF MainReturns, LoopState
  <2>2. TypeOK'
    <3>1. life' \in [Mods -> Life]
      BY <1>1, <2>1 DEF TypeOK, Life
    <3> QED  BY <1>1, <2>1, <3>1 DEF TypeOK, LoopPC, game
  <2>3. TransitionsExact' /\ LoopState'
    BY <1>1, <2>1 DEF TransitionsExact, LoopState
  <2>4. ModStates'
    BY <1>1, <2>1 DEF ModStates, ModState, LoopState, TypeOK
  <2>5. ASSUME NEW k \in DOMAIN stack PROVE GoodFrame(stack[k])'
    <3>1. GoodFrame(stack[k]) /\ stack' = stack
      BY <1>2, <2>1 DEF game
    <3>2. \A x \in Mods : life'[x] = "closed" => life[x] = "closed"
      BY <1>1, <2>1 DEF TypeOK
    <3> QED  BY <2>1, <3>1, <3>2 DEF GoodFrame, FrameShape, DrainsOver, LoopHoldsActions
  <2> QED  BY <2>1, <2>2, <2>3, <2>4, <2>5, LoopStep
<1>5. ASSUME NEW m \in Mods, StartMod(m) PROVE IInv'
  <2>1. /\ UNCHANGED <<token, registry, queued, game, stopping, transitions, seen, forced, events,
                       asked>>
        /\ epc = "next" /\ epc' = "main" /\ life[m] = "unborn" /\ op.starts > 0
        /\ target' = m /\ op' = [op EXCEPT !.starts = @ - 1]
        /\ life' = [life EXCEPT ![m] = "starting"] /\ async' = [async EXCEPT ![m] = "idle"]
    BY <1>5 DEF StartMod, SetAsync
  <2>2. /\ op' \in [outer : BOOLEAN, inEvent : BOOLEAN, keybind : Mods \cup {NoMod},
                    todo : SUBSET Mods, starts : Nat, drained : BOOLEAN]
        /\ op'.outer = op.outer /\ op'.keybind = op.keybind /\ op'.drained = op.drained
    <3>1. op \in [outer : BOOLEAN, inEvent : BOOLEAN, keybind : Mods \cup {NoMod},
                  todo : SUBSET Mods, starts : Nat, drained : BOOLEAN]
      BY <1>1 DEF TypeOK
    <3>2. op.starts - 1 \in Nat
      BY <2>1, <3>1
    <3> QED  BY <2>1, <3>1, <3>2
  <2>3. TypeOK'
    <3>1. life' \in [Mods -> Life] /\ async' \in [Mods -> {"none", "idle"} \cup InLua]
      BY <1>1, <1>5, <2>1 DEF TypeOK, Life
    <3> QED  BY <1>1, <1>5, <2>1, <2>2, <3>1 DEF TypeOK, LoopPC, game
  <2>4. TransitionsExact'
    BY <1>1, <2>1, <2>2 DEF TransitionsExact
  <2>5. LoopState'
    BY <1>1, <1>5, <2>1 DEF LoopState, TypeOK
  <2>6. ModStates'
    BY <1>1, <1>5, <2>1 DEF ModStates, ModState, TypeOK
  <2>7. ASSUME NEW k \in DOMAIN stack PROVE GoodFrame(stack[k])'
    <3> DEFINE f == stack[k]
    <3>1. GoodFrame(f) /\ stack' = stack
      BY <1>2, <2>1 DEF game
    <3>2. \A x \in Mods : life'[x] = "closed" => life[x] = "closed"
      BY <1>1, <2>1 DEF TypeOK
    <3>3. f.kind = "hook" => f.mod # m
      BY <1>1, <1>5, <2>1, <3>1 DEF GoodFrame, FrameShape, ModState
    <3> QED  BY <2>1, <2>2, <3>1, <3>2, <3>3
             DEF GoodFrame, FrameShape, DrainsOver, LoopHoldsActions
  <2> QED  BY <2>1, <2>3, <2>4, <2>5, <2>6, <2>7, LoopStep
<1> QED  BY <1>3, <1>4, <1>5 DEF StartStep

-----------------------------------------------------------------------------
(* The invariant holds initially, and every step keeps it.                   *)

LEMMA InitInv == Init => IInv
<1> SUFFICES ASSUME Init PROVE IInv
  OBVIOUS
<1>1. /\ stack = <<>> /\ DOMAIN stack = {} /\ depth = 0 /\ transitions = 0
      /\ epc = "idle" /\ op = NoOp /\ inFlight = [m \in Mods |-> 0] /\ queued = {}
  BY DEF Init
<1>2. TypeOK
  <2>1. life \in [Mods -> Life] /\ hook \in [Mods -> Hook]
        /\ async \in [Mods -> {"none", "idle"} \cup InLua] /\ inFlight \in [Mods -> Nat]
        /\ listens \in [Mods -> SUBSET Containers] /\ late \subseteq Mods
    BY ConstantsAssumption DEF Init, Life, Hook
  <2> QED  BY <2>1, ConstantsAssumption DEF Init, TypeOK, NoOp, LoopPC
<1>3. \A k \in DOMAIN stack : GoodFrame(stack[k])
  BY <1>1
<1>4. DepthExact /\ InFlightExact
  <2>1. {k \in DOMAIN stack : InDrain(stack[k])} = {}
        /\ \A m \in Mods : {k \in DOMAIN stack : Counted(stack[k], m)} = {}
    BY <1>1
  <2> QED  BY <1>1, <2>1, FS_EmptySet DEF DepthExact, InFlightExact
<1>5. TransitionsExact /\ LoopState
  BY <1>1 DEF TransitionsExact, LoopState, NoOp, Uninstalling, AfterJoin, AfterFlag,
              AfterHooks, AfterDrains
<1>6. \A m \in Mods : ModState(m)
  BY ConstantsAssumption DEF Init, ModState
<1> QED  BY <1>2, <1>3, <1>4, <1>5, <1>6 DEF IInv

LEMMA NextInv == IInv /\ [Next]_vars => IInv'
<1> SUFFICES ASSUME IInv, [Next]_vars PROVE IInv'
  OBVIOUS
<1>1. CASE Next
  BY <1>1, EnterPreserves, DrainStepPreserves, HookStepPreserves, EventReturnsPreserves,
     CallsPreserve, AsyncPreserves, RequestStepPreserves, UninstallStepPreserves,
     StartStepPreserves, RegistersPreserve DEF Next
<1>2. CASE UNCHANGED vars
  <2>1. UNCHANGED <<game, loop, life, transitions, registry>>
    BY <1>2 DEF vars
  <2>2. Frames' /\ DepthExact' /\ InFlightExact' /\ TransitionsExact'
    BY <2>1, GameStill DEF HookMoves
  <2>3. TypeOK' /\ LoopState' /\ ModStates'
    BY <1>2 DEF IInv, TypeOK, LoopState, ModStates, ModState, vars, game, loop
  <2> QED  BY <2>2, <2>3 DEF IInv, Frames, ModStates
<1> QED  BY <1>1, <1>2

(* The inductive invariant holds in every reachable state, for any number   *)
(* of mods, frames and requests.                                            *)
THEOREM InvariantHolds == Spec => []IInv
BY InitInv, NextInv, PTL DEF Spec

(* Every variable keeps its type: no counter goes below zero.                *)
THEOREM TypeCorrect == Spec => []TypeOK
<1>1. IInv => TypeOK
  BY DEF IInv
<1> QED  BY <1>1, InvariantHolds, PTL

(* No other thread is in the Lua of a mod whose unload handlers run or whose *)
(* state is being closed, when no wait expired.                              *)
THEOREM TeardownIsAlone == Spec => []TeardownAlone
<1>1. IInv => TeardownAlone
  <2> SUFFICES ASSUME IInv, epc \in {"unloadLua", "close"}, target \notin forced
               PROVE  /\ async[target] = "none"
                      /\ \A k \in DOMAIN stack :
                           Inside(stack[k], target) => InPostCallback(stack[k])
    BY DEF TeardownAlone
  <2> USE DEF Uninstalling, AfterJoin, AfterFlag, AfterHooks, AfterDrains
  <2>1. async[target] = "none"
    BY DEF IInv, LoopState
  <2>2. ASSUME NEW k \in DOMAIN stack, Inside(stack[k], target)
        PROVE  InPostCallback(stack[k])
    <3> DEFINE f == stack[k]
    <3>1. f \in Frame /\ GoodFrame(f)
      BY DEF IInv, TypeOK
    <3>2. ~Locked(f) /\ DrainIdle(f) /\ (PreInside(f) => f.mod # target)
      BY <3>1 DEF GoodFrame, LoopHoldsActions, DrainsOver
    <3>3. f.kind = "hook"
      BY <2>2, <3>1, <3>2 DEF Inside, InLua, DrainIdle, Locked, Frame
    <3>4. f.phase # "after"
      BY <2>2, <3>1, <3>3 DEF GoodFrame, FrameShape, Inside
    <3> QED  BY <2>2, <3>1, <3>2, <3>3, <3>4
             DEF InPostCallback, GoodFrame, FrameShape, Inside, PreInside
  <2> QED  BY <2>1, <2>2
<1> QED  BY <1>1, InvariantHolds, PTL

(* Nothing leads to a state that was closed after its waits were over, but   *)
(* the EndPlay callbacks and what an unload handler registered late.         *)
THEOREM ClosedIsUntouched == Spec => []ClosedStateUntouched
<1>1. IInv => ClosedStateUntouched
  <2> SUFFICES ASSUME IInv, NEW m \in Mods, life[m] = "closed", m \notin forced
               PROVE  /\ async[m] = "none" /\ m \notin queued
                      /\ m \notin late => Unlisted(m)
                      /\ \A k \in DOMAIN stack :
                           /\ m \notin stack[k].deferred
                           /\ m \in stack[k].batch => stack[k].phase = "notify" /\ m \in late
                           /\ Inside(stack[k], m) =>
                                InPostCallback(stack[k]) \/ Forgotten(stack[k])
    BY DEF ClosedStateUntouched
  <2>1. async[m] = "none" /\ m \notin queued /\ (m \notin late => Unlisted(m))
    BY DEF IInv, ModState
  <2>2. ASSUME NEW k \in DOMAIN stack
        PROVE  /\ m \notin stack[k].deferred
               /\ m \in stack[k].batch => stack[k].phase = "notify" /\ m \in late
               /\ Inside(stack[k], m) => InPostCallback(stack[k]) \/ Forgotten(stack[k])
    <3> DEFINE f == stack[k]
    <3>1. f \in Frame /\ GoodFrame(f)
      BY DEF IInv, TypeOK
    <3>2. /\ m \notin f.deferred /\ (m \in f.batch => f.phase = "notify" /\ m \in late)
          /\ (PreInside(f) \/ f.phase = "event") =>
               f.mod # m \/ (f.phase = "event" /\ m \in late)
      BY <3>1 DEF GoodFrame
    <3>3. ASSUME Inside(f, m) PROVE InPostCallback(f) \/ Forgotten(f)
      <4>1. f.mod = m /\ f.pc \in InLua
        BY <3>3 DEF Inside
      <4>2. CASE f.kind = "drain"
        BY <3>1, <3>2, <4>1, <4>2 DEF GoodFrame, FrameShape, Forgotten
      <4>3. CASE f.kind = "hook"
        BY <3>1, <3>2, <4>1, <4>3 DEF GoodFrame, FrameShape, PreInside, InPostCallback
      <4>4. CASE f.kind = "event"
        BY <3>1, <3>2, <4>1, <4>4 DEF GoodFrame, FrameShape, Forgotten
      <4> QED  BY <3>1, <4>2, <4>3, <4>4 DEF Frame
    <3> QED  BY <3>2, <3>3
  <2> QED  BY <2>1, <2>2
<1> QED  BY <1>1, InvariantHolds, PTL

(* Neither a drain nor a hook callback is in the Lua of a restarted mod while *)
(* its main.lua runs.                                                        *)
THEOREM StartIsAlone == Spec => []StartAlone
<1>1. IInv => StartAlone
  <2> SUFFICES ASSUME IInv, epc = "main", op.outer, op.drained, forced = {},
                      NEW k \in DOMAIN stack, Inside(stack[k], target)
               PROVE  stack[k].kind = "event"
    BY DEF StartAlone
  <2>1. stack[k] \in Frame /\ GoodFrame(stack[k])
    BY DEF IInv, TypeOK
  <2>2. stack[k].kind # "drain"
    BY <2>1 DEF GoodFrame, DrainsOver, DrainIdle, Inside, InLua
  <2>3. stack[k].kind # "hook"
    BY <2>1 DEF GoodFrame, Outside, Inside, InLua
  <2> QED  BY <2>1, <2>2, <2>3 DEF Frame
<1> QED  BY <1>1, InvariantHolds, PTL

-----------------------------------------------------------------------------
(* Nothing enters a closed Lua state, not even when a wait of the unload    *)
(* expired.  IInv leaves those states out: a drain may keep actions of a    *)
(* mod that was closed under it.  What keeps it out then is the unload      *)
(* token, and what keeps the notify callbacks out, which do not look at the *)
(* token, is the actions mutex.  EntryInv says so.                          *)

(* What a frame may lead to: no mod that never ran; and, from a list of      *)
(* notify callbacks, no closed one that did not register too late.          *)
Harmless(f) ==
  /\ \A m \in f.batch \cup f.deferred : life[m] # "unborn"
  /\ (f.kind = "drain" /\ f.phase = "notify") =>
       \A m \in f.batch \cup f.deferred : life[m] # "closed" \/ m \in late

EntryInv ==
  /\ epc \in Uninstalling \ {"token"} => target \in token
  /\ \A m \in Mods : life[m] = "closed" => m \in token
  /\ \A m \in queued : life[m] # "unborn"
  /\ \A k \in DOMAIN stack : Harmless(stack[k])

-----------------------------------------------------------------------------
(* Steps of the game thread: they change neither a mod's life nor its token. *)

Still == UNCHANGED <<life, token, epc, target>> /\ late \subseteq late'

LEMMA GameStepKeepsEntry ==
  ASSUME EntryInv, Still, NEW i,
         \A k \in DOMAIN stack' : k # i => k \in DOMAIN stack /\ stack'[k] = stack[k],
         i \in DOMAIN stack' => Harmless(stack'[i]),
         \A m \in queued' : life[m] # "unborn"
  PROVE  EntryInv'
<1>1. \A k \in DOMAIN stack' : Harmless(stack'[k])
  BY DEF EntryInv
<1>2. \A k \in DOMAIN stack' : Harmless(stack[k])'
  BY <1>1 DEF Harmless, Still
<1> QED  BY <1>2 DEF EntryInv, Still

(* The new top leads nowhere the old one did not.                           *)
Narrows(f) ==
  \/ f.batch = {} /\ f.deferred = {}
  \/ /\ f.kind = Top.kind /\ f.phase = Top.phase
     /\ f.batch \cup f.deferred \subseteq Top.batch \cup Top.deferred

LEMMA TopNarrows ==
  ASSUME IInv, EntryInv, Still, stack # <<>>, NEW f, SetTop(f), Narrows(f),
         \A m \in queued' : life[m] # "unborn"
  PROVE  EntryInv'
<1>1. stack \in Seq(Frame)
  BY DEF IInv, TypeOK
<1>2. /\ Len(stack) \in DOMAIN stack /\ stack'[Len(stack)] = f
      /\ \A k \in DOMAIN stack' : k \in DOMAIN stack
      /\ \A k \in DOMAIN stack' : k # Len(stack) => stack'[k] = stack[k]
  BY <1>1 DEF SetTop
<1>3. Harmless(Top)
  BY <1>2 DEF EntryInv, Top
<1>4. Harmless(f)
  BY <1>3 DEF Harmless, Narrows
<1> QED  BY <1>2, <1>4, GameStepKeepsEntry

LEMMA PopKeepsEntry ==
  ASSUME IInv, EntryInv, Still, stack # <<>>, Pop, queued' = queued
  PROVE  EntryInv'
<1>1. stack \in Seq(Frame)
  BY DEF IInv, TypeOK
<1>2. /\ Len(stack) \notin DOMAIN stack'
      /\ \A k \in DOMAIN stack' : k \in DOMAIN stack /\ stack'[k] = stack[k]
  BY <1>1, PoppedFacts, PopFacts DEF Pop
<1> QED  BY <1>2, GameStepKeepsEntry DEF EntryInv

LEMMA PushKeepsEntry ==
  ASSUME IInv, EntryInv, Still, NEW f, stack' = Append(stack, f),
         f.batch = {}, f.deferred = {}, queued' = queued
  PROVE  EntryInv'
<1>1. stack \in Seq(Frame)
  BY DEF IInv, TypeOK
<1>2. /\ stack'[Len(stack) + 1] = f
      /\ \A k \in DOMAIN stack' : k # Len(stack) + 1 =>
           k \in DOMAIN stack /\ stack'[k] = stack[k]
  BY <1>1
<1>3. Harmless(f)
  BY DEF Harmless
<1> QED  BY <1>2, <1>3, GameStepKeepsEntry DEF EntryInv

(* What a container holds is of a mod that is open, or registered too late;  *)
(* only those of EndPlay hold callbacks of other closed mods.               *)
LEMMA ListsOpen ==
  ASSUME IInv, NEW m \in Mods, NEW c \in listens[m], c # "endPlay"
  PROVE  Open(m) \/ m \in late
BY DEF IInv, ModState, Unlisted, Open

LEMMA StackStill ==
  ASSUME EntryInv, Still, UNCHANGED stack, \A m \in queued' : life[m] # "unborn"
  PROVE  EntryInv'
BY GameStepKeepsEntry DEF EntryInv

-----------------------------------------------------------------------------
LEMMA EnterKeepsEntry ==
  ASSUME IInv, EntryInv, Enter
  PROVE  EntryInv'
<1> USE DEF Push, Still, loop
<1>1. CASE EnterDrain
  BY <1>1, PushKeepsEntry DEF EnterDrain
<1>2. CASE \E m \in Mods : FireHook(m)
  BY <1>2, PushKeepsEntry DEF FireHook
<1>3. CASE \E m \in Mods, c \in Events : FireEvent(m, c)
  BY <1>3, PushKeepsEntry DEF FireEvent
<1> QED  BY <1>1, <1>2, <1>3 DEF Enter

LEMMA DrainKeepsEntry ==
  ASSUME IInv, EntryInv, DrainStep
  PROVE  EntryInv'
<1> USE DEF Still, loop
<1>1. CASE DrainTest
  <2>1. stack # <<>> /\ Top.batch = {} /\ Top.deferred = {} /\ Top.pc = "test"
        /\ Top \in Frame /\ Top.phase \in DrainPhases
    BY <1>1, TopIsGood DEF DrainTest, At, GoodFrame, FrameShape, InLua
  <2> DEFINE lock == [Top EXCEPT !.pc = "lock"]
  <2>2. Narrows(NextPhase(Top)) /\ Narrows(lock)
    BY <2>1 DEF Narrows, NextPhase, Frame, DrainPhases
  <2>3. SetTop(NextPhase(Top)) \/ SetTop(lock)
    BY <1>1 DEF DrainTest, Goto
  <2> QED  BY <1>1, <2>1, <2>2, <2>3, TopNarrows DEF DrainTest, EntryInv
<1>2. CASE DrainCollect
  <2>1. /\ stack # <<>> /\ Top \in Frame /\ Top.deferred = {} /\ stack \in Seq(Frame)
        /\ Len(stack) \in DOMAIN stack /\ queued \in SUBSET Mods
    BY <1>2, TopIsGood DEF DrainCollect, At, GoodFrame, FrameShape, InLua, IInv, TypeOK
  <2> DEFINE run(S) == [Top EXCEPT !.pc = "run", !.batch = S]
  <2>2. PICK S \in SUBSET (IF Top.phase = "notify" THEN {m \in Mods : "event" \in listens[m]} ELSE queued) :
          SetTop(run(S)) /\ queued' = IF Top.phase = "simple" THEN queued \ S ELSE queued
    BY <1>2 DEF DrainCollect
  <2>3. run(S).batch = S /\ run(S).deferred = {} /\ run(S).phase = Top.phase
    BY <2>1 DEF Frame
  <2>4. Harmless(run(S))
    <3>1. CASE Top.phase = "notify"
      <4>1. \A m \in S : Open(m) \/ m \in late
        BY <2>2, <3>1, ListsOpen
      <4>2. \A m \in S : life[m] # "unborn"
        BY <2>2, <3>1 DEF IInv, ModState
      <4> QED  BY <2>3, <4>1, <4>2 DEF Harmless, Open
    <3>2. CASE Top.phase # "notify"
      BY <2>2, <2>3, <3>2 DEF Harmless, EntryInv
    <3> QED  BY <3>1, <3>2
  <2> HIDE DEF run
  <2>5. /\ stack'[Len(stack)] = run(S)
        /\ \A k \in DOMAIN stack' : k \in DOMAIN stack
        /\ \A k \in DOMAIN stack' : k # Len(stack) => stack'[k] = stack[k]
    BY <2>1, <2>2 DEF SetTop
  <2> QED  BY <1>2, <2>2, <2>4, <2>5, GameStepKeepsEntry DEF DrainCollect, EntryInv
<1>3. CASE DrainAction
  <2>1. stack # <<>> /\ Top \in Frame
    BY <1>3, TopIsGood DEF DrainAction, At
  <2> DEFINE put(m) == [Top EXCEPT !.batch = @ \ {m},
                                   !.deferred = IF m \notin token /\ Top.phase = "simple"
                                                  THEN @ \cup {m} ELSE @]
             in(m) == [Top EXCEPT !.pc = "inLua", !.mod = m]
  <2>2. PICK m \in Top.batch : SetTop(put(m)) \/ SetTop(in(m))
    BY <1>3 DEF DrainAction
  <2>3. Narrows(put(m)) /\ Narrows(in(m))
    BY <2>1, <2>2 DEF Narrows, Frame
  <2> QED  BY <1>3, <2>1, <2>2, <2>3, TopNarrows DEF DrainAction, EntryInv
<1>4. CASE DrainActionReturns
  <2>1. stack # <<>> /\ Top \in Frame
    BY <1>4, TopIsGood DEF DrainActionReturns, At
  <2> DEFINE out(rest) == [Top EXCEPT !.pc = "run", !.mod = NoMod, !.batch = rest]
  <2>2. PICK rest \in {Top.batch, Top.batch \ {Top.mod}} : SetTop(out(rest))
    BY <1>4 DEF DrainActionReturns
  <2>3. Narrows(out(rest))
    BY <2>1, <2>2 DEF Narrows, Frame
  <2> QED  BY <1>4, <2>1, <2>2, <2>3, TopNarrows DEF DrainActionReturns, EntryInv
<1>5. CASE DrainPhaseEnds
  <2>1. /\ stack # <<>> /\ Top \in Frame /\ Top.batch = {} /\ Top.phase \in DrainPhases
        /\ Harmless(Top)
    <3>1. Len(stack) \in DOMAIN stack /\ stack # <<>>
      BY <1>5 DEF IInv, TypeOK, DrainPhaseEnds, At
    <3> QED  BY <1>5, <3>1, TopIsGood DEF DrainPhaseEnds, At, EntryInv, Top
  <2> DEFINE f == NextPhase([Top EXCEPT !.deferred = {}])
  <2>2. f.batch = {} /\ f.deferred = {}
    BY <2>1 DEF NextPhase, Frame, DrainPhases
  <2>3. \A m \in queued' : life[m] # "unborn"
    BY <1>5, <2>1 DEF DrainPhaseEnds, Harmless, EntryInv
  <2> QED  BY <1>5, <2>1, <2>2, <2>3, TopNarrows DEF DrainPhaseEnds, Narrows
<1>6. CASE DrainLeave
  <2>1. stack # <<>> /\ Top \in Frame
    BY <1>6, TopIsGood DEF DrainLeave, At
  <2>2. \E f : SetTop(f) /\ Narrows(f)
    BY <1>6, <2>1 DEF DrainLeave, Goto, Narrows, Frame
  <2> QED  BY <1>6, <2>1, <2>2, TopNarrows DEF DrainLeave, EntryInv
<1>7. CASE DrainMerge
  BY <1>7, PopKeepsEntry DEF DrainMerge, At
<1> QED  BY <1>1, <1>2, <1>3, <1>4, <1>5, <1>6, <1>7 DEF DrainStep

LEMMA HookKeepsEntry ==
  ASSUME IInv, EntryInv, HookStep
  PROVE  EntryInv'
<1> USE DEF Still, loop
<1>1. stack # <<>> /\ queued' = queued /\ Still
  BY DEF HookStep, At, PreTest, PreCount, PreFlag, PreReturns, FirePost, PostTest,
         ReadUnloading, ReadScheduled, PostCount, PostReturns, GameErasesHook, DanglingEnds
<1>2. Top.batch = {} /\ Top.deferred = {} /\ Top \in Frame
  BY <1>1, TopIsGood
     DEF HookStep, At, PreTest, PreCount, PreFlag, PreReturns, FirePost, PostTest,
         ReadUnloading, ReadScheduled, PostCount, PostReturns, GameErasesHook, DanglingEnds,
         GoodFrame, FrameShape
<1> DEFINE at(pc) == [Top EXCEPT !.pc = pc]
           in == [Top EXCEPT !.pc = "inLua"]
           post == [Top EXCEPT !.phase = "post", !.pc = "test"]
           after == [Top EXCEPT !.phase = "after", !.pc = "unloadingFlag"]
<1>3. (\A pc : Narrows(at(pc))) /\ Narrows(in) /\ Narrows(post) /\ Narrows(after)
  BY <1>2 DEF Narrows, Frame
<1>4. Pop \/ SetTop(in) \/ SetTop(post) \/ SetTop(after) \/ \E pc : SetTop(at(pc))
  <2> DEFINE move == Pop \/ SetTop(in) \/ SetTop(post) \/ SetTop(after)
                     \/ \E pc : SetTop(at(pc))
  <2>1. \A pc : Goto(pc) => SetTop(at(pc))
    BY DEF Goto
  <2> HIDE DEF at, in, post, after
  <2>2. CASE PreTest \/ PreCount \/ PreReturns \/ PostCount
    BY <2>1, <2>2 DEF PreTest, PreCount, PreReturns, PostCount
  <2>3. CASE PreFlag
    BY <2>1, <2>3 DEF PreFlag, in
  <2>4. CASE FirePost \/ PostTest
    BY <2>1, <2>4 DEF FirePost, PostTest, post
  <2>5. CASE ReadUnloading \/ ReadScheduled
    BY <2>1, <2>5 DEF ReadUnloading, ReadScheduled
  <2>6. CASE PostReturns \/ GameErasesHook \/ DanglingEnds
    BY <2>6 DEF PostReturns, GameErasesHook, DanglingEnds, after
  <2> QED  BY <2>2, <2>3, <2>4, <2>5, <2>6 DEF HookStep
<1> HIDE DEF at, in, post, after
<1> QED  BY <1>1, <1>3, <1>4, TopNarrows, PopKeepsEntry DEF EntryInv

(* A Lua function queues work of an open mod only.                          *)
LEMMA LuaCallQueuesOpen ==
  ASSUME NEW m, EntryInv, LuaCall(m)
  PROVE  (\A n \in queued' : life[n] # "unborn") /\ late \subseteq late'
BY DEF LuaCall, Open, EntryInv, Records

LEMMA CallsKeepEntry ==
  ASSUME IInv, EntryInv, GameCalls \/ CallStep \/ EventReturns
  PROVE  EntryInv'
<1> USE DEF Still, loop
<1>1. CASE EventReturns
  BY <1>1, PopKeepsEntry DEF EventReturns, At
<1> DEFINE at(pc) == [Top EXCEPT !.pc = pc]
<1>2. stack # <<>> => \A pc : Narrows(at(pc))
  BY TopIsGood DEF Narrows, Frame
<1>3. \A pc : Goto(pc) => SetTop(at(pc))
  BY DEF Goto
<1> HIDE DEF at
<1>4. CASE GameCalls
  BY <1>2, <1>3, <1>4, TopNarrows DEF GameCalls, TopIn, EntryInv
<1>5. CASE GameGetsActions
  BY <1>2, <1>3, <1>5, TopNarrows, LuaCallQueuesOpen DEF GameGetsActions, TopIn
<1>6. CASE GameGetsEvents
  BY <1>2, <1>3, <1>6, TopNarrows DEF GameGetsEvents, TopIn, EntryInv
<1> QED  BY <1>1, <1>4, <1>5, <1>6 DEF CallStep

-----------------------------------------------------------------------------
(* Steps of the other threads: they leave the stack alone.                  *)

LEMMA AsyncKeepsEntry ==
  ASSUME EntryInv, NEW m \in Mods, AsyncStep(m)
  PROVE  EntryInv'
<1> USE DEF Still, loop, game
<1>1. CASE AsyncGetsActions(m)
  BY <1>1, StackStill, LuaCallQueuesOpen DEF AsyncGetsActions
<1>2. CASE ~AsyncGetsActions(m)
  BY <1>2, StackStill DEF AsyncStep, AsyncRuns, AsyncReturns, AsyncCalls, AsyncGetsEvents,
                          AsyncStops, EntryInv
<1> QED  BY <1>1, <1>2

LEMMA RegistersKeepEntry ==
  ASSUME EntryInv, Registers
  PROVE  EntryInv'
<1> USE DEF Still, loop, game
<1>1. CASE HandlerCalls
  <2>1. late \subseteq late'
    BY <1>1 DEF HandlerCalls, LuaCall, Records
  <2> QED  BY <1>1, <2>1, StackStill, LuaCallQueuesOpen DEF HandlerCalls
<1>2. CASE \E m \in Mods, c \in Events : RegisterCallback(m, c)
  <2>1. late \subseteq late'
    BY <1>2 DEF RegisterCallback, Records
  <2> QED  BY <1>2, <2>1, StackStill DEF RegisterCallback, EntryInv
<1> QED  BY <1>1, <1>2 DEF Registers

LEMMA RequestsKeepEntry ==
  ASSUME EntryInv, OthersAsk \/ RequestStep
  PROVE  EntryInv'
<1>1. UNCHANGED <<life, token, queued, stack, target, late>>
  BY DEF OthersAsk, RequestStep, RunEvent, KeybindAsks, KeybindReturns, EndRequest,
         AutoReload, PressKey, Begin, loop, game
<1>2. epc' \in Uninstalling => epc' = epc
  BY DEF OthersAsk, RequestStep, RunEvent, KeybindAsks, KeybindReturns, EndRequest,
         AutoReload, PressKey, Begin, loop, game, Uninstalling, AfterJoin, AfterFlag,
         AfterHooks, AfterDrains
<1>3. \A k \in DOMAIN stack' : Harmless(stack[k])'
  BY <1>1 DEF EntryInv, Harmless
<1> QED  BY <1>1, <1>2, <1>3 DEF EntryInv

(* The steps of an unload; the state is closed under the mutex, which a      *)
(* list of notify callbacks holds.                                          *)
LEMMA UninstallKeepsEntry ==
  ASSUME IInv, EntryInv, UninstallStep
  PROVE  EntryInv'
<1> USE DEF Uninstalling, AfterJoin, AfterFlag, AfterHooks, AfterDrains, loop, game
<1>0. life \in [Mods -> Life]
  BY DEF IInv, TypeOK
<1>1. CASE \E m \in Mods : BeginUninstall(m)
  <2>1. PICK m \in Mods : BeginUninstall(m)
    BY <1>1
  <2>2. life' = [life EXCEPT ![m] = "unloading"] /\ UNCHANGED <<token, queued, stack, late>>
        /\ epc' = "token"
    BY <2>1 DEF BeginUninstall
  <2>3. \A n : /\ (life'[n] = "unborn" => life[n] = "unborn")
               /\ (life'[n] = "closed" => life[n] = "closed")
    BY <1>0, <2>2
  <2>4. \A k \in DOMAIN stack' : Harmless(stack[k])'
    BY <2>2, <2>3 DEF EntryInv, Harmless
  <2> QED  BY <2>2, <2>3, <2>4 DEF EntryInv
<1>2. CASE SetToken
  <2>1. \A k \in DOMAIN stack' : Harmless(stack[k])'
    BY <1>2 DEF SetToken, EntryInv, Harmless
  <2> QED  BY <1>2, <2>1 DEF SetToken, EntryInv
<1>3. CASE CloseState
  <2>1. /\ life' = [life EXCEPT ![target] = "closed"] /\ target \in token
        /\ UNCHANGED <<token, queued, stack, target, late>> /\ epc = "close" /\ epc' = "erase"
    BY <1>3 DEF CloseState, EntryInv
  <2>2. \A n : /\ life'[n] = "unborn" => life[n] = "unborn"
               /\ life'[n] = "closed" => n = target \/ life[n] = "closed"
    BY <1>0, <2>1
  <2>3. ASSUME NEW k \in DOMAIN stack, stack[k].kind = "drain", stack[k].phase = "notify"
        PROVE  stack[k].batch = {} /\ stack[k].deferred = {}
    BY <2>1, <2>3 DEF IInv, TypeOK, GoodFrame, FrameShape, LoopHoldsActions, Locked, Frame
  <2>4. \A k \in DOMAIN stack' : Harmless(stack[k])'
    BY <2>1, <2>2, <2>3 DEF EntryInv, Harmless
  <2> QED  BY <2>1, <2>2, <2>4 DEF EntryInv
<1>4. CASE UNCHANGED <<life, token, stack, target, late>> /\ queued' \subseteq queued
           /\ (epc' \in Uninstalling => epc \in Uninstalling \ {"token"})
  <2>1. \A k \in DOMAIN stack' : Harmless(stack[k])'
    BY <1>4 DEF EntryInv, Harmless
  <2> QED  BY <1>4, <2>1 DEF EntryInv
<1>5. CASE JoinAsync \/ FlagHooks \/ HooksLeft \/ HookWaitExpires \/ DrainsLeft
           \/ WaitForDrains \/ DepthChanged \/ DrainWaitExpires \/ LockAndUnregister
           \/ EraseActions \/ EraseHooks
  BY <1>4, <1>5 DEF JoinAsync, FlagHooks, HooksLeft, HookWaitExpires, DrainsLeft,
                    WaitForDrains, DepthChanged, DrainWaitExpires, LockAndUnregister,
                    EraseActions, EraseHooks
<1> QED  BY <1>1, <1>2, <1>3, <1>5 DEF UninstallStep

LEMMA StartKeepsEntry ==
  ASSUME IInv, EntryInv, StartStep
  PROVE  EntryInv'
<1> USE DEF loop, game
<1>1. life \in [Mods -> Life]
  BY DEF IInv, TypeOK
<1> DEFINE LivesOn == \A n : /\ life'[n] = "unborn" => life[n] = "unborn"
                             /\ life'[n] = "closed" => life[n] = "closed"
           Moves == UNCHANGED <<token, stack>> /\ late \subseteq late' /\ epc' \notin Uninstalling /\ LivesOn
                    /\ \A n \in queued' : life[n] # "unborn"
<1> USE DEF Uninstalling, AfterJoin, AfterFlag, AfterHooks, AfterDrains
<1>2. MainCalls => Moves
  BY LuaCallQueuesOpen DEF MainCalls, LuaCall, Records
<1>3. ASSUME MainReturns PROVE Moves
  <2>1. life' = [life EXCEPT ![target] = "started"] /\ UNCHANGED <<token, stack, queued, late>>
        /\ epc' = "next"
    BY <1>3 DEF MainReturns
  <2>2. LivesOn
    BY <1>1, <2>1
  <2> QED  BY <2>1, <2>2 DEF EntryInv
<1>4. ASSUME \E m \in Mods : StartMod(m) PROVE Moves
  <2>1. PICK m \in Mods : StartMod(m)
    BY <1>4
  <2>2. life' = [life EXCEPT ![m] = "starting"] /\ UNCHANGED <<token, stack, queued, late>>
        /\ epc' = "main"
    BY <2>1 DEF StartMod
  <2>3. LivesOn
    BY <1>1, <2>2
  <2> QED  BY <2>2, <2>3 DEF EntryInv
<1>5. Moves
  BY <1>2, <1>3, <1>4 DEF StartStep
<1>6. /\ token' = token /\ stack' = stack /\ epc' \notin Uninstalling
      /\ late \subseteq late'
      /\ \A n : life'[n] = "unborn" => life[n] = "unborn"
      /\ \A n : life'[n] = "closed" => life[n] = "closed"
      /\ \A n \in queued' : life[n] # "unborn"
  BY <1>5
<1> HIDE DEF Moves, LivesOn, Uninstalling
<1>7. \A k \in DOMAIN stack' : Harmless(stack[k])'
  BY <1>6 DEF EntryInv, Harmless
<1> QED  BY <1>6, <1>7 DEF EntryInv

LEMMA EntryHolds == Spec => []EntryInv
<1>1. Init => EntryInv
  BY DEF Init, EntryInv, Uninstalling, AfterJoin, AfterFlag, AfterHooks, AfterDrains
<1>2. IInv /\ EntryInv /\ [Next]_vars => EntryInv'
  <2> SUFFICES ASSUME IInv, EntryInv, [Next]_vars PROVE EntryInv'
    OBVIOUS
  <2>1. CASE Next
    BY <2>1, EnterKeepsEntry, DrainKeepsEntry, HookKeepsEntry, CallsKeepEntry,
       AsyncKeepsEntry, RequestsKeepEntry, UninstallKeepsEntry, StartKeepsEntry,
       RegistersKeepEntry DEF Next
  <2>2. CASE UNCHANGED vars
    BY <2>2, StackStill DEF vars, game, loop, Still, EntryInv
  <2> QED  BY <2>1, <2>2
<1> QED  BY <1>1, <1>2, InvariantHolds, PTL DEF Spec

-----------------------------------------------------------------------------
(* What has been entered is the new top of the stack.                       *)
NewTop == stack'[Len(stack')]
EntersOpen ==
  (stack' # <<>> /\ Entered(NewTop) /\ ~InPostCallback(NewTop) /\ ~Forgotten(NewTop))
    => Open(NewTop.mod)
KeyOpen == (epc = "idle" /\ epc' = "keybind") => Open(op'.keybind) \/ op'.keybind \in late

LEMMA ByTop ==
  ASSUME IInv, stack # <<>>, NEW g, SetTop(g),
         (g.pc = "inLua" /\ Top.pc \notin InLua /\ ~InPostCallback(g) /\ ~Forgotten(g))
           => Open(g.mod)
  PROVE  EntersOpen
<1>1. stack \in Seq(Frame)
  BY DEF IInv, TypeOK
<1>2. Len(stack') = Len(stack) /\ NewTop = g
  BY <1>1 DEF SetTop, NewTop
<1> QED  BY <1>1, <1>2 DEF EntersOpen, Entered

LEMMA ByPush ==
  ASSUME IInv, NEW g, stack' = Append(stack, g),
         (g.pc = "inLua" /\ ~Forgotten(g)) => Open(g.mod)
  PROVE  EntersOpen
<1>1. stack \in Seq(Frame)
  BY DEF IInv, TypeOK
<1>2. NewTop = g
  BY <1>1 DEF NewTop
<1> QED  BY <1>2 DEF EntersOpen, Entered

LEMMA ByPop ==
  ASSUME IInv, stack # <<>>, Pop
  PROVE  EntersOpen
<1>1. stack \in Seq(Frame)
  BY DEF IInv, TypeOK
<1>2. Len(stack) \in Nat \ {0}
  BY <1>1
<1>3. stack' \in Seq(Frame) /\ DOMAIN stack' = 1..(Len(stack) - 1)
  BY <1>1, PopFacts DEF Pop
<1>4. Len(stack') = Len(stack) - 1
  BY <1>2, <1>3
<1> QED  BY <1>2, <1>4 DEF EntersOpen, Entered

LEMMA ByOthers ==
  ASSUME IInv, UNCHANGED stack
  PROVE  EntersOpen
<1>1. Len(stack) \in Nat
  BY DEF IInv, TypeOK
<1> QED  BY <1>1 DEF EntersOpen, Entered, NewTop, Top, InLua

(* A drain tests the token, or holds the mutex the closing needs.            *)
LEMMA DrainEntersOpen ==
  ASSUME IInv, EntryInv, DrainStep
  PROVE  EntersOpen
<1>1. CASE DrainTest
  <2>1. stack # <<>> /\ Top \in Frame /\ Top.pc = "test" /\ Top.phase \in DrainPhases
    BY <1>1, TopIsGood DEF DrainTest, At
  <2> DEFINE lock == [Top EXCEPT !.pc = "lock"]
  <2>2. NextPhase(Top).pc # "inLua" /\ lock.pc # "inLua"
    BY <2>1 DEF NextPhase, Frame, DrainPhases
  <2> QED  BY <1>1, <2>1, <2>2, ByTop DEF DrainTest, Goto
<1>2. CASE DrainCollect
  <2>1. stack # <<>> /\ Top \in Frame
    BY <1>2, TopIsGood DEF DrainCollect, At
  <2> DEFINE run(S) == [Top EXCEPT !.pc = "run", !.batch = S]
  <2>2. \A S : run(S).pc # "inLua"
    BY <2>1 DEF Frame
  <2>3. \E S : SetTop(run(S))
    BY <1>2 DEF DrainCollect
  <2> QED  BY <2>1, <2>2, <2>3, ByTop
<1>3. CASE DrainAction
  <2>1. /\ stack # <<>> /\ Top \in Frame /\ Top.pc = "run" /\ Top.kind = "drain"
        /\ Harmless(Top)
    <3>1. stack # <<>> /\ Len(stack) \in DOMAIN stack
      BY <1>3 DEF IInv, TypeOK, DrainAction, At
    <3> QED  BY <1>3, <3>1, TopIsGood DEF DrainAction, At, EntryInv, Top
  <2> DEFINE put(m) == [Top EXCEPT !.batch = @ \ {m},
                                   !.deferred = IF m \notin token /\ Top.phase = "simple"
                                                  THEN @ \cup {m} ELSE @]
             in(m) == [Top EXCEPT !.pc = "inLua", !.mod = m]
  <2>2. PICK m \in Top.batch :
          \/ SetTop(put(m))
          \/ SetTop(in(m)) /\ (Top.phase = "notify" \/ m \notin token)
    BY <1>3 DEF DrainAction
  <2>3. m \in Mods /\ put(m).pc # "inLua" /\ in(m).mod = m
    BY <2>1, <2>2 DEF Frame
  <2>4. (Top.phase = "notify" \/ m \notin token) => Open(m) \/ Forgotten(in(m))
    BY <2>1, <2>2, <2>3 DEF Harmless, EntryInv, Open, Forgotten
  <2> QED  BY <2>1, <2>2, <2>3, <2>4, ByTop
<1>4. CASE DrainActionReturns
  <2>1. stack # <<>> /\ Top \in Frame
    BY <1>4, TopIsGood DEF DrainActionReturns, At
  <2> DEFINE out(rest) == [Top EXCEPT !.pc = "run", !.mod = NoMod, !.batch = rest]
  <2>2. \A rest : out(rest).pc # "inLua"
    BY <2>1 DEF Frame
  <2>3. \E rest : SetTop(out(rest))
    BY <1>4 DEF DrainActionReturns
  <2> QED  BY <2>1, <2>2, <2>3, ByTop
<1>5. CASE DrainPhaseEnds
  <2>1. stack # <<>> /\ Top \in Frame /\ Top.pc = "run" /\ Top.phase \in DrainPhases
    BY <1>5, TopIsGood DEF DrainPhaseEnds, At
  <2> DEFINE f == NextPhase([Top EXCEPT !.deferred = {}])
  <2>2. f.pc # "inLua"
    BY <2>1 DEF NextPhase, Frame, DrainPhases
  <2> QED  BY <1>5, <2>1, <2>2, ByTop DEF DrainPhaseEnds
<1>6. CASE DrainLeave
  <2>1. stack # <<>> /\ Top \in Frame
    BY <1>6, TopIsGood DEF DrainLeave, At
  <2> DEFINE f == [Top EXCEPT !.pc = "merge"]
  <2>2. f.pc # "inLua"
    BY <2>1 DEF Frame
  <2> QED  BY <1>6, <2>1, <2>2, ByTop DEF DrainLeave, Goto
<1>7. CASE DrainMerge
  BY <1>7, ByPop DEF DrainMerge, At
<1> QED  BY <1>1, <1>2, <1>3, <1>4, <1>5, <1>6, <1>7 DEF DrainStep

(* A pre hook enters when its data is live, as a closed state's never is.    *)
LEMMA HookEntersOpen ==
  ASSUME IInv, HookStep
  PROVE  EntersOpen
<1> DEFINE at(pc) == [Top EXCEPT !.pc = pc]
           in == [Top EXCEPT !.pc = "inLua"]
           post == [Top EXCEPT !.phase = "post", !.pc = "test"]
           after == [Top EXCEPT !.phase = "after", !.pc = "unloadingFlag"]
<1>1. stack # <<>> /\ Top \in Frame /\ Top.mod \in Mods /\ Top.kind = "hook"
  BY TopIsGood
     DEF HookStep, At, PreTest, PreCount, PreFlag, PreReturns, FirePost, PostTest,
         ReadUnloading, ReadScheduled, PostCount, PostReturns, GameErasesHook, DanglingEnds,
         GoodFrame, FrameShape
<1>2. /\ \A pc \in DrainPC \cup HookPC : at(pc).pc = pc
      /\ \A pc : at(pc).kind = "hook" /\ at(pc).phase = Top.phase
      /\ in.mod = Top.mod /\ post.pc = "test" /\ after.pc = "unloadingFlag"
  BY <1>1 DEF Frame
<1>3. \A pc : Goto(pc) => SetTop(at(pc))
  BY DEF Goto
<1>4. \A pc \in HookPC \ {"inLua"} : Goto(pc) => EntersOpen
  BY <1>1, <1>2, <1>3, ByTop
<1> HIDE DEF at, in, post, after
<1> USE DEF HookPC, InLua
<1>5. CASE PreTest \/ PreCount \/ PreReturns
  BY <1>4, <1>5 DEF PreTest, PreCount, PreReturns
<1>6. CASE PreFlag
  <2>1. CASE hook[Top.mod] # "live"
    BY <1>4, <1>6, <2>1 DEF PreFlag
  <2>2. CASE hook[Top.mod] = "live"
    <3>1. Open(Top.mod)
      <4>1. GoodFrame(Top) /\ PreEntering(Top)
        BY <1>1, <1>6, TopIsGood DEF PreFlag, At, PreEntering
      <4>2. ~(epc = "erase" /\ target = Top.mod)
        BY <2>2, <4>1 DEF GoodFrame, AfterFlag, AfterHooks, AfterDrains
      <4> QED  BY <1>1, <2>2, <4>2 DEF IInv, ModState, Open
    <3> QED  BY <1>1, <1>2, <1>6, <2>2, <3>1, ByTop DEF PreFlag, in
  <2> QED  BY <2>1, <2>2
<1>7. CASE FirePost
  BY <1>1, <1>2, <1>7, ByPop, ByTop DEF FirePost, post
<1>8. CASE PostTest \/ ReadUnloading \/ ReadScheduled
  BY <1>1, <1>4, <1>8, ByPop DEF PostTest, ReadUnloading, ReadScheduled
<1>9. CASE PostCount
  <2>1. Goto("dangling") \/ (Goto("inLua") /\ Top.phase = "post")
    BY <1>9 DEF PostCount, At
  <2>2. at("inLua").phase = Top.phase /\ at("inLua").kind = "hook"
    BY <1>2
  <2>3. (Goto("inLua") /\ Top.phase = "post") => EntersOpen
    BY <1>1, <1>3, <2>2, ByTop DEF InPostCallback
  <2> QED  BY <1>4, <2>1, <2>3
<1>10. CASE PostReturns
  BY <1>1, <1>2, <1>10, ByTop DEF PostReturns, after
<1>11. CASE GameErasesHook \/ DanglingEnds
  BY <1>1, <1>11, ByPop DEF GameErasesHook, DanglingEnds
<1> QED  BY <1>5, <1>6, <1>7, <1>8, <1>9, <1>10, <1>11 DEF HookStep

LEMMA OthersEnterOpen ==
  ASSUME IInv, Enter \/ EventReturns \/ GameCalls \/ CallStep
  PROVE  EntersOpen
<1>1. CASE EnterDrain
  BY <1>1, ByPush DEF EnterDrain, Push
<1>2. CASE \E m \in Mods : FireHook(m)
  BY <1>2, ByPush DEF FireHook, Push
<1>3. CASE \E m \in Mods, c \in Events : FireEvent(m, c)
  <2>1. PICK m \in Mods, c \in Events : FireEvent(m, c)
    BY <1>3
  <2> DEFINE f == [kind |-> "event", phase |-> c, pc |-> "inLua", mod |-> m,
                   batch |-> {}, deferred |-> {}]
  <2>2. stack' = Append(stack, f) /\ c \in listens[m]
    BY <2>1 DEF FireEvent, Push
  <2>3. Open(m) \/ Forgotten(f)
    BY <2>2, ListsOpen DEF Forgotten
  <2> QED  BY <2>2, <2>3, ByPush
<1>4. CASE EventReturns
  BY <1>4, ByPop DEF EventReturns, At
<1> DEFINE at(pc) == [Top EXCEPT !.pc = pc]
<1>5. \A pc : Goto(pc) => SetTop(at(pc))
  BY DEF Goto
<1>6. stack # <<>> => Top \in Frame
  BY TopIsGood
<1>7. CASE GameCalls
  <2>1. PICK call \in Calls : Goto(call)
    BY <1>7 DEF GameCalls
  <2>2. stack # <<>> /\ Top.pc \in InLua
    BY <1>7 DEF GameCalls, TopIn, InLua
  <2> QED  BY <1>5, <2>1, <2>2, ByTop
<1>8. CASE CallStep
  <2>1. stack # <<>> /\ Top.pc \in InLua /\ Goto("inLua")
    BY <1>8 DEF CallStep, GameGetsActions, GameGetsEvents, TopIn, InLua
  <2> QED  BY <1>5, <2>1, ByTop
<1> QED  BY <1>1, <1>2, <1>3, <1>4, <1>7, <1>8 DEF Enter

LEMMA NextEntersOpen ==
  ASSUME IInv, EntryInv, [Next]_vars
  PROVE  EntersOpen
<1> USE DEF game, loop
<1>1. CASE Enter \/ DrainStep \/ HookStep \/ EventReturns \/ GameCalls \/ CallStep
  BY <1>1, DrainEntersOpen, HookEntersOpen, OthersEnterOpen
<1>2. CASE \E m \in Mods : AsyncStep(m)
  BY <1>2, ByOthers DEF AsyncStep, AsyncRuns, AsyncReturns, AsyncCalls, AsyncGetsActions,
                        AsyncGetsEvents, AsyncStops
<1>3. CASE OthersAsk \/ RequestStep
  BY <1>3, ByOthers DEF OthersAsk, RequestStep, RunEvent, KeybindAsks, KeybindReturns,
                        EndRequest, AutoReload, PressKey, Begin
<1>4. CASE UninstallStep
  BY <1>4, ByOthers DEF UninstallStep, BeginUninstall, SetToken, JoinAsync, FlagHooks,
                        HooksLeft, HookWaitExpires, DrainsLeft, WaitForDrains, DepthChanged,
                        DrainWaitExpires, LockAndUnregister, EraseActions, CloseState,
                        EraseHooks
<1>5. CASE StartStep
  BY <1>5, ByOthers DEF StartStep, MainCalls, MainReturns, StartMod
<1>6. CASE Registers
  BY <1>6, ByOthers DEF Registers, HandlerCalls, RegisterCallback
<1>7. CASE UNCHANGED vars
  BY <1>7, ByOthers DEF vars
<1> QED  BY <1>1, <1>2, <1>3, <1>4, <1>5, <1>6, <1>7 DEF Next

(* A keybind callback is called as long as it is in the container.          *)
LEMMA KeysAreOpen ==
  ASSUME IInv, [Next]_vars
  PROVE  KeyOpen
<1> USE DEF game, loop
<1>1. ASSUME NEW m \in Mods, PressKey(m) PROVE KeyOpen
  <2>1. op' = [NoOp EXCEPT !.keybind = m] /\ "key" \in listens[m]
    BY <1>1 DEF PressKey
  <2> QED  BY <2>1, ListsOpen DEF KeyOpen, NoOp
<1>2. CASE Enter \/ DrainStep \/ HookStep \/ EventReturns \/ GameCalls \/ CallStep
  <2>1. epc' = epc
    BY <1>2 DEF Enter, EnterDrain, FireHook, FireEvent, EventReturns, GameCalls, CallStep,
                GameGetsActions, GameGetsEvents, DrainStep, DrainTest, DrainCollect,
                DrainAction, DrainActionReturns, DrainPhaseEnds, DrainLeave, DrainMerge,
                HookStep, PreTest, PreCount, PreFlag, PreReturns, FirePost, PostTest,
                ReadUnloading, ReadScheduled, PostCount, PostReturns, GameErasesHook,
                DanglingEnds
  <2> QED  BY <2>1 DEF KeyOpen
<1>3. CASE (\E m \in Mods : AsyncStep(m)) \/ OthersAsk \/ Registers \/ UNCHANGED vars
  <2>1. epc' = epc
    BY <1>3 DEF AsyncStep, AsyncRuns, AsyncReturns, AsyncCalls, AsyncGetsActions,
                AsyncGetsEvents, AsyncStops, OthersAsk, Registers, HandlerCalls,
                RegisterCallback, vars
  <2> QED  BY <2>1 DEF KeyOpen
<1>4. CASE RunEvent \/ KeybindAsks \/ KeybindReturns \/ EndRequest
           \/ \E m \in Mods : AutoReload(m)
  BY <1>4 DEF RunEvent, KeybindAsks, KeybindReturns, EndRequest, AutoReload, Begin, KeyOpen
<1>5. CASE UninstallStep \/ StartStep
  BY <1>5 DEF KeyOpen, UninstallStep, BeginUninstall, SetToken, JoinAsync, FlagHooks,
              HooksLeft, HookWaitExpires, DrainsLeft, WaitForDrains, DepthChanged,
              DrainWaitExpires, LockAndUnregister, EraseActions, CloseState, EraseHooks,
              StartStep, MainCalls, MainReturns, StartMod
<1> QED  BY <1>1, <1>2, <1>3, <1>4, <1>5 DEF Next, RequestStep

(* No step of the game thread, and no keybind, enters the Lua of a closed    *)
(* mod, whether or not a wait of the unload expired; except a post callback, *)
(* the events of EndPlay, and what an unload handler registered too late.    *)
THEOREM NothingEntersAClosedState == Spec => NothingEntersClosed
<1>1. IInv /\ EntryInv /\ [Next]_vars =>
        [/\ stack' # <<>> =>
              LET f == stack'[Len(stack')]
              IN (Entered(f) /\ ~InPostCallback(f) /\ ~Forgotten(f)) => Open(f.mod)
         /\ (epc = "idle" /\ epc' = "keybind") =>
              Open(op'.keybind) \/ op'.keybind \in late]_vars
  BY NextEntersOpen, KeysAreOpen DEF EntersOpen, NewTop, KeyOpen
<1> QED  BY <1>1, InvariantHolds, EntryHolds, PTL DEF Spec, NothingEntersClosed
=============================================================================
