----------------------- MODULE DelayedActions_proofs -----------------------
(***************************************************************************)
(* Proofs about DelayedActions, for any mods, any delays, any number of     *)
(* actions and handles, and any nesting.                                    *)
(***************************************************************************)
EXTENDS DelayedActions, FiniteSetTheorems, TLAPS

LEMMA CountTo ==
  ASSUME NEW n \in Nat
  PROVE  IsFiniteSet(1..n) /\ Cardinality(1..n) = n
<1>1. IsFiniteSet(1..n) /\ Cardinality(1..n) = IF 1 > n THEN 0 ELSE n - 1 + 1
  BY FS_Interval
<1> QED BY <1>1

(* The positions a scan keeps, counted: InOrder lists each of them once.    *)
Upto(K, i) == {j \in K : j <= i}
Rank(K) == [i \in K |-> Cardinality(Upto(K, i))]

LEMMA RankGrows ==
  ASSUME NEW K \in SUBSET Nat, IsFiniteSet(K)
  PROVE  /\ Rank(K) \in [K -> 1..Cardinality(K)]
         /\ \A i, j \in K : i < j => Rank(K)[i] < Rank(K)[j]
<1>1. \A i \in K : /\ IsFiniteSet(Upto(K, i)) /\ Cardinality(Upto(K, i)) \in Nat
                   /\ Cardinality(Upto(K, i)) \in 1..Cardinality(K)
  <2> SUFFICES ASSUME NEW i \in K
               PROVE  /\ IsFiniteSet(Upto(K, i)) /\ Cardinality(Upto(K, i)) \in Nat
                      /\ Cardinality(Upto(K, i)) \in 1..Cardinality(K)
    OBVIOUS
  <2>1. Upto(K, i) \in SUBSET K /\ i \in Upto(K, i)
    BY DEF Upto
  <2>2. IsFiniteSet(Upto(K, i)) /\ Cardinality(Upto(K, i)) <= Cardinality(K)
    BY <2>1, FS_Subset
  <2>3. Cardinality(Upto(K, i)) # 0 /\ Cardinality(Upto(K, i)) \in Nat /\ Cardinality(K) \in Nat
    BY <2>1, <2>2, FS_EmptySet, FS_CardinalityType
  <2> QED BY <2>2, <2>3
<1>2. \A i, j \in K : i < j => Cardinality(Upto(K, i)) < Cardinality(Upto(K, j))
  <2> SUFFICES ASSUME NEW i \in K, NEW j \in K, i < j
               PROVE  Cardinality(Upto(K, i)) < Cardinality(Upto(K, j))
    OBVIOUS
  <2> i \in Nat /\ j \in Nat /\ \A k \in K : k \in Nat
    OBVIOUS
  <2>5. \A k \in K : k <= i => k <= j
    OBVIOUS
  <2>6. j <= j /\ ~(j <= i)
    OBVIOUS
  <2>1. Upto(K, i) \in SUBSET Upto(K, j) /\ j \in Upto(K, j) /\ j \notin Upto(K, i)
    BY <2>5, <2>6, Zenon DEF Upto
  <2>2. IsFiniteSet(Upto(K, j)) /\ Upto(K, i) # Upto(K, j)
    BY <1>1, <2>1
  <2>3. Cardinality(Upto(K, i)) <= Cardinality(Upto(K, j))
    BY <2>1, <2>2, FS_Subset
  <2>4. Cardinality(Upto(K, i)) # Cardinality(Upto(K, j))
    BY <2>1, <2>2, FS_Subset
  <2> QED BY <1>1, <2>3, <2>4
<1> QED BY <1>1, <1>2 DEF Rank

LEMMA InOrderIsABijection ==
  ASSUME NEW K \in SUBSET Nat, IsFiniteSet(K)
  PROVE  /\ Cardinality(K) \in Nat
         /\ InOrder(K) \in [1..Cardinality(K) -> K]
         /\ \A j, k \in 1..Cardinality(K) : InOrder(K)[j] = InOrder(K)[k] => j = k
         /\ \A i \in K : \E k \in 1..Cardinality(K) : InOrder(K)[k] = i
<1> DEFINE n == Cardinality(K)
<1>1. \A i, j \in K : Rank(K)[i] = Rank(K)[j] => i = j
  <2> SUFFICES ASSUME NEW i \in K, NEW j \in K, Rank(K)[i] = Rank(K)[j], i # j PROVE FALSE
    OBVIOUS
  <2>1. i < j \/ j < i
    OBVIOUS
  <2>2. Rank(K)[i] < Rank(K)[j] \/ Rank(K)[j] < Rank(K)[i]
    BY <2>1, RankGrows
  <2>3. Rank(K)[i] \in 1..n /\ Rank(K)[j] \in 1..n /\ n \in Nat
    BY RankGrows, FS_CardinalityType
  <2> QED BY <2>2, <2>3
<1>2. Rank(K) \in Injection(K, 1..n)
  BY <1>1, RankGrows DEF Injection, IsInjective
<1>3. n \in Nat /\ IsFiniteSet(1..n) /\ Cardinality(1..n) = n
  BY FS_CardinalityType, CountTo
<1>4. \A k \in 1..n : \E i \in K : Rank(K)[i] = k
  <2>1. Cardinality(K) = Cardinality(1..n)
    BY <1>3
  <2>2. Rank(K) \in Surjection(K, 1..n)
    BY <1>2, <1>3, <2>1, FS_Injection
  <2> QED BY <2>2 DEF Surjection
<1>5. \A k \in 1..n : InOrder(K)[k] \in K /\ Rank(K)[InOrder(K)[k]] = k
  BY <1>4 DEF InOrder, Rank, Upto
<1>6. InOrder(K) \in [1..n -> K]
  BY <1>5 DEF InOrder
<1>7. \A i \in K : Rank(K)[i] \in 1..n
  BY RankGrows
<1>8. \A i \in K : InOrder(K)[Rank(K)[i]] = i
  BY <1>1, <1>5, <1>7
<1> QED BY <1>3, <1>5, <1>6, <1>7, <1>8

LEMMA KeptFacts ==
  ASSUME NEW S, NEW s \in Seq(S), NEW keep \in SUBSET DOMAIN s
  PROVE  /\ Kept(s, keep) \in Seq(S)
         /\ InOrder(keep) \in [DOMAIN Kept(s, keep) -> keep]
         /\ \A j, k \in DOMAIN Kept(s, keep) : InOrder(keep)[j] = InOrder(keep)[k] => j = k
         /\ \A k \in DOMAIN Kept(s, keep) : Kept(s, keep)[k] = s[InOrder(keep)[k]]
<1>1. IsFiniteSet(keep) /\ keep \in SUBSET Nat
  <2>1. DOMAIN s = 1..Len(s) /\ Len(s) \in Nat
    OBVIOUS
  <2>2. IsFiniteSet(DOMAIN s)
    BY <2>1, FS_Interval
  <2> QED BY <2>1, <2>2, FS_Subset
<1>2. /\ Cardinality(keep) \in Nat /\ InOrder(keep) \in [1..Cardinality(keep) -> keep]
      /\ \A j, k \in 1..Cardinality(keep) : InOrder(keep)[j] = InOrder(keep)[k] => j = k
  BY <1>1, InOrderIsABijection
<1>3. DOMAIN InOrder(keep) = 1..Cardinality(keep)
  BY <1>2
<1>4. Kept(s, keep) = [k \in 1..Cardinality(keep) |-> s[InOrder(keep)[k]]]
  BY <1>3 DEF Kept
<1>5. \A k \in 1..Cardinality(keep) : s[InOrder(keep)[k]] \in S
  BY <1>2
<1> HIDE DEF InOrder
<1> QED BY <1>2, <1>4, <1>5

(* A sequence changed at one place, or seen over a larger set.              *)
LEMMA SeqChange ==
  ASSUME NEW S, NEW s \in Seq(S), NEW i \in DOMAIN s, NEW a \in S
  PROVE  [s EXCEPT ![i] = a] \in Seq(S)
OBVIOUS

LEMMA SeqParts ==
  ASSUME NEW S, NEW s \in Seq(S)
  PROVE  Len(s) \in Nat /\ DOMAIN s = 1..Len(s) /\ \A i \in DOMAIN s : s[i] \in S
OBVIOUS

LEMMA SeqWider ==
  ASSUME NEW S, NEW T, S \subseteq T, NEW s \in Seq(S)
  PROVE  s \in Seq(T)
OBVIOUS

LEMMA SeqJoin ==
  ASSUME NEW S, NEW s \in Seq(S), NEW t \in Seq(S)
  PROVE  s \o t \in Seq(S)
OBVIOUS

-----------------------------------------------------------------------------
(* What every queue and drain holds: actions that were created, with        *)
(* handles the counter or a mod named, of mods that may have some there.    *)
(* From the moment a mod's actions are erased it has none in a drain, and   *)
(* none in a queue once they are.                                           *)
Known == 1..Len(born)
Named == 1..(nextHandle - 1) \cup stray
Present == {m \in Mods : ~Gone(m)}
Undrained == {m \in Mods : unload[m] \in {"loaded", "waiting"}}

SimpleIn(M) == [id : Known, mod : M]
ReadyIn == [index : Known, id : Known, mod : Undrained]
DelayedIn == {a \in DelayedAction : a.id \in Known /\ a.handle \in Named /\ a.mod \in Present}

RunsSimple == {"runSimple", "inSimple"}
RunsDelayed == {"runDelayed", "inDelayed"}
DrainsIn ==
  {d \in [method : Methods, pc : DrainPC, todo : Seq(SimpleIn(Undrained) \cup ReadyIn),
          deferred : Seq(SimpleIn(Undrained)), ready : Seq(ReadyIn)] :
     /\ d.pc \in RunsSimple => d.todo \in Seq(SimpleIn(Undrained))
     /\ d.pc \in RunsDelayed => d.todo \in Seq(ReadyIn)
     /\ d.pc \notin RunsSimple \cup RunsDelayed => d.todo = <<>>
     /\ d.pc \notin RunsSimple => d.deferred = <<>>
     /\ d.pc \notin RunsDelayed => d.ready = <<>>
     /\ Calling(d) => d.todo # <<>>}

Kinds == {"simple", "once", "loop"}
Shape ==
  /\ simple \in [Methods -> Seq(SimpleIn(Present))]
  /\ simplePending \in [Methods -> Seq(SimpleIn(Present))]
  /\ delayed \in Seq(DelayedIn) /\ delayedPending \in Seq(DelayedIn)
  /\ stack \in Seq(DrainsIn)
  /\ nextHandle \in 1..(MaxHandles + 1) /\ making \in [Mods -> 0..MaxHandles]
  /\ stray \subseteq 1..MaxHandles /\ pendingNotify \in BOOLEAN
  /\ executing \in BOOLEAN /\ transitioning \in BOOLEAN
  /\ unload \in [Mods -> {"loaded", "waiting", "erasing", "gone"}]
  /\ ~transitioning => \A m \in Mods : unload[m] \in {"loaded", "gone"}
  /\ born \in Seq([mod : Mods, kind : Kinds])
  /\ ran \subseteq Known /\ cancelled \subseteq Known

Bounded == CreatedSoFar({"simple"}) <= MaxSimple /\ CreatedSoFar({"once", "loop"}) <= MaxDelayed

(* Drains nest in callbacks only, and of the callbacks on the stack one is  *)
(* an action and one a batch of notifications at most: a drain that is      *)
(* entered from an action finds the executing flag set and calls none, and  *)
(* one that is entered from a batch finds no other.  No drain is about to   *)
(* take its queue when a mod's actions are erased.                          *)
Takes == {"takeSimple", "takeReady"}
Nesting ==
  /\ Len(stack) <= MaxNesting
  /\ depth = IF At("merge") THEN Len(stack) - 1 ELSE Len(stack)
  /\ \A k \in DOMAIN stack : k # Len(stack) => Calling(stack[k]) \/ stack[k].pc = "inNotify"
  /\ executing => \E k \in DOMAIN stack : Calling(stack[k])
  /\ \A k \in DOMAIN stack : Calling(stack[k]) =>
       executing /\ \A j \in DOMAIN stack : j > k => ~Calling(stack[j]) /\ stack[j].ready = <<>>
  /\ \A k \in DOMAIN stack : stack[k].pc = "inNotify" =>
       ~pendingNotify /\ \A j \in DOMAIN stack : stack[j].pc = "inNotify" => j = k
  /\ \A m \in Mods : unload[m] = "erasing" => \A k \in DOMAIN stack : stack[k].pc \notin Takes

(* No two delayed actions are one, or live under one handle that is not     *)
(* among those `free' to clash.                                             *)
Clash(a, b, free) == a.id = b.id \/ (SameLiveHandle(a, b) /\ a.handle \notin free)
Unique(s, free) == \A i, j \in DOMAIN s : Clash(s[i], s[j], free) => i = j
Apart(s, t, free) == \A i \in DOMAIN s, j \in DOMAIN t : ~Clash(s[i], t[j], free)
Distinct ==
  /\ Unique(delayed, stray) /\ Unique(delayedPending, stray)
  /\ Apart(delayed, delayedPending, stray)

IInv == Shape /\ Bounded /\ Nesting /\ Distinct

-----------------------------------------------------------------------------
(* What a step does to the delayed actions.                                 *)
Revises(a, b) ==
  /\ b \in DelayedAction /\ b.id = a.id /\ b.mod = a.mod /\ b.handle = a.handle
  /\ b.looping = a.looping
  /\ Removed(a) => Removed(b)

Revised(s, t) ==
  /\ t \in Seq(DelayedIn) /\ DOMAIN t = DOMAIN s
  /\ \A i \in DOMAIN s : Revises(s[i], t[i])

RestOfControl == <<simple, simplePending, pendingNotify, handles, depth, executing, stack, env,
                   born, ran>>
BothRevised ==
  Revised(delayed, delayed') /\ Revised(delayedPending, delayedPending') /\ UNCHANGED RestOfControl

(* A control call marks nothing Executing, and what it removes it cancels.  *)
Controls(a, b) ==
  /\ Revises(a, b)
  /\ b.status = "Executing" => a.status = "Executing"
  /\ Removed(b) => Removed(a) \/ a.id \in cancelled'

OneRevised ==
  /\ \/ /\ \E i \in DOMAIN delayed : \E a \in DelayedAction :
             Controls(delayed[i], a) /\ delayed' = [delayed EXCEPT ![i] = a]
        /\ UNCHANGED delayedPending
     \/ /\ \E i \in DOMAIN delayedPending : \E a \in DelayedAction :
             Controls(delayedPending[i], a) /\ delayedPending' = [delayedPending EXCEPT ![i] = a]
        /\ UNCHANGED delayed
  /\ UNCHANGED RestOfControl

LEMMA RevisedAtOne ==
  ASSUME NEW s \in Seq(DelayedIn), NEW i \in DOMAIN s, NEW a \in DelayedAction, Revises(s[i], a)
  PROVE  Revised(s, [s EXCEPT ![i] = a])
<1>1. \A j \in DOMAIN s : s[j] \in DelayedIn
  OBVIOUS
<1>2. a \in DelayedIn
  BY <1>1 DEF Revises, DelayedIn
<1>3. [s EXCEPT ![i] = a] \in Seq(DelayedIn)
  BY <1>2, SeqChange
<1>4. \A b \in DelayedIn : Revises(b, b)
  BY DEF Revises, DelayedIn
<1> QED BY <1>1, <1>3, <1>4 DEF Revised

LEMMA NoneRevised ==
  ASSUME NEW s \in Seq(DelayedIn)
  PROVE  Revised(s, s)
<1>1. \A b \in DelayedIn : Revises(b, b)
  BY DEF Revises, DelayedIn
<1> QED BY <1>1 DEF Revised

LEMMA OneRevisedRevisesBoth ==
  ASSUME Shape, OneRevised
  PROVE  BothRevised
<1>1. delayed \in Seq(DelayedIn) /\ delayedPending \in Seq(DelayedIn)
  BY DEF Shape
<1>2. Revised(delayed, delayed) /\ Revised(delayedPending, delayedPending)
  BY <1>1, NoneRevised
<1>3. UNCHANGED RestOfControl
  BY DEF OneRevised
<1>4. CASE /\ \E i \in DOMAIN delayed : \E a \in DelayedAction :
               Controls(delayed[i], a) /\ delayed' = [delayed EXCEPT ![i] = a]
           /\ UNCHANGED delayedPending
  BY <1>1, <1>2, <1>3, <1>4, RevisedAtOne DEF BothRevised, Controls
<1>5. CASE /\ \E i \in DOMAIN delayedPending : \E a \in DelayedAction :
               Controls(delayedPending[i], a) /\ delayedPending' = [delayedPending EXCEPT ![i] = a]
           /\ UNCHANGED delayed
  BY <1>1, <1>2, <1>3, <1>5, RevisedAtOne DEF BothRevised, Controls
<1> QED BY <1>4, <1>5 DEF OneRevised

(* Each call that controls an action revises one.                           *)
LEMMA ControlRevisesOne ==
  ASSUME Shape, NEW m \in Mods, NEW h,
         \/ ResetDelayedActionTimer(m, h) \/ PauseDelayedAction(m, h)
         \/ UnpauseDelayedAction(m, h) \/ CancelDelayedAction(m, h)
         \/ \E d \in Delays : SetDelayedActionTimer(m, h, d) \/ RetriggerExisting(m, h, d)
  PROVE  OneRevised
<1>1. /\ \A i \in DOMAIN delayed : delayed[i] \in DelayedAction
      /\ \A i \in DOMAIN delayedPending : delayedPending[i] \in DelayedAction
  BY DEF Shape, DelayedIn
<1>2. \A d \in Delays : d \in Nat
  BY BoundsAssumption
<1>3. CASE ResetDelayedActionTimer(m, h)
  <2> DEFINE New(a) == [a EXCEPT !.status = "Active", !.left = a.delay]
  <2>1. \A a \in DelayedAction : (Owned(a, h, m)) => Controls(a, New(a))
    BY <1>2 DEF Controls, Revises, DelayedAction, Status, Removed, Owned, Live
  <2>2. \A a \in DelayedAction : Controls(a, New(a)) => New(a) \in DelayedAction
    BY DEF Controls, Revises
  <2>3. /\ \/ /\ \E i \in DOMAIN delayed : LET a == delayed[i] IN (Owned(a, h, m)) /\ delayed' = [delayed EXCEPT ![i] = New(a)]
              /\ UNCHANGED delayedPending
           \/ /\ \E i \in DOMAIN delayedPending : LET a == delayedPending[i] IN (Owned(a, h, m)) /\ delayedPending' = [delayedPending EXCEPT ![i] = New(a)]
              /\ UNCHANGED delayed
        /\ UNCHANGED RestOfControl
    BY <1>3 DEF ResetDelayedActionTimer, Update, FirstOf, RestOfControl
  <2> HIDE DEF New
  <2> QED BY <1>1, <2>1, <2>2, <2>3 DEF OneRevised
<1>4. ASSUME NEW d \in Delays, SetDelayedActionTimer(m, h, d) PROVE OneRevised
  <2> DEFINE New(a) == [a EXCEPT !.status = "Active", !.delay = d, !.left = d, !.frames = a.frames /\ d > 0]
  <2>1. \A a \in DelayedAction : (Owned(a, h, m)) => Controls(a, New(a))
    BY <1>2 DEF Controls, Revises, DelayedAction, Status, Removed, Owned, Live
  <2>2. \A a \in DelayedAction : Controls(a, New(a)) => New(a) \in DelayedAction
    BY DEF Controls, Revises
  <2>3. /\ \/ /\ \E i \in DOMAIN delayed : LET a == delayed[i] IN (Owned(a, h, m)) /\ delayed' = [delayed EXCEPT ![i] = New(a)]
              /\ UNCHANGED delayedPending
           \/ /\ \E i \in DOMAIN delayedPending : LET a == delayedPending[i] IN (Owned(a, h, m)) /\ delayedPending' = [delayedPending EXCEPT ![i] = New(a)]
              /\ UNCHANGED delayed
        /\ UNCHANGED RestOfControl
    BY <1>4 DEF SetDelayedActionTimer, Update, FirstOf, RestOfControl
  <2> HIDE DEF New
  <2> QED BY <1>1, <2>1, <2>2, <2>3 DEF OneRevised
<1>5. CASE PauseDelayedAction(m, h)
  <2> DEFINE New(a) == IF a.status = "Active" THEN [a EXCEPT !.status = "Paused"] ELSE [a EXCEPT !.pauseAfter = TRUE]
  <2>1. \A a \in DelayedAction : (Owned(a, h, m)) => Controls(a, New(a))
    BY <1>2 DEF Controls, Revises, DelayedAction, Status, Removed, Owned, Live
  <2>2. \A a \in DelayedAction : Controls(a, New(a)) => New(a) \in DelayedAction
    BY DEF Controls, Revises
  <2>3. /\ \/ /\ \E i \in DOMAIN delayed : LET a == delayed[i] IN (Owned(a, h, m)) /\ delayed' = [delayed EXCEPT ![i] = New(a)]
              /\ UNCHANGED delayedPending
           \/ /\ \E i \in DOMAIN delayedPending : LET a == delayedPending[i] IN (Owned(a, h, m)) /\ delayedPending' = [delayedPending EXCEPT ![i] = New(a)]
              /\ UNCHANGED delayed
        /\ UNCHANGED RestOfControl
    BY <1>5 DEF PauseDelayedAction, Update, FirstOf, RestOfControl
  <2> HIDE DEF New
  <2> QED BY <1>1, <2>1, <2>2, <2>3 DEF OneRevised
<1>6. CASE UnpauseDelayedAction(m, h)
  <2> DEFINE New(a) == [a EXCEPT !.status = "Active"]
  <2>1. \A a \in DelayedAction : (Owned(a, h, m) /\ a.status = "Paused") => Controls(a, New(a))
    BY <1>2 DEF Controls, Revises, DelayedAction, Status, Removed, Owned, Live
  <2>2. \A a \in DelayedAction : Controls(a, New(a)) => New(a) \in DelayedAction
    BY DEF Controls, Revises
  <2>3. /\ \/ /\ \E i \in DOMAIN delayed : LET a == delayed[i] IN (Owned(a, h, m) /\ a.status = "Paused") /\ delayed' = [delayed EXCEPT ![i] = New(a)]
              /\ UNCHANGED delayedPending
           \/ /\ \E i \in DOMAIN delayedPending : LET a == delayedPending[i] IN (Owned(a, h, m) /\ a.status = "Paused") /\ delayedPending' = [delayedPending EXCEPT ![i] = New(a)]
              /\ UNCHANGED delayed
        /\ UNCHANGED RestOfControl
    BY <1>6 DEF UnpauseDelayedAction, Update, FirstOf, RestOfControl
  <2> HIDE DEF New
  <2> QED BY <1>1, <2>1, <2>2, <2>3 DEF OneRevised
<1>7. CASE CancelDelayedAction(m, h)
  <2> DEFINE New(a) == MarkRemoved(a)
  <2>1. \A a \in DelayedAction : (Owned(a, h, m) /\ a.id \in cancelled') => Controls(a, New(a))
    BY <1>2 DEF Controls, Revises, DelayedAction, Status, Removed, Owned, Live, MarkRemoved
  <2>2. \A a \in DelayedAction : Controls(a, New(a)) => New(a) \in DelayedAction
    BY DEF Controls, Revises
  <2>4. /\ \/ /\ \E i \in DOMAIN delayed : Owned(delayed[i], h, m) /\ delayed' = [delayed EXCEPT ![i] = New(delayed[i])]
              /\ UNCHANGED delayedPending
           \/ /\ \E i \in DOMAIN delayedPending : Owned(delayedPending[i], h, m) /\ delayedPending' = [delayedPending EXCEPT ![i] = New(delayedPending[i])]
              /\ UNCHANGED delayed
        /\ UNCHANGED RestOfControl
        /\ RemovedIn(delayed, delayed') \cup RemovedIn(delayedPending, delayedPending') \subseteq cancelled'
    BY <1>7 DEF CancelDelayedAction, Update, FirstOf, RestOfControl, RemovedNow
  <2>5. \A s, t : \A i \in DOMAIN s : Removed(t[i]) /\ ~Removed(s[i]) => s[i].id \in RemovedIn(s, t)
    BY DEF RemovedIn
  <2>6. \A a \in DelayedAction : Owned(a, h, m) => Removed(New(a)) /\ ~Removed(a)
    BY DEF DelayedAction, Removed, Owned, Live, MarkRemoved
  <2> HIDE DEF New
  <2>7. /\ \A i \in DOMAIN delayed :
             Owned(delayed[i], h, m) /\ delayed' = [delayed EXCEPT ![i] = New(delayed[i])]
               => delayed[i].id \in cancelled'
        /\ \A i \in DOMAIN delayedPending :
             Owned(delayedPending[i], h, m) /\ delayedPending' = [delayedPending EXCEPT ![i] = New(delayedPending[i])]
               => delayedPending[i].id \in cancelled'
    BY <1>1, <2>4, <2>5, <2>6
  <2>3. /\ \/ /\ \E i \in DOMAIN delayed : LET a == delayed[i] IN (Owned(a, h, m) /\ a.id \in cancelled') /\ delayed' = [delayed EXCEPT ![i] = New(a)]
              /\ UNCHANGED delayedPending
           \/ /\ \E i \in DOMAIN delayedPending : LET a == delayedPending[i] IN (Owned(a, h, m) /\ a.id \in cancelled') /\ delayedPending' = [delayedPending EXCEPT ![i] = New(a)]
              /\ UNCHANGED delayed
        /\ UNCHANGED RestOfControl
    BY <2>4, <2>7
  <2> HIDE DEF New
  <2> QED BY <1>1, <2>1, <2>2, <2>3 DEF OneRevised
<1>8. ASSUME NEW d \in Delays, RetriggerExisting(m, h, d) PROVE OneRevised
  <2> DEFINE New(a) == Retriggered(a, d)
  <2>1. \A a \in DelayedAction : (Live(a, h)) => Controls(a, New(a))
    BY <1>2 DEF Controls, Revises, DelayedAction, Status, Removed, Live, Retriggered
  <2>2. \A a \in DelayedAction : Controls(a, New(a)) => New(a) \in DelayedAction
    BY DEF Controls, Revises
  <2>3. /\ \/ /\ \E i \in DOMAIN delayed : LET a == delayed[i] IN (Live(a, h)) /\ delayed' = [delayed EXCEPT ![i] = New(a)]
              /\ UNCHANGED delayedPending
           \/ /\ \E i \in DOMAIN delayedPending : LET a == delayedPending[i] IN (Live(a, h)) /\ delayedPending' = [delayedPending EXCEPT ![i] = New(a)]
              /\ UNCHANGED delayed
        /\ UNCHANGED RestOfControl
    BY <1>8 DEF RetriggerExisting, Update, FirstOf, RestOfControl
  <2> HIDE DEF New
  <2> QED BY <1>1, <2>1, <2>2, <2>3 DEF OneRevised
<1> QED BY <1>3, <1>4, <1>5, <1>6, <1>7, <1>8

Descends(s, t) ==
  /\ t \in Seq(DelayedAction)
  /\ \E f \in [DOMAIN t -> DOMAIN s] :
       /\ \A i, j \in DOMAIN t : f[i] = f[j] => i = j
       /\ \A i \in DOMAIN t : Revises(s[f[i]], t[i])

LEMMA RevisedDescends ==
  ASSUME NEW s \in Seq(DelayedIn), NEW t, Revised(s, t)
  PROVE  Descends(s, t)
<1> DEFINE f == [i \in DOMAIN t |-> i]
<1>1. f \in [DOMAIN t -> DOMAIN s] /\ \A i, j \in DOMAIN t : f[i] = f[j] => i = j
  BY DEF Revised
<1>2. \A i \in DOMAIN t : Revises(s[f[i]], t[i])
  BY DEF Revised
<1>3. t \in Seq(DelayedAction)
  BY SeqWider DEF Revised, DelayedIn
<1> QED BY <1>1, <1>2, <1>3 DEF Descends

LEMMA KeptDescends ==
  ASSUME NEW s \in Seq(DelayedIn), NEW t, Revised(s, t), NEW keep \in SUBSET DOMAIN t
  PROVE  Descends(s, Kept(t, keep)) /\ Kept(t, keep) \in Seq(DelayedIn)
<1> DEFINE k == Kept(t, keep)
           f == InOrder(keep)
<1>1. /\ k \in Seq(DelayedIn) /\ f \in [DOMAIN k -> keep]
      /\ \A i, j \in DOMAIN k : f[i] = f[j] => i = j
      /\ \A i \in DOMAIN k : k[i] = t[f[i]]
  BY KeptFacts DEF Revised
<1>2. k \in Seq(DelayedAction)
  BY <1>1, SeqWider DEF DelayedIn
<1> HIDE DEF k, f
<1>3. f \in [DOMAIN k -> DOMAIN s] /\ \A i \in DOMAIN k : Revises(s[f[i]], k[i])
  BY <1>1 DEF Revised
<1>4. Descends(s, k)
  BY <1>1, <1>2, <1>3 DEF Descends
<1> QED BY <1>1, <1>4 DEF k

(* Time, a mod's clearing of all it queued, and the marking of what is due. *)
LEMMA TickRevises ==
  ASSUME Shape, Tick
  PROVE  BothRevised /\ UNCHANGED cancelled
<1>1. \A s \in Seq(DelayedIn) : Revised(s, Elapsed(s))
  <2> SUFFICES ASSUME NEW s \in Seq(DelayedIn) PROVE Revised(s, Elapsed(s))
    OBVIOUS
  <2>1. \A i \in DOMAIN s : s[i] \in DelayedIn
    OBVIOUS
  <2>2. \A a \in DelayedIn : /\ Revises(a, a)
                             /\ a.left > 0 => Revises(a, [a EXCEPT !.left = a.left - 1])
    <3> SUFFICES ASSUME NEW a \in DelayedAction
                 PROVE  Revises(a, a) /\ (a.left > 0 => Revises(a, [a EXCEPT !.left = a.left - 1]))
      BY DEF DelayedIn
    <3>1. a.left \in Nat /\ (a.left > 0 => a.left - 1 \in Nat)
      BY DEF DelayedAction
    <3>2. \A n \in Nat : Revises(a, [a EXCEPT !.left = n])
      BY DEF Revises, DelayedAction, Removed
    <3> QED BY <3>1, <3>2 DEF Revises
  <2>3. DOMAIN Elapsed(s) = DOMAIN s /\ \A i \in DOMAIN s : Revises(s[i], Elapsed(s)[i])
    BY <2>1, <2>2 DEF Elapsed
  <2>4. \A i \in DOMAIN s : Elapsed(s)[i] \in DelayedIn
    BY <2>1, <2>3 DEF Revises, DelayedIn
  <2>5. Elapsed(s) \in Seq(DelayedIn)
    BY <2>4 DEF Elapsed
  <2> QED BY <2>3, <2>5 DEF Revised
<1> QED BY <1>1 DEF Tick, Shape, BothRevised, RestOfControl, history

LEMMA ClearRevises ==
  ASSUME Shape, NEW m \in Mods, ClearAllDelayedActions(m)
  PROVE  BothRevised
<1>1. \A s \in Seq(DelayedIn) : Revised(s, RemoveAllOf(s, m))
  <2> SUFFICES ASSUME NEW s \in Seq(DelayedIn) PROVE Revised(s, RemoveAllOf(s, m))
    OBVIOUS
  <2>1. \A i \in DOMAIN s : s[i] \in DelayedIn
    OBVIOUS
  <2>2. \A a \in DelayedIn : Revises(a, a) /\ Revises(a, MarkRemoved(a))
    BY DEF Revises, DelayedIn, DelayedAction, Removed, MarkRemoved, Status
  <2>3. /\ DOMAIN RemoveAllOf(s, m) = DOMAIN s
        /\ \A i \in DOMAIN s : Revises(s[i], RemoveAllOf(s, m)[i])
    BY <2>1, <2>2 DEF RemoveAllOf
  <2>4. \A i \in DOMAIN s : RemoveAllOf(s, m)[i] \in DelayedIn
    BY <2>1, <2>3 DEF Revises, DelayedIn
  <2>5. RemoveAllOf(s, m) \in Seq(DelayedIn)
    BY <2>4 DEF RemoveAllOf
  <2> QED BY <2>3, <2>5 DEF Revised
<1> QED BY <1>1 DEF ClearAllDelayedActions, Shape, BothRevised, RestOfControl

LEMMA TakeReadyRevises ==
  ASSUME Shape, TakeReady
  PROVE  Revised(delayed, delayed')
<1> DEFINE due == {i \in DOMAIN delayed : IsDue(delayed[i], Top.method)}
           New(i) == IF i \in due THEN [Aged(delayed[i], Top.method) EXCEPT !.status = "Executing"]
                                  ELSE Aged(delayed[i], Top.method)
<1>1. delayed \in Seq(DelayedIn) /\ \A i \in DOMAIN delayed : delayed[i] \in DelayedIn
  BY DEF Shape
<1>2. delayed' = [i \in DOMAIN delayed |-> New(i)]
  BY DEF TakeReady
<1>3. \A a \in DelayedIn : /\ Revises(a, Aged(a, Top.method))
                           /\ IsDue(a, Top.method) =>
                                Revises(a, [Aged(a, Top.method) EXCEPT !.status = "Executing"])
  BY DEF Revises, DelayedIn, DelayedAction, Removed, Aged, IsDue, Considered, Status
<1>4. \A i \in DOMAIN delayed : Revises(delayed[i], New(i))
  BY <1>1, <1>3
<1> HIDE DEF New
<1>5. \A i \in DOMAIN delayed : New(i) \in DelayedIn
  BY <1>1, <1>4 DEF Revises, DelayedIn
<1> QED BY <1>1, <1>2, <1>4, <1>5 DEF Revised

LEMMA RetireDescends ==
  ASSUME Shape, RetireReady
  PROVE  Descends(delayed, delayed') /\ delayed' \in Seq(DelayedIn)
<1>1. delayed \in Seq(DelayedIn) /\ \A i \in DOMAIN delayed : delayed[i] \in DelayedIn
  BY DEF Shape
<1> DEFINE indexes == {e.index : e \in ToSet(Top.ready)}
           New(i) == IF i \in indexes THEN AfterExecution(delayed[i]) ELSE delayed[i]
           updated == [i \in DOMAIN delayed |-> New(i)]
<1>2. delayed' = Kept(updated, {i \in DOMAIN updated : ~Removed(updated[i])})
  BY DEF RetireReady
<1>3. \A a \in DelayedIn : Revises(a, a) /\ Revises(a, AfterExecution(a))
  <2> SUFFICES ASSUME NEW a \in DelayedAction PROVE Revises(a, a) /\ Revises(a, AfterExecution(a))
    BY DEF DelayedIn
  <2>1. CASE Removed(a)
    BY <2>1 DEF AfterExecution, Revises
  <2>2. CASE ~Removed(a) /\ a.pauseAfter
    BY <2>2 DEF AfterExecution, Revises, DelayedAction, Removed, Status
  <2>3. CASE ~Removed(a) /\ ~a.pauseAfter /\ a.looping
    BY <2>3 DEF AfterExecution, Revises, DelayedAction, Removed, Status
  <2>4. CASE ~Removed(a) /\ ~a.pauseAfter /\ ~a.looping
    BY <2>4 DEF AfterExecution, Revises, DelayedAction, Removed, Status, MarkRemoved
  <2> QED BY <2>1, <2>2, <2>3, <2>4
<1>4. \A i \in DOMAIN delayed : Revises(delayed[i], New(i))
  BY <1>1, <1>3
<1> HIDE DEF New
<1>5. \A i \in DOMAIN delayed : New(i) \in DelayedIn
  BY <1>1, <1>4 DEF Revises, DelayedIn
<1>6. Revised(delayed, updated)
  BY <1>1, <1>4, <1>5 DEF Revised
<1> HIDE DEF updated
<1> QED BY <1>1, <1>2, <1>6, KeptDescends

LEMMA EraseDescends ==
  ASSUME Shape, NEW m \in Mods, NEW s \in Seq(DelayedIn)
  PROVE  /\ Descends(s, Without(s, m)) /\ Without(s, m) \in Seq(DelayedIn)
         /\ \A i \in DOMAIN Without(s, m) : Without(s, m)[i].mod # m
<1> DEFINE keep == {i \in DOMAIN s : s[i].mod # m}
<1>1. Revised(s, s)
  BY NoneRevised
<1>2. Without(s, m) = Kept(s, keep)
  BY DEF Without
<1>3. \A i \in DOMAIN Kept(s, keep) : InOrder(keep)[i] \in keep /\ Kept(s, keep)[i] = s[InOrder(keep)[i]]
  BY KeptFacts
<1>4. \A i \in DOMAIN Kept(s, keep) : Kept(s, keep)[i].mod # m
  BY <1>3
<1> QED BY <1>1, <1>2, <1>4, KeptDescends

-----------------------------------------------------------------------------
(* Creating actions: the new one is numbered after all others.              *)
Made(kinds) == {i \in DOMAIN born : born[i].kind \in kinds}

LEMMA CountBorn ==
  ASSUME born \in Seq([mod : Mods, kind : Kinds])
  PROVE  /\ CreatedSoFar({"simple"}) \in Nat /\ CreatedSoFar({"once", "loop"}) \in Nat
         /\ Len(born) = CreatedSoFar({"simple"}) + CreatedSoFar({"once", "loop"})
<1> DEFINE S == Made({"simple"})
           T == Made({"once", "loop"})
<1>1. Len(born) \in Nat /\ DOMAIN born = 1..Len(born) /\ \A i \in DOMAIN born : born[i].kind \in Kinds
  <2>1. /\ Len(born) \in Nat /\ DOMAIN born = 1..Len(born)
        /\ \A i \in DOMAIN born : born[i] \in [mod : Mods, kind : Kinds]
    BY SeqParts
  <2> QED BY <2>1
<1>2. IsFiniteSet(DOMAIN born) /\ Cardinality(DOMAIN born) = Len(born)
  BY <1>1, CountTo
<1>3. S \cup T = DOMAIN born /\ S \cap T = {}
  BY <1>1 DEF Made, Kinds
<1>4. IsFiniteSet(S) /\ IsFiniteSet(T)
  BY <1>2, <1>3, FS_Subset
<1>5. Cardinality(S) \in Nat /\ Cardinality(T) \in Nat
  BY <1>4, FS_CardinalityType
<1>6. Cardinality(S \cup T) = Cardinality(S) + Cardinality(T) - Cardinality(S \cap T)
  BY <1>4, FS_Union
<1>7. Cardinality(S \cap T) = 0
  BY <1>3, FS_EmptySet
<1>8. S = {i \in DOMAIN born : born[i].kind \in {"simple"}}
      /\ T = {i \in DOMAIN born : born[i].kind \in {"once", "loop"}}
  BY DEF Made
<1> HIDE DEF S, T
<1> QED BY <1>2, <1>3, <1>5, <1>6, <1>7, <1>8 DEF CreatedSoFar

LEMMA OneMoreBorn ==
  ASSUME born \in Seq([mod : Mods, kind : Kinds]), NEW b \in [mod : Mods, kind : Kinds],
         born' = Append(born, b), NEW kinds
  PROVE  CreatedSoFar(kinds)' = CreatedSoFar(kinds) + (IF b.kind \in kinds THEN 1 ELSE 0)
<1> DEFINE S == {i \in DOMAIN born : born[i].kind \in kinds}
           T == {i \in DOMAIN born' : born'[i].kind \in kinds}
           n == Len(born) + 1
<1>1. Len(born) \in Nat /\ DOMAIN born = 1..Len(born) /\ DOMAIN born' = 1..n
  OBVIOUS
<1>2. born'[n] = b /\ \A i \in 1..Len(born) : born'[i] = born[i]
  OBVIOUS
<1>3. IsFiniteSet(DOMAIN born)
  BY <1>1, FS_Interval
<1>4. IsFiniteSet(S)
  BY <1>3, FS_Subset
<1>5. Cardinality(S) \in Nat
  BY <1>4, FS_CardinalityType
<1>6. n \notin S
  BY <1>1
<1>7. T = IF b.kind \in kinds THEN S \cup {n} ELSE S
  BY <1>1, <1>2
<1>8. Cardinality(S \cup {n}) = Cardinality(S) + 1
  BY <1>4, <1>6, FS_AddElement
<1>9. CreatedSoFar(kinds) = Cardinality(S) /\ CreatedSoFar(kinds)' = Cardinality(T)
  BY DEF CreatedSoFar
<1> HIDE DEF S, T
<1> QED BY <1>5, <1>7, <1>8, <1>9

(* The number of the next action is one TypeOK has room for.                *)
LEMMA NewIdFits ==
  ASSUME Shape, Bounded,
         CreatedSoFar({"simple"}) < MaxSimple \/ CreatedSoFar({"once", "loop"}) < MaxDelayed
  PROVE  NewId \in Ids /\ NewId \in Nat /\ NewId \notin Known /\ Known \cup {NewId} = 1..NewId
<1>1. Len(born) \in Nat
  BY DEF Shape
<1>2. /\ CreatedSoFar({"simple"}) \in Nat /\ CreatedSoFar({"once", "loop"}) \in Nat
      /\ Len(born) = CreatedSoFar({"simple"}) + CreatedSoFar({"once", "loop"})
  BY CountBorn DEF Shape
<1>3. Len(born) + 1 <= MaxSimple + MaxDelayed
  BY <1>2, BoundsAssumption DEF Bounded
<1>4. Len(born) + 1 \in 1..(MaxSimple + MaxDelayed) /\ Len(born) + 1 \notin 1..Len(born)
      /\ (1..Len(born)) \cup {Len(born) + 1} = 1..(Len(born) + 1)
  BY <1>1, <1>3, BoundsAssumption
<1> QED BY <1>1, <1>4 DEF NewId, Ids, Known

DelayedGains ==
  \E a \in DelayedAction :
    /\ a.id = NewId /\ a.mod \in Present /\ a.handle \in Named' /\ a.status = "Active"
    /\ born' = Append(born, [mod |-> a.mod, kind |-> IF a.looping THEN "loop" ELSE "once"])
    /\ \A b \in ToSet(delayed) \cup ToSet(delayedPending) :
         b.handle = a.handle => Removed(b) \/ a.handle \in stray'
    /\ \/ delayed' = Append(delayed, a) /\ UNCHANGED delayedPending
       \/ delayedPending' = Append(delayedPending, a) /\ UNCHANGED delayed

CreationFacts ==
  /\ DelayedGains
  /\ \E m \in Present, k \in {"once", "loop"} : born' = Append(born, [mod |-> m, kind |-> k])
  /\ CreatedSoFar({"once", "loop"}) < MaxDelayed
  /\ UNCHANGED <<simple, simplePending, pendingNotify, making, depth, executing, stack, env,
                 ran, cancelled>>
  /\ nextHandle' \in 1..(MaxHandles + 1) /\ stray' \subseteq 1..MaxHandles
  /\ Named \subseteq Named' /\ stray \subseteq stray'

LEMMA EnqueueDelayedMakes ==
  ASSUME Shape, Bounded, NEW m \in Mods, NEW h \in 1..MaxHandles, NEW frames \in BOOLEAN,
         NEW looping \in BOOLEAN, NEW d \in Delays, EnqueueDelayed(m, h, frames, looping, d),
         nextHandle' \in 1..(MaxHandles + 1), stray' \subseteq 1..MaxHandles,
         Named \subseteq Named', stray \subseteq stray', h \in Named',
         \A b \in ToSet(delayed) \cup ToSet(delayedPending) :
           b.handle = h => Removed(b) \/ h \in stray'
  PROVE  CreationFacts
<1> DEFINE a == [id |-> NewId, mod |-> m, handle |-> h,
                 method |-> IF frames THEN EngineTick ELSE TimedMethod,
                 status |-> "Active", delay |-> d, left |-> d,
                 frames |-> frames /\ d > 0, looping |-> looping, pauseAfter |-> FALSE]
<1>1. CreatedSoFar({"once", "loop"}) < MaxDelayed /\ m \in Present
  BY DEF EnqueueDelayed, MayCall, Present
<1>2. NewId \in Ids
  BY <1>1, NewIdFits
<1>3. d \in Nat /\ TimedMethod \in Methods
  BY BoundsAssumption
<1>4. a \in DelayedAction
  BY <1>2, <1>3 DEF DelayedAction, Status, Methods, EngineTick
<1>5. \/ delayed' = Append(delayed, a) /\ UNCHANGED delayedPending
      \/ delayedPending' = Append(delayedPending, a) /\ UNCHANGED delayed
  BY DEF EnqueueDelayed, Enqueue
<1>6. a.id = NewId /\ a.mod = m /\ a.handle = h /\ a.status = "Active" /\ a.looping = looping
  OBVIOUS
<1>9. born' = Append(born, [mod |-> m, kind |-> IF looping THEN "loop" ELSE "once"])
  BY DEF EnqueueDelayed
<1> HIDE DEF a
<1>7. DelayedGains
  BY <1>1, <1>4, <1>5, <1>6, <1>9 DEF DelayedGains
<1>8. \E k \in {"once", "loop"} : born' = Append(born, [mod |-> m, kind |-> k])
  BY DEF EnqueueDelayed
<1> QED BY <1>1, <1>7, <1>8 DEF CreationFacts, EnqueueDelayed

LEMMA CreateMakes ==
  ASSUME Shape, Bounded, NEW m \in Mods, NEW frames \in BOOLEAN, NEW looping \in BOOLEAN,
         NEW d \in Delays, Create(m, frames, looping, d)
  PROVE  CreationFacts
<1>1. nextHandle \in 1..MaxHandles /\ nextHandle' = nextHandle + 1 /\ stray' = stray
  BY BoundsAssumption DEF Create, Shape
<1>5. \A s \in Seq(DelayedIn) : \A b \in ToSet(s) : b.handle \in Named
  BY SeqParts DEF DelayedIn, ToSet
<1>6. nextHandle \notin 1..(nextHandle - 1)
  BY <1>1
<1>2. \A b \in ToSet(delayed) \cup ToSet(delayedPending) : b.handle = nextHandle => nextHandle \in stray'
  BY <1>1, <1>5, <1>6 DEF Shape, Named
<1>7. nextHandle' \in 1..(MaxHandles + 1) /\ nextHandle' - 1 = nextHandle
      /\ 1..(nextHandle - 1) \subseteq 1..nextHandle /\ nextHandle \in 1..nextHandle
  BY <1>1, BoundsAssumption
<1>3. nextHandle' \in 1..(MaxHandles + 1) /\ nextHandle \in Named' /\ Named \subseteq Named'
  BY <1>1, <1>7 DEF Named
<1>4. EnqueueDelayed(m, nextHandle, frames, looping, d) /\ stray' \subseteq 1..MaxHandles
  BY <1>1 DEF Create, Shape
<1> QED BY <1>1, <1>2, <1>3, <1>4, EnqueueDelayedMakes

LEMMA ExecuteWithHandleMakes ==
  ASSUME Shape, Bounded, NEW m \in Mods, NEW h \in Passed, NEW d \in Delays,
         ExecuteWithHandle(m, h, d)
  PROVE  CreationFacts
<1>1. nextHandle' = nextHandle /\ nextHandle \in 1..(MaxHandles + 1) /\ h \in 1..MaxHandles
  BY BoundsAssumption DEF ExecuteWithHandle, TakeHandle, Shape
<1>2. /\ stray' = IF h >= nextHandle THEN stray \cup {h} ELSE stray
      /\ stray \subseteq 1..MaxHandles
  BY DEF ExecuteWithHandle, TakeHandle, Shape
<1>5. h >= nextHandle \/ h \in 1..(nextHandle - 1)
  BY <1>1
<1>6. /\ h \in Named' /\ Named \subseteq Named' /\ stray \subseteq stray'
      /\ stray' \subseteq 1..MaxHandles /\ nextHandle' \in 1..(MaxHandles + 1)
  BY <1>1, <1>2, <1>5 DEF Named
<1>3. \A b \in ToSet(delayed) \cup ToSet(delayedPending) : b.handle = h => Removed(b)
  BY DEF ExecuteWithHandle, Exists, Live
<1>4. EnqueueDelayed(m, h, FALSE, FALSE, d)
  BY DEF ExecuteWithHandle
<1> QED BY <1>1, <1>3, <1>4, <1>6, EnqueueDelayedMakes

-----------------------------------------------------------------------------
(* The steps of the innermost drain.                                        *)
LEMMA TopIn ==
  ASSUME Shape, stack # <<>>
  PROVE  Top \in DrainsIn /\ Len(stack) \in DOMAIN stack
<1>1. Len(stack) \in Nat /\ DOMAIN stack = 1..Len(stack) /\ \A i \in DOMAIN stack : stack[i] \in DrainsIn
  BY SeqParts DEF Shape
<1>2. Len(stack) # 0
  BY <1>1 DEF Shape
<1> QED BY <1>1, <1>2 DEF Top, Last

LEMMA TopSet ==
  ASSUME Shape, stack # <<>>, NEW d \in DrainsIn, SetTop(d)
  PROVE  stack' \in Seq(DrainsIn)
BY TopIn, SeqChange DEF SetTop, Shape

LEMMA SameSets ==
  ASSUME UNCHANGED <<born, handles, unload>>
  PROVE  /\ Known' = Known /\ Present' = Present /\ Undrained' = Undrained /\ Named' = Named
         /\ SimpleIn(Present)' = SimpleIn(Present) /\ ReadyIn' = ReadyIn
         /\ DelayedIn' = DelayedIn /\ DrainsIn' = DrainsIn
BY DEF Known, Present, Undrained, Named, handles, SimpleIn, ReadyIn, DelayedIn, DrainsIn, Gone

(* A drain that a step leaves as DrainsIn wants it.                         *)
LEMMA DrainSets ==
  ASSUME NEW d
  PROVE  d \in DrainsIn <=>
    /\ d \in [method : Methods, pc : DrainPC, todo : Seq(SimpleIn(Undrained) \cup ReadyIn),
              deferred : Seq(SimpleIn(Undrained)), ready : Seq(ReadyIn)]
    /\ d.pc \in RunsSimple => d.todo \in Seq(SimpleIn(Undrained))
    /\ d.pc \in RunsDelayed => d.todo \in Seq(ReadyIn)
    /\ d.pc \notin RunsSimple \cup RunsDelayed => d.todo = <<>>
    /\ d.pc \notin RunsSimple => d.deferred = <<>>
    /\ d.pc \notin RunsDelayed => d.ready = <<>>
    /\ Calling(d) => d.todo # <<>>
BY DEF DrainsIn

LEMMA NewDrain ==
  ASSUME NEW q \in Methods
  PROVE  [method |-> q, pc |-> "simple", todo |-> <<>>, deferred |-> <<>>, ready |-> <<>>] \in DrainsIn
BY DEF DrainsIn, DrainPC, RunsSimple, RunsDelayed, Calling

(* A drain that takes todo and ready, and stands at pc.                     *)
LEMMA TodoWider ==
  ASSUME NEW s
  PROVE  /\ s \in Seq(SimpleIn(Undrained)) => s \in Seq(SimpleIn(Undrained) \cup ReadyIn)
         /\ s \in Seq(ReadyIn) => s \in Seq(SimpleIn(Undrained) \cup ReadyIn)
BY SeqWider

LEMMA DrainBusySimple ==
  ASSUME NEW d \in DrainsIn, NEW p \in RunsSimple, NEW s \in Seq(SimpleIn(Undrained)),
         NEW t \in Seq(SimpleIn(Undrained)), d.ready = <<>>, p = "inSimple" => s # <<>>
  PROVE  [d EXCEPT !.pc = p, !.todo = s, !.deferred = t] \in DrainsIn
<1> DEFINE e == [d EXCEPT !.pc = p, !.todo = s, !.deferred = t]
<1>1. s \in Seq(SimpleIn(Undrained) \cup ReadyIn)
  BY TodoWider
<1>2. d \in [method : Methods, pc : DrainPC, todo : Seq(SimpleIn(Undrained) \cup ReadyIn),
             deferred : Seq(SimpleIn(Undrained)), ready : Seq(ReadyIn)]
  BY DrainSets
<1>3. e \in [method : Methods, pc : DrainPC, todo : Seq(SimpleIn(Undrained) \cup ReadyIn),
             deferred : Seq(SimpleIn(Undrained)), ready : Seq(ReadyIn)]
  BY <1>1, <1>2 DEF DrainPC, RunsSimple
<1>4. e.pc = p /\ e.todo = s /\ e.deferred = t /\ e.ready = <<>>
  BY <1>2
<1> HIDE DEF e
<1>5. e \in DrainsIn
  BY <1>3, <1>4, DrainSets DEF RunsSimple, RunsDelayed, Calling
<1> QED BY <1>5 DEF e

LEMMA DrainBusyDelayed ==
  ASSUME NEW d \in DrainsIn, NEW p \in RunsDelayed, NEW s \in Seq(ReadyIn),
         NEW t \in Seq(ReadyIn), d.deferred = <<>>, p = "inDelayed" => s # <<>>
  PROVE  [d EXCEPT !.pc = p, !.todo = s, !.ready = t] \in DrainsIn
<1> DEFINE e == [d EXCEPT !.pc = p, !.todo = s, !.ready = t]
<1>1. s \in Seq(SimpleIn(Undrained) \cup ReadyIn)
  BY TodoWider
<1>2. d \in [method : Methods, pc : DrainPC, todo : Seq(SimpleIn(Undrained) \cup ReadyIn),
             deferred : Seq(SimpleIn(Undrained)), ready : Seq(ReadyIn)]
  BY DrainSets
<1>3. e \in [method : Methods, pc : DrainPC, todo : Seq(SimpleIn(Undrained) \cup ReadyIn),
             deferred : Seq(SimpleIn(Undrained)), ready : Seq(ReadyIn)]
  BY <1>1, <1>2 DEF DrainPC, RunsDelayed
<1>4. e.pc = p /\ e.todo = s /\ e.deferred = <<>> /\ e.ready = t
  BY <1>2
<1> HIDE DEF e
<1>5. e \in DrainsIn
  BY <1>3, <1>4, DrainSets DEF RunsSimple, RunsDelayed, Calling
<1> QED BY <1>5 DEF e

LEMMA DrainIdle ==
  ASSUME NEW d \in DrainsIn, NEW p \in DrainPC \ (RunsSimple \cup RunsDelayed), d.todo = <<>>
  PROVE  [d EXCEPT !.pc = p, !.deferred = <<>>, !.ready = <<>>] \in DrainsIn
<1> DEFINE e == [d EXCEPT !.pc = p, !.deferred = <<>>, !.ready = <<>>]
<1>1. d \in [method : Methods, pc : DrainPC, todo : Seq(SimpleIn(Undrained) \cup ReadyIn),
             deferred : Seq(SimpleIn(Undrained)), ready : Seq(ReadyIn)]
  BY DrainSets
<1>5. p \in DrainPC /\ <<>> \in Seq(SimpleIn(Undrained)) /\ <<>> \in Seq(ReadyIn)
  OBVIOUS
<1>2. e \in [method : Methods, pc : DrainPC, todo : Seq(SimpleIn(Undrained) \cup ReadyIn),
             deferred : Seq(SimpleIn(Undrained)), ready : Seq(ReadyIn)]
  BY <1>1, <1>5
<1>3. e.pc = p /\ e.todo = <<>> /\ e.deferred = <<>> /\ e.ready = <<>>
  BY <1>1
<1> HIDE DEF e
<1>4. e \in DrainsIn
  BY <1>2, <1>3, DrainSets DEF RunsSimple, RunsDelayed, Calling
<1> QED BY <1>4 DEF e

(* The drain steps that leave the delayed actions alone.                    *)
DrainFacts ==
  /\ stack' \in Seq(DrainsIn)
  /\ simple' \in [Methods -> Seq(SimpleIn(Present))]
  /\ simplePending' \in [Methods -> Seq(SimpleIn(Present))]
  /\ executing' \in BOOLEAN /\ ran' \subseteq Known /\ pendingNotify' \in BOOLEAN

SimpleStep ==
  \/ TakeSimple \/ SkipSimple \/ DeferSimple \/ CallSimple \/ SimpleReturns \/ PutBackDeferred

(* What At(pc) says of the drain in Shape.                                  *)
LEMMA AtTop ==
  ASSUME Shape, NEW p, At(p)
  PROVE  /\ stack # <<>> /\ Top \in DrainsIn /\ Top.pc = p /\ Top.method \in Methods
         /\ p \in RunsSimple => Top.todo \in Seq(SimpleIn(Undrained)) /\ Top.ready = <<>>
         /\ Top.deferred \in Seq(SimpleIn(Undrained)) /\ Top.ready \in Seq(ReadyIn)
         /\ p \in RunsDelayed => Top.todo \in Seq(ReadyIn) /\ Top.deferred = <<>>
         /\ p \notin RunsSimple \cup RunsDelayed =>
              Top.todo = <<>> /\ Top.deferred = <<>> /\ Top.ready = <<>>
         /\ p \in {"inSimple", "inDelayed"} => Top.todo # <<>>
<1>1. stack # <<>> /\ Top \in DrainsIn /\ Top.pc = p
  BY TopIn DEF At
<1> HIDE DEF Top
<1> QED BY <1>1, DrainSets DEF RunsSimple, RunsDelayed, Calling

LEMMA TailIn ==
  ASSUME NEW S, NEW s \in Seq(S), s # <<>>
  PROVE  Head(s) \in S /\ Tail(s) \in Seq(S)
OBVIOUS

(* No mod's actions are erased while a drain is about to take its queue.    *)
LEMMA TakesAll ==
  ASSUME Shape, Nesting, stack # <<>>, Top.pc \in Takes
  PROVE  Present = Undrained
<1>1. Len(stack) \in DOMAIN stack /\ Top = stack[Len(stack)]
  BY TopIn DEF Top, Last
<1>2. \A m \in Mods : unload[m] # "erasing"
  BY <1>1 DEF Nesting
<1> QED BY <1>2 DEF Shape, Present, Undrained, Gone

LEMMA SimpleStepKeeps ==
  ASSUME Shape, Nesting, SimpleStep
  PROVE  DrainFacts
<1>1. CASE TakeSimple
  <2>1. /\ stack # <<>> /\ Top \in DrainsIn /\ Top.pc = "takeSimple" /\ Top.method \in Methods
        /\ Top.todo = <<>> /\ Top.deferred = <<>> /\ Top.ready = <<>>
    BY <1>1, AtTop DEF TakeSimple, RunsSimple, RunsDelayed
  <2>2. Present = Undrained
    BY <2>1, TakesAll DEF Takes
  <2>3. simple[Top.method] \in Seq(SimpleIn(Undrained))
    BY <2>1, <2>2 DEF Shape
  <2>4. [Top EXCEPT !.pc = "runSimple", !.todo = simple[Top.method], !.deferred = Top.deferred] \in DrainsIn
    BY <2>1, <2>3, DrainBusySimple, DrainSets DEF RunsSimple
  <2>5. [Top EXCEPT !.pc = "runSimple", !.todo = simple[Top.method]]
          = [Top EXCEPT !.pc = "runSimple", !.todo = simple[Top.method], !.deferred = Top.deferred]
    BY <2>1, DrainSets
  <2>6. /\ SetTop([Top EXCEPT !.pc = "runSimple", !.todo = simple[Top.method]])
        /\ simple' = [simple EXCEPT ![Top.method] = <<>>]
        /\ UNCHANGED <<simplePending, pendingNotify, executing, ran>>
    BY <1>1 DEF TakeSimple, history
  <2>7. stack' \in Seq(DrainsIn)
    BY <2>1, <2>4, <2>5, <2>6, TopSet
  <2>8. simple \in [Methods -> Seq(SimpleIn(Present))] /\ <<>> \in Seq(SimpleIn(Present))
    BY DEF Shape
  <2>9. simple' \in [Methods -> Seq(SimpleIn(Present))]
    BY <2>6, <2>8
  <2> QED BY <2>6, <2>7, <2>9 DEF DrainFacts, Shape
<1>2. CASE SkipSimple
  <2>1. /\ stack # <<>> /\ Top \in DrainsIn /\ Top.pc = "runSimple" /\ Top.ready = <<>>
        /\ Top.todo \in Seq(SimpleIn(Undrained)) /\ Top.deferred \in Seq(SimpleIn(Undrained))
    BY <1>2, AtTop DEF SkipSimple, RunsSimple, RunsDelayed
  <2>2. SetTop([Top EXCEPT !.todo = Tail(Top.todo)]) /\ Top.todo # <<>>
    BY <1>2 DEF SkipSimple
  <2>3. Tail(Top.todo) \in Seq(SimpleIn(Undrained))
    BY <2>1, <2>2, TailIn
  <2>4. [Top EXCEPT !.pc = "runSimple", !.todo = Tail(Top.todo), !.deferred = Top.deferred] \in DrainsIn
    BY <2>1, <2>3, DrainBusySimple DEF RunsSimple
  <2>5. [Top EXCEPT !.todo = Tail(Top.todo)]
          = [Top EXCEPT !.pc = "runSimple", !.todo = Tail(Top.todo), !.deferred = Top.deferred]
    BY <2>1, DrainSets
  <2>6. stack' \in Seq(DrainsIn)
    BY <2>1, <2>2, <2>4, <2>5, TopSet
  <2> QED BY <1>2, <2>6 DEF SkipSimple, DrainFacts, Shape, queues, history
<1>3. CASE DeferSimple
  <2>1. /\ stack # <<>> /\ Top \in DrainsIn /\ Top.pc = "runSimple" /\ Top.ready = <<>>
        /\ Top.todo \in Seq(SimpleIn(Undrained)) /\ Top.deferred \in Seq(SimpleIn(Undrained))
    BY <1>3, AtTop DEF DeferSimple, RunsSimple, RunsDelayed
  <2> DEFINE more == Append(Top.deferred, Head(Top.todo))
  <2>2. SetTop([Top EXCEPT !.todo = Tail(Top.todo), !.deferred = more]) /\ Top.todo # <<>>
    BY <1>3 DEF DeferSimple
  <2>3. Tail(Top.todo) \in Seq(SimpleIn(Undrained)) /\ more \in Seq(SimpleIn(Undrained))
    BY <2>1, <2>2, TailIn
  <2> HIDE DEF more
  <2>4. [Top EXCEPT !.pc = "runSimple", !.todo = Tail(Top.todo), !.deferred = more] \in DrainsIn
    BY <2>1, <2>3, DrainBusySimple DEF RunsSimple
  <2>5. [Top EXCEPT !.todo = Tail(Top.todo), !.deferred = more]
          = [Top EXCEPT !.pc = "runSimple", !.todo = Tail(Top.todo), !.deferred = more]
    BY <2>1, DrainSets
  <2>6. stack' \in Seq(DrainsIn)
    BY <2>1, <2>2, <2>4, <2>5, TopSet
  <2> QED BY <1>3, <2>6 DEF DeferSimple, DrainFacts, Shape, queues, history
<1>4. CASE CallSimple
  <2>1. /\ stack # <<>> /\ Top \in DrainsIn /\ Top.pc = "runSimple" /\ Top.ready = <<>>
        /\ Top.todo \in Seq(SimpleIn(Undrained)) /\ Top.deferred \in Seq(SimpleIn(Undrained))
    BY <1>4, AtTop DEF CallSimple, RunsSimple, RunsDelayed
  <2>2. SetTop([Top EXCEPT !.pc = "inSimple"]) /\ Top.todo # <<>>
    BY <1>4 DEF CallSimple
  <2>7. Head(Top.todo) \in SimpleIn(Undrained)
    BY <2>1, <2>2, TailIn
  <2>3. Head(Top.todo).id \in Known
    BY <2>7 DEF SimpleIn
  <2>4. [Top EXCEPT !.pc = "inSimple", !.todo = Top.todo, !.deferred = Top.deferred] \in DrainsIn
    BY <2>1, <2>2, DrainBusySimple DEF RunsSimple
  <2>5. [Top EXCEPT !.pc = "inSimple"]
          = [Top EXCEPT !.pc = "inSimple", !.todo = Top.todo, !.deferred = Top.deferred]
    BY <2>1, DrainSets
  <2>6. stack' \in Seq(DrainsIn)
    BY <2>1, <2>2, <2>4, <2>5, TopSet
  <2> QED BY <1>4, <2>3, <2>6 DEF CallSimple, DrainFacts, Shape, queues
<1>5. CASE SimpleReturns
  <2>1. /\ stack # <<>> /\ Top \in DrainsIn /\ Top.pc = "inSimple" /\ Top.ready = <<>> /\ Top.todo # <<>>
        /\ Top.todo \in Seq(SimpleIn(Undrained)) /\ Top.deferred \in Seq(SimpleIn(Undrained))
    BY <1>5, AtTop DEF SimpleReturns, RunsSimple, RunsDelayed
  <2>2. SetTop([Top EXCEPT !.pc = "runSimple", !.todo = Tail(Top.todo)])
    BY <1>5 DEF SimpleReturns
  <2>3. Tail(Top.todo) \in Seq(SimpleIn(Undrained))
    BY <2>1, <2>2, TailIn
  <2>4. [Top EXCEPT !.pc = "runSimple", !.todo = Tail(Top.todo), !.deferred = Top.deferred] \in DrainsIn
    BY <2>1, <2>3, DrainBusySimple DEF RunsSimple
  <2>5. [Top EXCEPT !.pc = "runSimple", !.todo = Tail(Top.todo)]
          = [Top EXCEPT !.pc = "runSimple", !.todo = Tail(Top.todo), !.deferred = Top.deferred]
    BY <2>1, DrainSets
  <2>6. stack' \in Seq(DrainsIn)
    BY <2>1, <2>2, <2>4, <2>5, TopSet
  <2> QED BY <1>5, <2>6 DEF SimpleReturns, DrainFacts, Shape, queues, history
<1>6. CASE PutBackDeferred
  <2>1. /\ stack # <<>> /\ Top \in DrainsIn /\ Top.pc = "runSimple" /\ Top.ready = <<>>
        /\ Top.method \in Methods /\ Top.deferred \in Seq(SimpleIn(Undrained))
    BY <1>6, AtTop DEF PutBackDeferred, RunsSimple, RunsDelayed
  <2>2. /\ SetTop([Top EXCEPT !.pc = "delayed", !.deferred = <<>>]) /\ Top.todo = <<>>
        /\ simple' = [simple EXCEPT ![Top.method] = simple[Top.method] \o Top.deferred]
    BY <1>6 DEF PutBackDeferred
  <2>3. Top.deferred \in Seq(SimpleIn(Present))
    BY <2>1, SeqWider DEF SimpleIn, Present, Undrained, Gone
  <2>4. simple[Top.method] \o Top.deferred \in Seq(SimpleIn(Present))
    BY <2>1, <2>3, SeqJoin DEF Shape
  <2>5. simple' \in [Methods -> Seq(SimpleIn(Present))]
    BY <2>2, <2>4 DEF Shape
  <2>6. [Top EXCEPT !.pc = "delayed", !.deferred = <<>>, !.ready = <<>>] \in DrainsIn
    BY <2>1, <2>2, DrainIdle DEF DrainPC, RunsSimple, RunsDelayed
  <2>7. [Top EXCEPT !.pc = "delayed", !.deferred = <<>>]
          = [Top EXCEPT !.pc = "delayed", !.deferred = <<>>, !.ready = <<>>]
    BY <2>1, DrainSets
  <2>8. stack' \in Seq(DrainsIn)
    BY <2>1, <2>2, <2>6, <2>7, TopSet
  <2> QED BY <1>6, <2>5, <2>8 DEF PutBackDeferred, DrainFacts, Shape, history
<1> QED BY <1>1, <1>2, <1>3, <1>4, <1>5, <1>6 DEF SimpleStep

(* There are at most as many delayed actions as there are numbers.          *)
LEMMA DelayedFits ==
  ASSUME Shape, Distinct
  PROVE  DOMAIN delayed \subseteq Known
<1>1. /\ Len(delayed) \in Nat /\ DOMAIN delayed = 1..Len(delayed) /\ Len(born) \in Nat
      /\ \A i \in DOMAIN delayed : delayed[i] \in DelayedIn
  BY SeqParts DEF Shape
<1> DEFINE f == [i \in 1..Len(delayed) |-> delayed[i].id]
<1>2. f \in [1..Len(delayed) -> 1..Len(born)]
  BY <1>1 DEF DelayedIn, Known
<1>3. \A i, j \in 1..Len(delayed) : f[i] = f[j] => i = j
  BY <1>1 DEF Distinct, Unique, Clash
<1>4. f \in Injection(1..Len(delayed), 1..Len(born))
  BY <1>2, <1>3 DEF Injection, IsInjective
<1>5. IsFiniteSet(1..Len(born)) /\ Cardinality(1..Len(born)) = Len(born)
  BY <1>1, CountTo
<1>6. Cardinality(1..Len(delayed)) = Len(delayed)
  BY <1>1, CountTo
<1> HIDE DEF f
<1>7. Cardinality(1..Len(delayed)) <= Cardinality(1..Len(born))
  BY <1>4, <1>5, FS_Injection
<1>8. Len(delayed) <= Len(born)
  BY <1>5, <1>6, <1>7
<1> QED BY <1>1, <1>8 DEF Known

(* What TakeReady takes.                                                    *)
LEMMA ReadyTaken ==
  ASSUME Shape, Distinct, Present = Undrained, NEW due \in SUBSET DOMAIN delayed
  PROVE  [k \in DOMAIN InOrder(due) |->
            LET i == InOrder(due)[k]
            IN [index |-> i, id |-> delayed[i].id, mod |-> delayed[i].mod]] \in Seq(ReadyIn)
<1>1. /\ Len(delayed) \in Nat /\ DOMAIN delayed = 1..Len(delayed)
      /\ \A i \in DOMAIN delayed : delayed[i] \in DelayedIn
  BY SeqParts DEF Shape
<1>2. IsFiniteSet(due) /\ due \in SUBSET Nat
  <2>1. IsFiniteSet(DOMAIN delayed)
    BY <1>1, FS_Interval
  <2> QED BY <1>1, <2>1, FS_Subset
<1>3. InOrder(due) \in [1..Cardinality(due) -> due] /\ Cardinality(due) \in Nat
  BY <1>2, InOrderIsABijection
<1>4. \A i \in due : [index |-> i, id |-> delayed[i].id, mod |-> delayed[i].mod] \in ReadyIn
  <2>1. \A i \in due : i \in Known /\ delayed[i].id \in Known /\ delayed[i].mod \in Present
    BY <1>1, DelayedFits DEF DelayedIn
  <2> QED BY <2>1 DEF ReadyIn
<1> HIDE DEF InOrder, ReadyIn
<1> QED BY <1>3, <1>4

ReadyStep == TakeReady \/ SkipReady \/ CallReady \/ ReadyReturns \/ RetireReady

LEMMA ReadyStepKeeps ==
  ASSUME Shape, Nesting, Distinct, ReadyStep
  PROVE  DrainFacts
<1>1. CASE TakeReady
  <2>1. /\ stack # <<>> /\ Top \in DrainsIn /\ Top.pc = "takeReady"
        /\ Top.todo = <<>> /\ Top.deferred = <<>> /\ Top.ready = <<>>
    BY <1>1, AtTop DEF TakeReady, RunsSimple, RunsDelayed
  <2> DEFINE due == {i \in DOMAIN delayed : IsDue(delayed[i], Top.method)}
             ready == [k \in DOMAIN InOrder(due) |->
                         LET i == InOrder(due)[k]
                         IN [index |-> i, id |-> delayed[i].id, mod |-> delayed[i].mod]]
  <2>2. /\ SetTop([Top EXCEPT !.pc = "runDelayed", !.todo = ready, !.ready = ready])
        /\ UNCHANGED <<simple, simplePending, pendingNotify, executing, ran>>
    BY <1>1 DEF TakeReady, history
  <2>3. Present = Undrained
    BY <2>1, TakesAll DEF Takes
  <2>4. ready \in Seq(ReadyIn)
    BY <2>3, ReadyTaken
  <2> HIDE DEF ready
  <2>5. [Top EXCEPT !.pc = "runDelayed", !.todo = ready, !.ready = ready] \in DrainsIn
    BY <2>1, <2>4, DrainBusyDelayed DEF RunsDelayed
  <2>6. stack' \in Seq(DrainsIn)
    BY <2>1, <2>2, <2>5, TopSet
  <2> QED BY <2>2, <2>6 DEF DrainFacts, Shape
<1>2. CASE SkipReady
  <2>1. /\ stack # <<>> /\ Top \in DrainsIn /\ Top.pc = "runDelayed" /\ Top.deferred = <<>>
        /\ Top.todo \in Seq(ReadyIn) /\ Top.ready \in Seq(ReadyIn)
    BY <1>2, AtTop DEF SkipReady, RunsSimple, RunsDelayed
  <2>2. SetTop([Top EXCEPT !.todo = Tail(Top.todo)]) /\ Top.todo # <<>>
    BY <1>2 DEF SkipReady
  <2>3. Tail(Top.todo) \in Seq(ReadyIn)
    BY <2>1, <2>2, TailIn
  <2>4. [Top EXCEPT !.pc = "runDelayed", !.todo = Tail(Top.todo), !.ready = Top.ready] \in DrainsIn
    BY <2>1, <2>3, DrainBusyDelayed DEF RunsDelayed
  <2>5. [Top EXCEPT !.todo = Tail(Top.todo)]
          = [Top EXCEPT !.pc = "runDelayed", !.todo = Tail(Top.todo), !.ready = Top.ready]
    BY <2>1, DrainSets
  <2>6. stack' \in Seq(DrainsIn)
    BY <2>1, <2>2, <2>4, <2>5, TopSet
  <2> QED BY <1>2, <2>6 DEF SkipReady, DrainFacts, Shape, queues, history
<1>3. CASE CallReady
  <2>1. /\ stack # <<>> /\ Top \in DrainsIn /\ Top.pc = "runDelayed" /\ Top.deferred = <<>>
        /\ Top.todo \in Seq(ReadyIn) /\ Top.ready \in Seq(ReadyIn)
    BY <1>3, AtTop DEF CallReady, RunsSimple, RunsDelayed
  <2>2. SetTop([Top EXCEPT !.pc = "inDelayed"]) /\ Top.todo # <<>>
    BY <1>3 DEF CallReady
  <2>5. [Top EXCEPT !.pc = "inDelayed", !.todo = Top.todo, !.ready = Top.ready] \in DrainsIn
    BY <2>1, <2>2, DrainBusyDelayed DEF RunsDelayed
  <2>6. [Top EXCEPT !.pc = "inDelayed"]
          = [Top EXCEPT !.pc = "inDelayed", !.todo = Top.todo, !.ready = Top.ready]
    BY <2>1, DrainSets
  <2>7. stack' \in Seq(DrainsIn)
    BY <2>1, <2>2, <2>5, <2>6, TopSet
  <2> QED BY <1>3, <2>7 DEF CallReady, DrainFacts, Shape, queues, history
<1>4. CASE ReadyReturns
  <2>1. /\ stack # <<>> /\ Top \in DrainsIn /\ Top.pc = "inDelayed" /\ Top.deferred = <<>>
        /\ Top.todo \in Seq(ReadyIn) /\ Top.ready \in Seq(ReadyIn) /\ Top.todo # <<>>
    BY <1>4, AtTop DEF ReadyReturns, RunsSimple, RunsDelayed
  <2>2. SetTop([Top EXCEPT !.pc = "runDelayed", !.todo = Tail(Top.todo)])
    BY <1>4 DEF ReadyReturns
  <2>3. Tail(Top.todo) \in Seq(ReadyIn)
    BY <2>1, TailIn
  <2>4. [Top EXCEPT !.pc = "runDelayed", !.todo = Tail(Top.todo), !.ready = Top.ready] \in DrainsIn
    BY <2>1, <2>3, DrainBusyDelayed DEF RunsDelayed
  <2>5. [Top EXCEPT !.pc = "runDelayed", !.todo = Tail(Top.todo)]
          = [Top EXCEPT !.pc = "runDelayed", !.todo = Tail(Top.todo), !.ready = Top.ready]
    BY <2>1, DrainSets
  <2>6. stack' \in Seq(DrainsIn)
    BY <2>1, <2>2, <2>4, <2>5, TopSet
  <2> QED BY <1>4, <2>6 DEF ReadyReturns, DrainFacts, Shape, queues, history
<1>5. CASE RetireReady
  <2>1. /\ stack # <<>> /\ Top \in DrainsIn /\ Top.pc = "runDelayed" /\ Top.deferred = <<>>
    BY <1>5, AtTop DEF RetireReady, RunsSimple, RunsDelayed
  <2>2. SetTop([Top EXCEPT !.pc = "notify", !.ready = <<>>]) /\ Top.todo = <<>>
    BY <1>5 DEF RetireReady
  <2>3. [Top EXCEPT !.pc = "notify", !.deferred = <<>>, !.ready = <<>>] \in DrainsIn
    BY <2>1, <2>2, DrainIdle DEF DrainPC, RunsSimple, RunsDelayed
  <2>4. [Top EXCEPT !.pc = "notify", !.ready = <<>>]
          = [Top EXCEPT !.pc = "notify", !.deferred = <<>>, !.ready = <<>>]
    BY <2>1, DrainSets
  <2>5. stack' \in Seq(DrainsIn)
    BY <2>1, <2>2, <2>3, <2>4, TopSet
  <2> QED BY <1>5, <2>5 DEF RetireReady, DrainFacts, Shape, history
<1> QED BY <1>1, <1>2, <1>3, <1>4, <1>5 DEF ReadyStep

(* The steps of a drain between its phases, when it holds no action.        *)
IdleStep == TestTransition \/ TakeNotify \/ NotifyReturns \/ LeaveDrain
IdleAt == DrainPC \ (RunsSimple \cup RunsDelayed)
Goes(p) ==
  /\ stack # <<>> /\ Top \in DrainsIn /\ Top.pc \in IdleAt \ {"merge"} /\ p \in IdleAt
  /\ SetTop([Top EXCEPT !.pc = p])

LEMMA IdleStepGoes ==
  ASSUME Shape, IdleStep
  PROVE  \/ \E p \in IdleAt \ {"merge", "inNotify"} :
              /\ Goes(p) /\ Top.pc # "inNotify" /\ (p \in Takes => ~transitioning)
              /\ UNCHANGED depth /\ (pendingNotify' => pendingNotify)
         \/ /\ Goes("inNotify") /\ Top.pc # "inNotify" /\ pendingNotify /\ ~pendingNotify'
            /\ UNCHANGED depth
         \/ Goes("leave") /\ Top.pc = "inNotify" /\ UNCHANGED <<depth, pendingNotify>>
         \/ Goes("merge") /\ Top.pc = "leave" /\ depth' = depth - 1 /\ UNCHANGED pendingNotify
<1>0. Shape => pendingNotify \in BOOLEAN
  BY DEF Shape
<1>1. CASE TestTransition
  <2>1. PICK phase \in DOMAIN Take : At(phase) /\ SetTop([Top EXCEPT !.pc = IF transitioning THEN Skip[phase] ELSE Take[phase]])
    BY <1>1 DEF TestTransition
  <2>2. phase \in {"simple", "delayed", "notify"} /\ DOMAIN Take = {"simple", "delayed", "notify"}
    BY DEF Take
  <2>3. stack # <<>> /\ Top \in DrainsIn /\ Top.pc = phase
    BY <2>1, AtTop
  <2> DEFINE p == IF transitioning THEN Skip[phase] ELSE Take[phase]
  <2>4. /\ p \in {"delayed", "notify", "leave", "takeSimple", "takeReady", "takeNotify"}
        /\ p \in Takes => ~transitioning
    BY <2>2 DEF Take, Skip, Takes
  <2>5. SetTop([Top EXCEPT !.pc = p]) /\ UNCHANGED <<depth, pendingNotify>>
    BY <1>1, <2>1 DEF TestTransition, queues
  <2> HIDE DEF p
  <2>6. Goes(p) /\ p \in IdleAt \ {"merge", "inNotify"} /\ Top.pc # "inNotify"
    BY <2>2, <2>3, <2>4, <2>5 DEF Goes, IdleAt, DrainPC, RunsSimple, RunsDelayed
  <2> QED BY <2>4, <2>5, <2>6
<1>2. CASE TakeNotify
  <2>1. stack # <<>> /\ Top \in DrainsIn /\ Top.pc = "takeNotify"
    BY <1>2, AtTop DEF TakeNotify
  <2>2. SetTop([Top EXCEPT !.pc = IF pendingNotify THEN "inNotify" ELSE "leave"])
        /\ UNCHANGED depth /\ pendingNotify' = FALSE
    BY <1>2 DEF TakeNotify
  <2>3. CASE pendingNotify
    BY <2>1, <2>2, <2>3 DEF Goes, IdleAt, DrainPC, RunsSimple, RunsDelayed
  <2>4. CASE ~pendingNotify
    BY <2>1, <2>2, <2>4 DEF Goes, IdleAt, DrainPC, RunsSimple, RunsDelayed, Takes
  <2> QED BY <2>3, <2>4
<1>3. CASE NotifyReturns
  <2>1. stack # <<>> /\ Top \in DrainsIn /\ Top.pc = "inNotify"
    BY <1>3, AtTop DEF NotifyReturns
  <2> QED BY <1>3, <2>1 DEF NotifyReturns, Goes, IdleAt, DrainPC, RunsSimple, RunsDelayed, queues
<1>4. CASE LeaveDrain
  <2>1. stack # <<>> /\ Top \in DrainsIn /\ Top.pc = "leave"
    BY <1>4, AtTop DEF LeaveDrain
  <2> QED BY <1>4, <2>1 DEF LeaveDrain, Goes, IdleAt, DrainPC, RunsSimple, RunsDelayed, queues
<1> QED BY <1>1, <1>2, <1>3, <1>4 DEF IdleStep

LEMMA IdleUnchanged ==
  ASSUME IdleStep
  PROVE  UNCHANGED <<simple, simplePending, delayed, delayedPending, handles, executing, env, history>>
BY DEF IdleStep, TestTransition, TakeNotify, NotifyReturns, LeaveDrain, queues

LEMMA IdleStepKeeps ==
  ASSUME Shape, IdleStep
  PROVE  DrainFacts
<1>1. PICK p \in IdleAt : Goes(p)
  BY IdleStepGoes DEF IdleAt, DrainPC, RunsSimple, RunsDelayed
<1>2. stack # <<>> /\ Top \in DrainsIn /\ Top.pc \notin RunsSimple \cup RunsDelayed
      /\ SetTop([Top EXCEPT !.pc = p])
  BY <1>1 DEF Goes, IdleAt
<1>3. Top.todo = <<>> /\ Top.deferred = <<>> /\ Top.ready = <<>>
  BY <1>2, DrainSets
<1>4. [Top EXCEPT !.pc = p, !.deferred = <<>>, !.ready = <<>>] \in DrainsIn
  BY <1>2, <1>3, DrainIdle DEF IdleAt
<1>5. [Top EXCEPT !.pc = p] = [Top EXCEPT !.pc = p, !.deferred = <<>>, !.ready = <<>>]
  BY <1>2, <1>3, DrainSets
<1>6. stack' \in Seq(DrainsIn)
  BY <1>2, <1>4, <1>5, TopSet
<1>7. pendingNotify' \in BOOLEAN
  BY IdleStepGoes DEF Shape, IdleStep, TestTransition, TakeNotify, NotifyReturns, LeaveDrain, queues
<1> QED BY <1>6, <1>7, IdleUnchanged DEF DrainFacts, Shape, history

-----------------------------------------------------------------------------
(* Every step keeps Shape.                                                  *)
LEMMA SetsGrow ==
  ASSUME Known \subseteq Known', Named \subseteq Named',
         Present' = Present, Undrained' = Undrained
  PROVE  /\ SimpleIn(Present) \subseteq SimpleIn(Present)'
         /\ DelayedIn \subseteq DelayedIn' /\ DrainsIn \subseteq DrainsIn'
<1>1. SimpleIn(Present) \subseteq SimpleIn(Present)' /\ DelayedIn \subseteq DelayedIn'
  BY DEF SimpleIn, DelayedIn
<1>2. SimpleIn(Undrained) \subseteq SimpleIn(Undrained)' /\ ReadyIn \subseteq ReadyIn'
  BY DEF SimpleIn, ReadyIn
<1>3. /\ Seq(SimpleIn(Undrained)) \subseteq Seq(SimpleIn(Undrained)') /\ Seq(ReadyIn) \subseteq Seq(ReadyIn')
      /\ Seq(SimpleIn(Undrained) \cup ReadyIn) \subseteq Seq(SimpleIn(Undrained)' \cup ReadyIn')
  BY <1>2, SeqWider
<1>4. DrainsIn \subseteq DrainsIn'
  BY <1>3 DEF DrainsIn
<1> QED BY <1>1, <1>4

LEMMA ShapeGrows ==
  ASSUME Shape, Known \subseteq Known', Named \subseteq Named', UNCHANGED <<stack, unload>>
  PROVE  /\ \A s : s \in Seq(SimpleIn(Present)) => s \in Seq(SimpleIn(Present)')
         /\ \A s : s \in Seq(DelayedIn) => s \in Seq(DelayedIn')
         /\ stack' \in Seq(DrainsIn')
<1>1. /\ SimpleIn(Present) \subseteq SimpleIn(Present)'
      /\ DelayedIn \subseteq DelayedIn' /\ DrainsIn \subseteq DrainsIn'
  BY SetsGrow DEF Present, Undrained, Gone
<1>2. stack' \in Seq(DrainsIn)
  BY DEF Shape
<1> QED BY <1>1, <1>2, SeqWider

LEMMA EnterShape ==
  ASSUME Shape, NEW q \in Methods, EnterDrain(q)
  PROVE  Shape'
<1> DEFINE d == [method |-> q, pc |-> "simple", todo |-> <<>>, deferred |-> <<>>, ready |-> <<>>]
<1>1. d \in DrainsIn
  BY NewDrain
<1>2. stack' = Append(stack, d) /\ UNCHANGED <<queues, handles, executing, env, history>>
  BY DEF EnterDrain
<1> HIDE DEF d
<1>3. stack' \in Seq(DrainsIn)
  BY <1>1, <1>2 DEF Shape
<1>4. UNCHANGED <<born, handles, unload>>
  BY <1>2 DEF history, env
<1> QED BY <1>2, <1>3, <1>4, SameSets DEF Shape, queues, handles, history, env

LEMMA DelayedChangesShape ==
  ASSUME Shape, delayed' \in Seq(DelayedIn), delayedPending' \in Seq(DelayedIn),
         UNCHANGED <<handles, env, born>>, DrainFacts, cancelled' \subseteq Known
  PROVE  Shape'
<1>1. UNCHANGED <<born, handles, unload, transitioning>>
  BY DEF env
<1> QED BY <1>1, SameSets DEF Shape, DrainFacts, handles

LEMMA ControlShape ==
  ASSUME Shape, BothRevised, cancelled' \subseteq Known
  PROVE  Shape'
<1>1. delayed' \in Seq(DelayedIn) /\ delayedPending' \in Seq(DelayedIn)
  BY DEF BothRevised, Revised
<1>2. UNCHANGED <<simple, simplePending, pendingNotify, handles, executing, stack, env, born, ran>>
  BY DEF BothRevised, RestOfControl
<1>3. DrainFacts
  BY <1>2 DEF DrainFacts, Shape
<1> QED BY <1>1, <1>2, <1>3, DelayedChangesShape

LEMMA DrainStepShape ==
  ASSUME Shape, Nesting, Distinct, SimpleStep \/ ReadyStep \/ IdleStep
  PROVE  Shape'
<1>1. DrainFacts
  BY SimpleStepKeeps, ReadyStepKeeps, IdleStepKeeps
<1>2. delayed' \in Seq(DelayedIn)
  <2>1. CASE TakeReady
    BY <2>1, TakeReadyRevises DEF Revised
  <2>2. CASE RetireReady
    BY <2>2, RetireDescends
  <2>3. CASE ~TakeReady /\ ~RetireReady
    BY <2>3, IdleUnchanged
       DEF SimpleStep, ReadyStep, TakeSimple, SkipSimple, DeferSimple, CallSimple, SimpleReturns,
           PutBackDeferred, SkipReady, CallReady, ReadyReturns, queues, Shape
  <2> QED BY <2>1, <2>2, <2>3
<1>3. UNCHANGED <<delayedPending, handles, env, born, cancelled>>
  BY IdleUnchanged
     DEF SimpleStep, ReadyStep, TakeSimple, SkipSimple, DeferSimple, CallSimple, SimpleReturns,
         PutBackDeferred, TakeReady, RetireReady, SkipReady, CallReady, ReadyReturns, queues, history
<1>4. delayedPending' \in Seq(DelayedIn) /\ cancelled' \subseteq Known
  BY <1>3 DEF Shape
<1> QED BY <1>1, <1>2, <1>3, <1>4, DelayedChangesShape

LEMMA MergeShape ==
  ASSUME Shape, MergePending
  PROVE  Shape'
<1>1. stack # <<>> /\ Top.method \in Methods
  BY AtTop DEF MergePending
<1>2. /\ simple' = [simple EXCEPT ![Top.method] = simple[Top.method] \o simplePending[Top.method]]
      /\ simplePending' = [simplePending EXCEPT ![Top.method] = <<>>]
      /\ delayed' = delayed \o delayedPending /\ delayedPending' = <<>>
      /\ stack' = SubSeq(stack, 1, Len(stack) - 1)
      /\ UNCHANGED <<pendingNotify, handles, depth, executing, env, history>>
  BY DEF MergePending, Front
<1>3. /\ simple \in [Methods -> Seq(SimpleIn(Present))] /\ <<>> \in Seq(SimpleIn(Present))
      /\ simplePending \in [Methods -> Seq(SimpleIn(Present))]
  BY DEF Shape
<1>4. simple[Top.method] \o simplePending[Top.method] \in Seq(SimpleIn(Present))
  BY <1>1, <1>3, SeqJoin
<1>5. simple' \in [Methods -> Seq(SimpleIn(Present))] /\ simplePending' \in [Methods -> Seq(SimpleIn(Present))]
  BY <1>2, <1>3, <1>4
<1>6. delayed' \in Seq(DelayedIn) /\ delayedPending' \in Seq(DelayedIn)
  BY <1>2, SeqJoin DEF Shape
<1>7. stack' \in Seq(DrainsIn)
  <2>1. stack \in Seq(DrainsIn)
    BY DEF Shape
  <2>2. \A S : \A s \in Seq(S) : s # <<>> => SubSeq(s, 1, Len(s) - 1) \in Seq(S)
    OBVIOUS
  <2> QED BY <1>1, <1>2, <2>1, <2>2
<1>8. DrainFacts /\ UNCHANGED <<handles, env, born>> /\ cancelled' \subseteq Known
  BY <1>2, <1>5, <1>7 DEF DrainFacts, history, Shape
<1> QED BY <1>6, <1>8, DelayedChangesShape

LEMMA CreationShape ==
  ASSUME Shape, Bounded, CreationFacts
  PROVE  Shape'
<1>1. PICK m \in Present, k \in {"once", "loop"} : born' = Append(born, [mod |-> m, kind |-> k])
  BY DEF CreationFacts
<1>2. born \in Seq([mod : Mods, kind : Kinds]) /\ [mod |-> m, kind |-> k] \in [mod : Mods, kind : Kinds]
  BY DEF Shape, Present, Kinds
<1>3. born' \in Seq([mod : Mods, kind : Kinds]) /\ Len(born') = Len(born) + 1 /\ Len(born) \in Nat
  BY <1>1, <1>2
<1>4. Known \subseteq Known' /\ NewId \in Known'
  BY <1>3 DEF Known, NewId
<1>5. /\ nextHandle' \in 1..(MaxHandles + 1) /\ stray' \subseteq 1..MaxHandles
      /\ making' \in [Mods -> 0..MaxHandles] /\ pendingNotify' \in BOOLEAN
  BY DEF CreationFacts, Shape
<1>6. Named \subseteq Named'
  BY DEF CreationFacts
<1>7. UNCHANGED <<simple, simplePending, executing, stack, transitioning, unload, ran, cancelled>>
  BY DEF CreationFacts, env
<1>8. /\ \A s : s \in Seq(SimpleIn(Present)) => s \in Seq(SimpleIn(Present)')
      /\ \A s : s \in Seq(DelayedIn) => s \in Seq(DelayedIn')
      /\ stack' \in Seq(DrainsIn')
  BY <1>4, <1>6, <1>7, ShapeGrows
<1>9. /\ simple' \in [Methods -> Seq(SimpleIn(Present)')]
      /\ simplePending' \in [Methods -> Seq(SimpleIn(Present)')]
  BY <1>7, <1>8 DEF Shape
<1>10. delayed' \in Seq(DelayedIn') /\ delayedPending' \in Seq(DelayedIn')
  <2>1. PICK a \in DelayedAction :
          /\ a.id = NewId /\ a.mod \in Present /\ a.handle \in Named'
          /\ \/ delayed' = Append(delayed, a) /\ UNCHANGED delayedPending
             \/ delayedPending' = Append(delayedPending, a) /\ UNCHANGED delayed
    BY DEF CreationFacts, DelayedGains
  <2>2. Present' = Present
    BY <1>7 DEF Present, Gone
  <2>3. a \in DelayedIn'
    BY <1>4, <2>1, <2>2 DEF DelayedIn
  <2>4. delayed \in Seq(DelayedIn') /\ delayedPending \in Seq(DelayedIn')
    BY <1>8 DEF Shape
  <2>5. \A S : \A s \in Seq(S) : \A b \in S : Append(s, b) \in Seq(S)
    OBVIOUS
  <2> QED BY <2>1, <2>3, <2>4, <2>5
<1>11. ran' \subseteq Known' /\ cancelled' \subseteq Known'
  BY <1>4, <1>7 DEF Shape
<1> QED BY <1>3, <1>5, <1>7, <1>8, <1>9, <1>10, <1>11 DEF Shape

LEMMA QueueShape ==
  ASSUME Shape, Bounded, NEW m \in Mods, NEW q \in Methods, ExecuteInGameThread(m, q)
  PROVE  Shape'
<1> DEFINE a == [id |-> NewId, mod |-> m]
<1>1. /\ \/ /\ simple' = [simple EXCEPT ![q] = Append(simple[q], a)]
            /\ simplePending' = [simplePending EXCEPT ![q] = simplePending[q]]
         \/ /\ simple' = [simple EXCEPT ![q] = simple[q]]
            /\ simplePending' = [simplePending EXCEPT ![q] = Append(simplePending[q], a)]
      /\ born' = Append(born, [mod |-> m, kind |-> "simple"])
      /\ UNCHANGED <<delayed, delayedPending, pendingNotify, handles, executing, stack,
                     transitioning, unload, ran, cancelled>>
      /\ m \in Present
  BY DEF ExecuteInGameThread, MayCall, Enqueue, env, Present
<1>2. born \in Seq([mod : Mods, kind : Kinds]) /\ [mod |-> m, kind |-> "simple"] \in [mod : Mods, kind : Kinds]
  BY DEF Shape, Kinds
<1>3. born' \in Seq([mod : Mods, kind : Kinds]) /\ Len(born') = Len(born) + 1 /\ Len(born) \in Nat
  BY <1>1, <1>2
<1>4. Known \subseteq Known' /\ NewId \in Known'
  BY <1>3 DEF Known, NewId
<1>5. Named' = Named /\ Present' = Present
  BY <1>1 DEF Named, handles, Present, Gone
<1>6. /\ \A s : s \in Seq(SimpleIn(Present)) => s \in Seq(SimpleIn(Present)')
      /\ \A s : s \in Seq(DelayedIn) => s \in Seq(DelayedIn')
      /\ stack' \in Seq(DrainsIn')
  BY <1>1, <1>4, <1>5, ShapeGrows
<1>7. a \in SimpleIn(Present)'
  BY <1>1, <1>4, <1>5 DEF SimpleIn
<1>8. /\ simple \in [Methods -> Seq(SimpleIn(Present)')]
      /\ simplePending \in [Methods -> Seq(SimpleIn(Present)')]
  BY <1>6 DEF Shape
<1>9. \A S : \A s \in Seq(S) : \A b \in S : Append(s, b) \in Seq(S)
  OBVIOUS
<1> HIDE DEF a
<1>10. /\ Append(simple[q], a) \in Seq(SimpleIn(Present)')
       /\ Append(simplePending[q], a) \in Seq(SimpleIn(Present)')
  BY <1>7, <1>8, <1>9
<1>11. /\ simple' \in [Methods -> Seq(SimpleIn(Present)')]
       /\ simplePending' \in [Methods -> Seq(SimpleIn(Present)')]
  BY <1>1, <1>8, <1>10
<1>12. delayed' \in Seq(DelayedIn') /\ delayedPending' \in Seq(DelayedIn')
  BY <1>1, <1>6 DEF Shape
<1>13. ran' \subseteq Known' /\ cancelled' \subseteq Known'
  BY <1>1, <1>4 DEF Shape
<1> QED BY <1>1, <1>3, <1>6, <1>11, <1>12, <1>13 DEF Shape, handles

LEMMA HandleShape ==
  ASSUME Shape, NEW m \in Mods, MakeActionHandle(m)
  PROVE  Shape' /\ stray \subseteq stray'
<1>1. /\ nextHandle \in 1..(MaxHandles + 1) /\ making \in [Mods -> 0..MaxHandles]
      /\ stray \subseteq 1..MaxHandles /\ MaxHandles \in Nat
  BY BoundsAssumption DEF Shape
<1>2. UNCHANGED <<simple, simplePending, delayed, delayedPending, pendingNotify, executing, stack,
                  transitioning, unload, born, ran, cancelled>>
  BY DEF MakeActionHandle, ReadCounter, WriteCounter, queues, env, history
<1>3. /\ nextHandle' \in 1..(MaxHandles + 1) /\ making' \in [Mods -> 0..MaxHandles]
      /\ stray' \subseteq 1..MaxHandles /\ stray \subseteq stray' /\ Named \subseteq Named'
  <2>1. CASE ReadCounter(m)
    <3>1. nextHandle \in 0..MaxHandles /\ making' = [making EXCEPT ![m] = nextHandle]
          /\ UNCHANGED <<nextHandle, stray>>
      BY <1>1, <2>1 DEF ReadCounter
    <3> QED BY <1>1, <3>1 DEF Named
  <2>2. CASE WriteCounter(m)
    <3>1. /\ making[m] \in 1..MaxHandles /\ nextHandle' = making[m] + 1
          /\ stray' = stray \cup (nextHandle' .. (nextHandle - 1))
          /\ making' = [making EXCEPT ![m] = 0]
      BY <1>1, <2>2 DEF WriteCounter
    <3>2. nextHandle' \in 2..(MaxHandles + 1) /\ making' \in [Mods -> 0..MaxHandles]
      BY <1>1, <3>1
    <3>3. \A a, b \in Int : 1..(a - 1) \subseteq (1..(b - 1)) \cup (b .. (a - 1))
      OBVIOUS
    <3>4. \A a, b \in Int : a <= MaxHandles + 1 /\ b >= 2 => b .. (a - 1) \subseteq 1..MaxHandles
      BY <1>1
    <3>5. /\ 1..(nextHandle - 1) \subseteq (1..(nextHandle' - 1)) \cup (nextHandle' .. (nextHandle - 1))
          /\ nextHandle' .. (nextHandle - 1) \subseteq 1..MaxHandles
      <4>1. /\ nextHandle \in Int /\ nextHandle' \in Int
            /\ nextHandle <= MaxHandles + 1 /\ nextHandle' >= 2
        BY <1>1, <3>2
      <4> QED BY <3>3, <3>4, <4>1, Zenon
    <3>6. nextHandle' \in 1..(MaxHandles + 1)
      BY <1>1, <3>2
    <3> QED BY <1>1, <3>1, <3>2, <3>5, <3>6 DEF Named
  <2> QED BY <2>1, <2>2 DEF MakeActionHandle
<1>4. Known' = Known /\ Present' = Present
  BY <1>2 DEF Known, Present, Gone
<1>5. /\ \A s : s \in Seq(SimpleIn(Present)) => s \in Seq(SimpleIn(Present)')
      /\ \A s : s \in Seq(DelayedIn) => s \in Seq(DelayedIn')
      /\ stack' \in Seq(DrainsIn')
  BY <1>2, <1>3, <1>4, ShapeGrows
<1>6. /\ simple' \in [Methods -> Seq(SimpleIn(Present)')]
      /\ simplePending' \in [Methods -> Seq(SimpleIn(Present)')]
  BY <1>2, <1>5 DEF Shape
<1> QED BY <1>2, <1>3, <1>4, <1>5, <1>6 DEF Shape

(* Another thread leaves a notification.                                    *)
LEMMA ConstructShape ==
  ASSUME Shape, ConstructElsewhere
  PROVE  Shape'
<1>1. /\ pendingNotify' = TRUE
      /\ UNCHANGED <<simple, simplePending, delayed, delayedPending, handles, executing, stack,
                     transitioning, unload, born, ran, cancelled>>
  BY DEF ConstructElsewhere, env, history
<1> QED BY <1>1, SameSets DEF Shape, handles

LEMMA BeginShape ==
  ASSUME Shape, NEW m \in Mods, BeginUnload(m)
  PROVE  Shape'
<1>1. /\ transitioning' = TRUE /\ unload' = [unload EXCEPT ![m] = "waiting"] /\ unload[m] = "loaded"
      /\ UNCHANGED <<simple, simplePending, delayed, delayedPending, pendingNotify, handles, executing,
                     stack, born, ran, cancelled>>
  BY DEF BeginUnload, queues, history
<1>2. /\ unload' \in [Mods -> {"loaded", "waiting", "erasing", "gone"}]
      /\ Present' = Present /\ Undrained' = Undrained
  BY <1>1 DEF Shape, Present, Undrained, Gone
<1>3. Known' = Known /\ Named' = Named
  BY <1>1 DEF Known, Named, handles
<1>4. SimpleIn(Present)' = SimpleIn(Present) /\ DelayedIn' = DelayedIn /\ DrainsIn' = DrainsIn
  BY <1>2, <1>3 DEF SimpleIn, ReadyIn, DelayedIn, DrainsIn
<1> QED BY <1>1, <1>2, <1>3, <1>4 DEF Shape, handles

LEMMA EndShape ==
  ASSUME Shape, EndUnload
  PROVE  Shape'
<1>1. /\ transitioning' = FALSE /\ \A m \in Mods : unload[m] \in {"loaded", "gone"}
      /\ UNCHANGED <<simple, simplePending, delayed, delayedPending, pendingNotify, handles, executing,
                     stack, unload, born, ran, cancelled>>
  BY DEF EndUnload, queues, history
<1> QED BY <1>1, SameSets DEF Shape, handles

(* Once the drains have settled one at most is left, which is merging.      *)
LEMMA SettledStack ==
  ASSUME Shape, Nesting, depth = 0
  PROVE  \A k \in DOMAIN stack : stack[k].pc = "merge"
<1>1. Len(stack) \in Nat /\ DOMAIN stack = 1..Len(stack)
  BY SeqParts DEF Shape
<1>2. CASE At("merge")
  <2>1. Len(stack) = 1 /\ stack[1].pc = "merge"
    BY <1>1, <1>2 DEF Nesting, At, Top, Last
  <2> QED BY <1>1, <2>1
<1>3. CASE ~At("merge")
  BY <1>1, <1>3 DEF Nesting
<1> QED BY <1>2, <1>3

(* Once the drains have settled none holds anything.                        *)
LEMMA SettledShape ==
  ASSUME Shape, Nesting, NEW m \in Mods, DrainsSettled(m)
  PROVE  Shape'
<1>1. /\ depth = 0 /\ unload[m] = "waiting" /\ unload' = [unload EXCEPT ![m] = "erasing"]
      /\ UNCHANGED <<simple, simplePending, delayed, delayedPending, pendingNotify, handles, executing,
                     stack, transitioning, born, ran, cancelled>>
  BY DEF DrainsSettled, queues, history
<1>2. unload' \in [Mods -> {"loaded", "waiting", "erasing", "gone"}] /\ Present' = Present /\ transitioning
  BY <1>1 DEF Shape, Present, Gone
<1>3. Known' = Known /\ Named' = Named
  BY <1>1 DEF Known, Named, handles
<1>4. SimpleIn(Present)' = SimpleIn(Present) /\ DelayedIn' = DelayedIn
  BY <1>2, <1>3 DEF SimpleIn, DelayedIn
<1>5. /\ Len(stack) \in Nat /\ DOMAIN stack = 1..Len(stack)
      /\ \A k \in DOMAIN stack : stack[k] \in DrainsIn
  BY SeqParts DEF Shape
<1>6. \A k \in DOMAIN stack : stack[k].pc = "merge"
  BY <1>1, SettledStack
<1>7. \A d \in DrainsIn : d.pc = "merge" => d \in DrainsIn'
  <2> SUFFICES ASSUME NEW d \in DrainsIn, d.pc = "merge" PROVE d \in DrainsIn'
    OBVIOUS
  <2>1. d.todo = <<>> /\ d.deferred = <<>> /\ d.ready = <<>>
    BY DEF DrainsIn, RunsSimple, RunsDelayed
  <2>2. \A S : <<>> \in Seq(S)
    OBVIOUS
  <2>3. d \in [method : Methods, pc : DrainPC, todo : {<<>>}, deferred : {<<>>}, ready : {<<>>}]
    BY <2>1 DEF DrainsIn
  <2> HIDE DEF DrainPC, Methods
  <2>4. d \in [method : Methods, pc : DrainPC, todo : Seq(SimpleIn(Undrained)' \cup ReadyIn'),
               deferred : Seq(SimpleIn(Undrained)'), ready : Seq(ReadyIn')]
    BY <2>2, <2>3
  <2> QED BY <2>1, <2>4 DEF DrainsIn, RunsSimple, RunsDelayed, Calling
<1>8. stack' \in Seq(DrainsIn')
  <2>1. stack \in Seq(DrainsIn)
    BY DEF Shape
  <2>2. \A S, T : \A s \in Seq(S) : (\A k \in DOMAIN s : s[k] \in T) => s \in Seq(T)
    OBVIOUS
  <2>3. \A k \in DOMAIN stack : stack[k] \in DrainsIn'
    BY <1>5, <1>6, <1>7
  <2> QED BY <1>1, <2>1, <2>2, <2>3
<1> QED BY <1>1, <1>2, <1>3, <1>4, <1>8 DEF Shape, handles

LEMMA EraseShape ==
  ASSUME Shape, NEW m \in Mods, EraseActions(m)
  PROVE  Shape'
<1>1. /\ unload[m] = "erasing" /\ unload' = [unload EXCEPT ![m] = "gone"]
      /\ simple' = [q \in Methods |-> Without(simple[q], m)]
      /\ simplePending' = [q \in Methods |-> Without(simplePending[q], m)]
      /\ delayed' = Without(delayed, m) /\ delayedPending' = Without(delayedPending, m)
      /\ pendingNotify' = FALSE
      /\ UNCHANGED <<handles, executing, stack, transitioning, born, ran, cancelled>>
  BY DEF EraseActions, history
<1>2. /\ unload' \in [Mods -> {"loaded", "waiting", "erasing", "gone"}] /\ transitioning
      /\ Present' = Present \ {m} /\ Undrained' = Undrained
  BY <1>1 DEF Shape, Present, Undrained, Gone
<1>3. Known' = Known /\ Named' = Named
  BY <1>1 DEF Known, Named, handles
<1>4. DrainsIn' = DrainsIn
  BY <1>2, <1>3 DEF SimpleIn, ReadyIn, DrainsIn
<1>5. \A S, T : \A s \in Seq(S) : (\A k \in DOMAIN s : s[k] \in T) => s \in Seq(T)
  OBVIOUS
<1>6. \A s \in Seq(SimpleIn(Present)) : Without(s, m) \in Seq(SimpleIn(Present)')
  <2> SUFFICES ASSUME NEW s \in Seq(SimpleIn(Present)) PROVE Without(s, m) \in Seq(SimpleIn(Present)')
    OBVIOUS
  <2> DEFINE keep == {i \in DOMAIN s : s[i].mod # m}
             w == Kept(s, keep)
  <2>1. /\ w \in Seq(SimpleIn(Present)) /\ InOrder(keep) \in [DOMAIN w -> keep]
        /\ \A k \in DOMAIN w : w[k] = s[InOrder(keep)[k]]
    BY KeptFacts
  <2>2. \A k \in DOMAIN w : w[k] \in SimpleIn(Present) /\ w[k].mod # m
    BY <2>1, SeqParts
  <2>3. Without(s, m) = w
    BY DEF Without
  <2> HIDE DEF w
  <2>4. \A k \in DOMAIN w : w[k] \in SimpleIn(Present)'
    BY <1>2, <1>3, <2>2 DEF SimpleIn
  <2> QED BY <1>5, <2>1, <2>3, <2>4
<1>7. \A s \in Seq(DelayedIn) : Without(s, m) \in Seq(DelayedIn')
  <2> SUFFICES ASSUME NEW s \in Seq(DelayedIn) PROVE Without(s, m) \in Seq(DelayedIn')
    OBVIOUS
  <2> DEFINE w == Without(s, m)
  <2>1. w \in Seq(DelayedIn) /\ \A k \in DOMAIN w : w[k].mod # m
    BY EraseDescends
  <2> HIDE DEF w
  <2>2. \A k \in DOMAIN w : w[k] \in DelayedIn
    BY <2>1
  <2>3. \A k \in DOMAIN w : w[k] \in DelayedIn'
    BY <1>2, <1>3, <2>1, <2>2 DEF DelayedIn
  <2>4. w \in Seq(DelayedIn')
    BY <1>5, <2>1, <2>3
  <2> QED BY <2>4 DEF w
<1>8. /\ simple' \in [Methods -> Seq(SimpleIn(Present)')]
      /\ simplePending' \in [Methods -> Seq(SimpleIn(Present)')]
  BY <1>1, <1>6 DEF Shape
<1>9. delayed' \in Seq(DelayedIn') /\ delayedPending' \in Seq(DelayedIn')
  BY <1>1, <1>7 DEF Shape
<1> QED BY <1>1, <1>2, <1>3, <1>4, <1>8, <1>9 DEF Shape, handles

(* What a step cancels was created.                                         *)
LEMMA CancelledKnown ==
  ASSUME Shape, NEW m \in Mods, NEW h,
         CancelDelayedAction(m, h) \/ ClearAllDelayedActions(m)
  PROVE  cancelled' \subseteq Known
<1>1. \A s \in Seq(DelayedIn) : \A t : RemovedIn(s, t) \subseteq Known
  BY SeqParts DEF RemovedIn, DelayedIn
<1>2. cancelled \subseteq Known /\ delayed \in Seq(DelayedIn) /\ delayedPending \in Seq(DelayedIn)
  BY DEF Shape
<1>3. cancelled' = cancelled \cup RemovedIn(delayed, delayed') \cup RemovedIn(delayedPending, delayedPending')
  BY DEF CancelDelayedAction, ClearAllDelayedActions, RemovedNow
<1> QED BY <1>1, <1>2, <1>3

(* The steps of Next, by what they do to the delayed actions.               *)
RevisingStep ==
  BothRevised /\ cancelled' \subseteq Known
GainingStep == CreationFacts
OtherStep ==
  \/ \E q \in Methods : EnterDrain(q)
  \/ SimpleStep \/ ReadyStep \/ IdleStep \/ MergePending \/ ConstructElsewhere \/ UnloadStep
  \/ \E m \in Mods : MakeActionHandle(m) \/ \E q \in Methods : ExecuteInGameThread(m, q)

LEMMA NextIs ==
  ASSUME Shape, Bounded, Next
  PROVE  RevisingStep \/ GainingStep \/ OtherStep
<1>0. cancelled \subseteq Known
  BY DEF Shape
<1>1. CASE Tick
  BY <1>0, <1>1, TickRevises DEF RevisingStep
<1>2. ASSUME NEW m \in Mods, CreateCall(m)
      PROVE  RevisingStep \/ GainingStep
  <2>1. ASSUME NEW frames \in BOOLEAN, NEW looping \in BOOLEAN, NEW d \in Delays,
               Create(m, frames, looping, d)
        PROVE  GainingStep
    BY <2>1, CreateMakes DEF GainingStep
  <2>2. ASSUME NEW h \in Passed, NEW d \in Delays, ExecuteWithHandle(m, h, d)
        PROVE  GainingStep
    BY <2>2, ExecuteWithHandleMakes DEF GainingStep
  <2>3. ASSUME NEW h \in Passed, NEW d \in Delays, RetriggerExisting(m, h, d)
        PROVE  RevisingStep
    <3>1. cancelled' = cancelled
      BY <2>3 DEF RetriggerExisting
    <3> QED BY <1>0, <2>3, <3>1, ControlRevisesOne, OneRevisedRevisesBoth DEF RevisingStep
  <2> QED BY <1>2, <2>1, <2>2, <2>3 DEF CreateCall
<1>3. ASSUME NEW m \in Mods, ControlCall(m)
      PROVE  RevisingStep
  <2>1. CASE ClearAllDelayedActions(m)
    BY <2>1, ClearRevises, CancelledKnown DEF RevisingStep
  <2>2. ASSUME NEW h \in Passed, CancelDelayedAction(m, h)
        PROVE  RevisingStep
    BY <2>2, CancelledKnown, ControlRevisesOne, OneRevisedRevisesBoth DEF RevisingStep
  <2>3. ASSUME NEW h \in Passed,
               \/ ResetDelayedActionTimer(m, h) \/ PauseDelayedAction(m, h)
               \/ UnpauseDelayedAction(m, h) \/ \E d \in Delays : SetDelayedActionTimer(m, h, d)
        PROVE  RevisingStep
    <3>1. cancelled' = cancelled
      BY <2>3 DEF ResetDelayedActionTimer, PauseDelayedAction, UnpauseDelayedAction, SetDelayedActionTimer
    <3>2. OneRevised
      BY <2>3, ControlRevisesOne
    <3> QED BY <1>0, <3>1, <3>2, OneRevisedRevisesBoth DEF RevisingStep
  <2> QED BY <1>3, <2>1, <2>2, <2>3 DEF ControlCall
<1> QED BY <1>1, <1>2, <1>3
       DEF Next, DrainStep, ActionReturns, SimpleStep, ReadyStep, IdleStep, QueueCall, OtherStep

LEMMA ShapeStep ==
  ASSUME Shape, Bounded, Nesting, Distinct, [Next]_vars
  PROVE  Shape'
<1>1. CASE UNCHANGED vars
  <2>1. UNCHANGED <<simple, simplePending, delayed, delayedPending, pendingNotify, handles, executing,
                    stack, transitioning, unload, born, ran, cancelled>>
    BY <1>1 DEF vars, queues, env, history
  <2> QED BY <2>1, SameSets DEF Shape, handles
<1>2. CASE Next
  <2>1. CASE RevisingStep
    BY <2>1, ControlShape DEF RevisingStep
  <2>2. CASE GainingStep
    BY <2>2, CreationShape DEF GainingStep
  <2>3. CASE OtherStep
    <3>1. CASE UnloadStep
      BY <3>1, EndShape, BeginShape, SettledShape, EraseShape DEF UnloadStep, UnloadGoesOn
    <3>2. CASE ~UnloadStep
      BY <2>3, <3>2, EnterShape, DrainStepShape, MergeShape, QueueShape, HandleShape, ConstructShape
         DEF OtherStep
    <3> QED BY <3>1, <3>2
  <2> QED BY <1>2, <2>1, <2>2, <2>3, NextIs
<1> QED BY <1>1, <1>2

-----------------------------------------------------------------------------
(* Every step keeps the bounds on what was created.                         *)
LEMMA BoundedStep ==
  ASSUME Shape, Bounded, [Next]_vars
  PROVE  Bounded'
<1>1. born \in Seq([mod : Mods, kind : Kinds])
  BY DEF Shape
<1>2. CreatedSoFar({"simple"}) \in Nat /\ CreatedSoFar({"once", "loop"}) \in Nat
  BY <1>1, CountBorn
<1>3. CASE UNCHANGED born
  BY <1>3 DEF Bounded, CreatedSoFar
<1>4. CASE CreationFacts
  <2>1. PICK m \in Present, k \in {"once", "loop"} : born' = Append(born, [mod |-> m, kind |-> k])
    BY <1>4 DEF CreationFacts
  <2> DEFINE b == [mod |-> m, kind |-> k]
  <2>2. b \in [mod : Mods, kind : Kinds] /\ b.kind \notin {"simple"} /\ b.kind \in {"once", "loop"}
    BY DEF Present, Kinds
  <2> HIDE DEF b
  <2>3. /\ CreatedSoFar({"simple"})' = CreatedSoFar({"simple"})
        /\ CreatedSoFar({"once", "loop"})' = CreatedSoFar({"once", "loop"}) + 1
    <3>1. born' = Append(born, b)
      BY <2>1 DEF b
    <3>2. CreatedSoFar({"simple"})' = CreatedSoFar({"simple"}) + (IF b.kind \in {"simple"} THEN 1 ELSE 0)
      BY <1>1, <2>2, <3>1, OneMoreBorn
    <3>3. CreatedSoFar({"once", "loop"})'
            = CreatedSoFar({"once", "loop"}) + (IF b.kind \in {"once", "loop"} THEN 1 ELSE 0)
      BY <1>1, <2>2, <3>1, OneMoreBorn
    <3> QED BY <1>2, <2>2, <3>2, <3>3
  <2>4. CreatedSoFar({"once", "loop"}) < MaxDelayed
    BY <1>4 DEF CreationFacts
  <2> QED BY <1>2, <2>3, <2>4, BoundsAssumption DEF Bounded
<1>5. ASSUME NEW m \in Mods, NEW q \in Methods, ExecuteInGameThread(m, q)
      PROVE  Bounded'
  <2> DEFINE b == [mod |-> m, kind |-> "simple"]
  <2>1. /\ b \in [mod : Mods, kind : Kinds] /\ b.kind \in {"simple"} /\ b.kind \notin {"once", "loop"}
    BY DEF Kinds
  <2>2. born' = Append(born, b) /\ CreatedSoFar({"simple"}) < MaxSimple
    BY <1>5 DEF ExecuteInGameThread
  <2> HIDE DEF b
  <2>3. CreatedSoFar({"simple"})' = CreatedSoFar({"simple"}) + (IF b.kind \in {"simple"} THEN 1 ELSE 0)
    BY <1>1, <2>1, <2>2, OneMoreBorn
  <2>4. CreatedSoFar({"once", "loop"})'
          = CreatedSoFar({"once", "loop"}) + (IF b.kind \in {"once", "loop"} THEN 1 ELSE 0)
    BY <1>1, <2>1, <2>2, OneMoreBorn
  <2> QED BY <1>2, <2>1, <2>2, <2>3, <2>4, BoundsAssumption DEF Bounded
<1>6. CASE UNCHANGED vars
  BY <1>3, <1>6 DEF vars, history
<1>7. CASE Next
  <2>1. CASE RevisingStep
    BY <1>3, <2>1 DEF RevisingStep, BothRevised, RestOfControl
  <2>2. CASE OtherStep
    BY <1>3, <1>5, <2>2, IdleUnchanged
       DEF OtherStep, EnterDrain, SimpleStep, ReadyStep, MergePending, MakeActionHandle, ReadCounter,
       WriteCounter, ConstructElsewhere, UnloadStep, UnloadGoesOn, TakeSimple, SkipSimple, DeferSimple, CallSimple, SimpleReturns, PutBackDeferred,
       TakeReady, SkipReady, CallReady, ReadyReturns, RetireReady, EndUnload, BeginUnload,
       DrainsSettled, EraseActions, history
  <2> QED BY <1>4, <1>7, <2>1, <2>2, NextIs DEF GainingStep
<1> QED BY <1>6, <1>7

-----------------------------------------------------------------------------
(* Every step keeps the nesting.                                            *)
LEMMA TopNow ==
  ASSUME Shape, stack # <<>>, NEW d, SetTop(d)
  PROVE  /\ Len(stack) \in Nat \ {0} /\ Len(stack') = Len(stack) /\ stack' # <<>>
         /\ DOMAIN stack = 1..Len(stack) /\ DOMAIN stack' = 1..Len(stack)
         /\ stack'[Len(stack)] = d /\ Top' = d /\ Top = stack[Len(stack)]
         /\ \A k \in 1..Len(stack) : k # Len(stack) => stack'[k] = stack[k]
<1>1. stack \in Seq(DrainsIn)
  BY DEF Shape
<1>2. Len(stack) \in Nat \ {0} /\ DOMAIN stack = 1..Len(stack)
  BY <1>1, SeqParts
<1>3. stack' = [stack EXCEPT ![Len(stack)] = d]
  BY DEF SetTop
<1>4. DOMAIN stack' = 1..Len(stack) /\ Len(stack') = Len(stack)
  BY <1>1, <1>2, <1>3
<1>5. stack' # <<>>
  BY <1>2, <1>4
<1>7. Len(stack) \in DOMAIN stack
  BY <1>2
<1> HIDE DEF SetTop
<1>6. stack'[Len(stack)] = d /\ \A k \in 1..Len(stack) : k # Len(stack) => stack'[k] = stack[k]
  BY <1>2, <1>3, <1>7, Zenon
<1> QED BY <1>2, <1>4, <1>5, <1>6 DEF Top, Last

(* The innermost drain goes on, and neither starts nor ends an action.      *)
LEMMA NestingGoesOn ==
  ASSUME Shape, Nesting, stack # <<>>, NEW d, SetTop(d), Top.pc # "merge",
         ~Calling(Top), ~Calling(d), UNCHANGED <<executing, unload>>,
         depth' = IF d.pc = "merge" THEN depth - 1 ELSE depth,
         executing => d.ready = <<>>, d.pc \in Takes => ~transitioning,
         IF d.pc = "inNotify" THEN pendingNotify /\ ~pendingNotify' ELSE pendingNotify' => pendingNotify
  PROVE  Nesting'
<1> DEFINE n == Len(stack)
<1>1. /\ n \in Nat \ {0} /\ Len(stack') = n /\ stack' # <<>>
      /\ DOMAIN stack = 1..n /\ DOMAIN stack' = 1..n
      /\ stack'[n] = d /\ Top' = d /\ Top = stack[n]
      /\ \A k \in 1..n : k # n => stack'[k] = stack[k]
  BY TopNow
<1> HIDE DEF n
<1>2. ~At("merge") /\ (At("merge")' <=> d.pc = "merge")
  BY <1>1 DEF At
<1>3. Len(stack') <= MaxNesting /\ depth' = IF At("merge")' THEN Len(stack') - 1 ELSE Len(stack')
  BY <1>1, <1>2 DEF Nesting, n
<1>4. \A k \in DOMAIN stack' : k # Len(stack') => Calling(stack'[k]) \/ stack'[k].pc = "inNotify"
  BY <1>1 DEF Nesting, n
<1>5. executing' => \E k \in DOMAIN stack' : Calling(stack'[k])
  BY <1>1 DEF Nesting
<1>6. ASSUME NEW k \in DOMAIN stack', Calling(stack'[k])
      PROVE  executing' /\ \A i \in DOMAIN stack' : i > k => ~Calling(stack'[i]) /\ stack'[i].ready = <<>>
  <2>1. k # n /\ stack'[k] = stack[k] /\ k \in DOMAIN stack
    BY <1>1, <1>6
  <2>2. executing /\ \A i \in DOMAIN stack : i > k => ~Calling(stack[i]) /\ stack[i].ready = <<>>
    BY <1>6, <2>1 DEF Nesting
  <2> QED BY <1>1, <2>2
<1>7. ASSUME NEW k \in DOMAIN stack', stack'[k].pc = "inNotify"
      PROVE  ~pendingNotify' /\ \A i \in DOMAIN stack' : stack'[i].pc = "inNotify" => i = k
  <2>1. \A i \in DOMAIN stack : stack[i].pc = "inNotify" =>
          ~pendingNotify /\ \A h \in DOMAIN stack : stack[h].pc = "inNotify" => h = i
    BY DEF Nesting
  <2>2. CASE d.pc = "inNotify"
    <3>1. \A i \in DOMAIN stack' : i # n => stack'[i].pc # "inNotify"
      BY <1>1, <2>1, <2>2
    <3> QED BY <1>7, <2>2, <3>1
  <2>3. CASE d.pc # "inNotify"
    <3>1. \A i \in DOMAIN stack' : stack'[i].pc = "inNotify" => i \in DOMAIN stack /\ stack[i].pc = "inNotify"
      BY <1>1, <2>3
    <3> QED BY <1>7, <2>1, <2>3, <3>1
  <2> QED BY <2>2, <2>3
<1>8. ASSUME NEW m \in Mods, unload'[m] = "erasing", NEW k \in DOMAIN stack'
      PROVE  stack'[k].pc \notin Takes
  <2>1. unload[m] = "erasing" /\ transitioning
    BY <1>8 DEF Shape
  <2>2. \A i \in DOMAIN stack : stack[i].pc \notin Takes
    BY <2>1 DEF Nesting
  <2> QED BY <1>1, <2>1, <2>2
<1> QED BY <1>3, <1>4, <1>5, <1>6, <1>7, <1>8 DEF Nesting

(* It starts an action.                                                     *)
LEMMA NestingCalls ==
  ASSUME Shape, Nesting, stack # <<>>, NEW d, SetTop(d), Top.pc # "merge",
         ~executing, executing' = TRUE, Calling(d), UNCHANGED <<depth, pendingNotify, unload>>
  PROVE  Nesting'
<1> DEFINE n == Len(stack)
<1>1. /\ n \in Nat \ {0} /\ Len(stack') = n /\ stack' # <<>>
      /\ DOMAIN stack = 1..n /\ DOMAIN stack' = 1..n
      /\ stack'[n] = d /\ Top' = d /\ Top = stack[n]
      /\ \A k \in 1..n : k # n => stack'[k] = stack[k]
  BY TopNow
<1> HIDE DEF n
<1>2. ~At("merge") /\ ~At("merge")' /\ d.pc # "inNotify" /\ d.pc \notin Takes
  BY <1>1 DEF At, Calling, Takes
<1>3. Len(stack') <= MaxNesting /\ depth' = IF At("merge")' THEN Len(stack') - 1 ELSE Len(stack')
  BY <1>1, <1>2 DEF Nesting, n
<1>4. \A k \in DOMAIN stack' : k # Len(stack') => Calling(stack'[k]) \/ stack'[k].pc = "inNotify"
  BY <1>1 DEF Nesting, n
<1>5. \A k \in DOMAIN stack' : Calling(stack'[k]) => k = n
  BY <1>1 DEF Nesting
<1>6. \A k \in DOMAIN stack' : Calling(stack'[k]) =>
        executing' /\ \A i \in DOMAIN stack' : i > k => ~Calling(stack'[i]) /\ stack'[i].ready = <<>>
  BY <1>1, <1>5
<1>7. \A k \in DOMAIN stack' : stack'[k].pc = "inNotify" =>
        ~pendingNotify' /\ \A i \in DOMAIN stack' : stack'[i].pc = "inNotify" => i = k
  BY <1>1, <1>2 DEF Nesting
<1>8. \A m \in Mods : unload'[m] = "erasing" => \A k \in DOMAIN stack' : stack'[k].pc \notin Takes
  BY <1>1, <1>2 DEF Nesting
<1> QED BY <1>1, <1>3, <1>4, <1>6, <1>7, <1>8 DEF Nesting

(* It has called an action, which returns.                                  *)
LEMMA NestingReturns ==
  ASSUME Shape, Nesting, stack # <<>>, NEW d, SetTop(d), Calling(Top),
         executing' = FALSE, d.pc \in {"runSimple", "runDelayed"},
         UNCHANGED <<depth, pendingNotify, unload>>
  PROVE  Nesting'
<1> DEFINE n == Len(stack)
<1>1. /\ n \in Nat \ {0} /\ Len(stack') = n /\ stack' # <<>>
      /\ DOMAIN stack = 1..n /\ DOMAIN stack' = 1..n
      /\ stack'[n] = d /\ Top' = d /\ Top = stack[n]
      /\ \A k \in 1..n : k # n => stack'[k] = stack[k]
  BY TopNow
<1> HIDE DEF n
<1>2. ~At("merge") /\ ~At("merge")' /\ ~Calling(d) /\ d.pc # "inNotify" /\ d.pc \notin Takes
  BY <1>1 DEF At, Calling, Takes
<1>3. Len(stack') <= MaxNesting /\ depth' = IF At("merge")' THEN Len(stack') - 1 ELSE Len(stack')
  BY <1>1, <1>2 DEF Nesting, n
<1>4. \A k \in DOMAIN stack' : k # Len(stack') => Calling(stack'[k]) \/ stack'[k].pc = "inNotify"
  BY <1>1 DEF Nesting, n
<1>5. \A k \in DOMAIN stack : Calling(stack[k]) => k = n
  BY <1>1 DEF Nesting
<1>6. \A k \in DOMAIN stack' : ~Calling(stack'[k])
  BY <1>1, <1>2, <1>5
<1>7. \A k \in DOMAIN stack' : stack'[k].pc = "inNotify" =>
        ~pendingNotify' /\ \A i \in DOMAIN stack' : stack'[i].pc = "inNotify" => i = k
  BY <1>1, <1>2 DEF Nesting
<1>8. \A m \in Mods : unload'[m] = "erasing" => \A k \in DOMAIN stack' : stack'[k].pc \notin Takes
  BY <1>1, <1>2 DEF Nesting
<1> QED BY <1>3, <1>4, <1>6, <1>7, <1>8 DEF Nesting

(* The drain steps, by the lemma each of them falls under.                  *)
LEMMA SimpleStepNesting ==
  ASSUME Shape, Nesting, SimpleStep
  PROVE  Nesting'
<1>0. ASSUME NEW d, stack # <<>>, SetTop(d), Top.pc \notin {"inSimple", "inDelayed", "merge"},
             d.pc \in {"delayed", "runSimple"}, d.ready = <<>>,
             UNCHANGED <<executing, depth, pendingNotify, unload>>
      PROVE  Nesting'
  BY <1>0, NestingGoesOn DEF Calling, Takes
<1>1. CASE TakeSimple
  <2>1. stack # <<>> /\ Top \in DrainsIn /\ Top.pc = "takeSimple" /\ Top.ready = <<>>
    BY <1>1, AtTop DEF TakeSimple, RunsSimple, RunsDelayed
  <2> DEFINE d == [Top EXCEPT !.pc = "runSimple", !.todo = simple[Top.method]]
  <2>2. d.pc = "runSimple" /\ d.ready = <<>>
    BY <2>1, DrainSets
  <2>3. SetTop(d) /\ UNCHANGED <<executing, depth, pendingNotify, unload>>
    BY <1>1 DEF TakeSimple, env
  <2> HIDE DEF d
  <2> QED BY <1>0, <2>1, <2>2, <2>3
<1>2. CASE SkipSimple
  <2>1. stack # <<>> /\ Top \in DrainsIn /\ Top.pc = "runSimple" /\ Top.ready = <<>>
    BY <1>2, AtTop DEF SkipSimple, RunsSimple, RunsDelayed
  <2> DEFINE d == [Top EXCEPT !.todo = Tail(Top.todo)]
  <2>2. d.pc = "runSimple" /\ d.ready = <<>>
    BY <2>1, DrainSets
  <2>3. SetTop(d) /\ UNCHANGED <<executing, depth, pendingNotify, unload>>
    BY <1>2 DEF SkipSimple, env, queues
  <2> HIDE DEF d
  <2> QED BY <1>0, <2>1, <2>2, <2>3
<1>3. CASE DeferSimple
  <2>1. stack # <<>> /\ Top \in DrainsIn /\ Top.pc = "runSimple" /\ Top.ready = <<>>
    BY <1>3, AtTop DEF DeferSimple, RunsSimple, RunsDelayed
  <2> DEFINE d == [Top EXCEPT !.todo = Tail(Top.todo), !.deferred = Append(Top.deferred, Head(Top.todo))]
  <2>2. d.pc = "runSimple" /\ d.ready = <<>>
    BY <2>1, DrainSets
  <2>3. SetTop(d) /\ UNCHANGED <<executing, depth, pendingNotify, unload>>
    BY <1>3 DEF DeferSimple, env, queues
  <2> HIDE DEF d
  <2> QED BY <1>0, <2>1, <2>2, <2>3
<1>4. CASE CallSimple
  <2>1. stack # <<>> /\ Top \in DrainsIn /\ Top.pc = "runSimple"
    BY <1>4, AtTop DEF CallSimple
  <2> DEFINE d == [Top EXCEPT !.pc = "inSimple"]
  <2>2. d.pc = "inSimple"
    BY <2>1, DrainSets
  <2>3. SetTop(d) /\ UNCHANGED <<depth, pendingNotify, unload>> /\ ~executing /\ executing' = TRUE
    BY <1>4 DEF CallSimple, env, queues
  <2> HIDE DEF d
  <2> QED BY <2>1, <2>2, <2>3, NestingCalls DEF Calling
<1>5. CASE SimpleReturns
  <2>1. stack # <<>> /\ Top \in DrainsIn /\ Top.pc = "inSimple"
    BY <1>5, AtTop DEF SimpleReturns
  <2> DEFINE d == [Top EXCEPT !.pc = "runSimple", !.todo = Tail(Top.todo)]
  <2>2. d.pc = "runSimple"
    BY <2>1, DrainSets
  <2>3. SetTop(d) /\ UNCHANGED <<depth, pendingNotify, unload>> /\ executing' = FALSE
    BY <1>5 DEF SimpleReturns, env, queues
  <2> HIDE DEF d
  <2> QED BY <2>1, <2>2, <2>3, NestingReturns DEF Calling
<1>6. CASE PutBackDeferred
  <2>1. stack # <<>> /\ Top \in DrainsIn /\ Top.pc = "runSimple" /\ Top.ready = <<>>
    BY <1>6, AtTop DEF PutBackDeferred, RunsSimple, RunsDelayed
  <2> DEFINE d == [Top EXCEPT !.pc = "delayed", !.deferred = <<>>]
  <2>2. d.pc = "delayed" /\ d.ready = <<>>
    BY <2>1, DrainSets
  <2>3. SetTop(d) /\ UNCHANGED <<executing, depth, pendingNotify, unload>>
    BY <1>6 DEF PutBackDeferred, env
  <2> HIDE DEF d
  <2> QED BY <1>0, <2>1, <2>2, <2>3
<1> QED BY <1>1, <1>2, <1>3, <1>4, <1>5, <1>6 DEF SimpleStep

LEMMA ReadyStepNesting ==
  ASSUME Shape, Nesting, ReadyStep
  PROVE  Nesting'
<1>0. ASSUME NEW d, stack # <<>>, SetTop(d), Top.pc \notin {"inSimple", "inDelayed", "merge"},
             d.pc \in {"notify", "runDelayed"}, executing => d.ready = <<>>,
             UNCHANGED <<executing, depth, pendingNotify, unload>>
      PROVE  Nesting'
  BY <1>0, NestingGoesOn DEF Calling, Takes
<1>1. CASE TakeReady
  <2>1. stack # <<>> /\ Top \in DrainsIn /\ Top.pc = "takeReady" /\ Top.ready = <<>>
    BY <1>1, AtTop DEF TakeReady, RunsSimple, RunsDelayed
  <2> DEFINE due == {i \in DOMAIN delayed : IsDue(delayed[i], Top.method)}
             ready == [k \in DOMAIN InOrder(due) |->
                         LET i == InOrder(due)[k]
                         IN [index |-> i, id |-> delayed[i].id, mod |-> delayed[i].mod]]
             d == [Top EXCEPT !.pc = "runDelayed", !.todo = ready, !.ready = ready]
  <2>2. executing => ready = <<>>
    <3>1. executing => due = {}
      BY DEF IsDue
    <3>2. DOMAIN InOrder({}) = 1..0
      BY FS_EmptySet DEF InOrder
    <3>3. executing => DOMAIN ready = 1..0 /\ ready = [k \in 1..0 |-> ready[k]]
      BY <3>1, <3>2
    <3> HIDE DEF ready
    <3> QED BY <3>3
  <2>3. SetTop(d) /\ UNCHANGED <<executing, depth, pendingNotify, unload>>
    BY <1>1 DEF TakeReady, env
  <2> HIDE DEF ready
  <2>4. d.pc = "runDelayed" /\ (executing => d.ready = <<>>)
    BY <2>1, <2>2, DrainSets
  <2> HIDE DEF d
  <2> QED BY <1>0, <2>1, <2>3, <2>4
<1>2. CASE SkipReady
  <2>1. stack # <<>> /\ Top \in DrainsIn /\ Top.pc = "runDelayed"
    BY <1>2, AtTop DEF SkipReady
  <2> DEFINE d == [Top EXCEPT !.todo = Tail(Top.todo)]
  <2>2. d.pc = "runDelayed" /\ d.ready = Top.ready
    BY <2>1, DrainSets
  <2>3. SetTop(d) /\ UNCHANGED <<executing, depth, pendingNotify, unload>>
    BY <1>2 DEF SkipReady, env, queues
  <2>4. executing => Top.ready = <<>>
    <3>1. /\ Len(stack) \in Nat \ {0} /\ Top = stack[Len(stack)] /\ DOMAIN stack = 1..Len(stack)
      BY <2>1, <2>3, TopNow
    <3>2. \A k \in DOMAIN stack : Calling(stack[k]) => k # Len(stack)
      BY <2>1, <3>1 DEF Calling
    <3>3. \A k \in DOMAIN stack : Calling(stack[k]) => Len(stack) > k
      BY <3>1, <3>2
    <3>4. Len(stack) \in DOMAIN stack
      BY <3>1
    <3>5. executing => \E k \in DOMAIN stack : Calling(stack[k])
      BY DEF Nesting
    <3>6. \A k \in DOMAIN stack : Calling(stack[k]) => stack[Len(stack)].ready = <<>>
      BY <3>3, <3>4 DEF Nesting
    <3> QED BY <3>1, <3>5, <3>6
  <2> HIDE DEF d
  <2> QED BY <1>0, <2>1, <2>2, <2>3, <2>4
<1>3. CASE CallReady
  <2>1. stack # <<>> /\ Top \in DrainsIn /\ Top.pc = "runDelayed"
    BY <1>3, AtTop DEF CallReady
  <2> DEFINE d == [Top EXCEPT !.pc = "inDelayed"]
  <2>2. d.pc = "inDelayed"
    BY <2>1, DrainSets
  <2>3. SetTop(d) /\ UNCHANGED <<depth, pendingNotify, unload>> /\ ~executing /\ executing' = TRUE
    BY <1>3 DEF CallReady, env, queues
  <2> HIDE DEF d
  <2> QED BY <2>1, <2>2, <2>3, NestingCalls DEF Calling
<1>4. CASE ReadyReturns
  <2>1. stack # <<>> /\ Top \in DrainsIn /\ Top.pc = "inDelayed"
    BY <1>4, AtTop DEF ReadyReturns
  <2> DEFINE d == [Top EXCEPT !.pc = "runDelayed", !.todo = Tail(Top.todo)]
  <2>2. d.pc = "runDelayed"
    BY <2>1, DrainSets
  <2>3. SetTop(d) /\ UNCHANGED <<depth, pendingNotify, unload>> /\ executing' = FALSE
    BY <1>4 DEF ReadyReturns, env, queues
  <2> HIDE DEF d
  <2> QED BY <2>1, <2>2, <2>3, NestingReturns DEF Calling
<1>5. CASE RetireReady
  <2>1. stack # <<>> /\ Top \in DrainsIn /\ Top.pc = "runDelayed"
    BY <1>5, AtTop DEF RetireReady
  <2> DEFINE d == [Top EXCEPT !.pc = "notify", !.ready = <<>>]
  <2>2. d.pc = "notify" /\ d.ready = <<>>
    BY <2>1, DrainSets
  <2>3. SetTop(d) /\ UNCHANGED <<executing, depth, pendingNotify, unload>>
    BY <1>5 DEF RetireReady, env
  <2> HIDE DEF d
  <2> QED BY <1>0, <2>1, <2>2, <2>3
<1> QED BY <1>1, <1>2, <1>3, <1>4, <1>5 DEF ReadyStep

LEMMA IdleStepNesting ==
  ASSUME Shape, Nesting, IdleStep
  PROVE  Nesting'
<1>1. UNCHANGED <<executing, unload>>
  BY IdleUnchanged DEF env
<1>2. ASSUME NEW p, Goes(p),
             depth' = IF p = "merge" THEN depth - 1 ELSE depth, p \in Takes => ~transitioning,
             IF p = "inNotify" THEN pendingNotify /\ ~pendingNotify' ELSE pendingNotify' => pendingNotify
      PROVE  Nesting'
  <2>1. /\ stack # <<>> /\ Top \in DrainsIn /\ SetTop([Top EXCEPT !.pc = p])
        /\ Top.pc \notin {"merge", "inSimple", "inDelayed"} /\ p \notin {"inSimple", "inDelayed"}
        /\ Top.pc \notin RunsDelayed
    BY <1>2 DEF Goes, IdleAt, RunsSimple, RunsDelayed
  <2> DEFINE d == [Top EXCEPT !.pc = p]
  <2>2. d.pc = p /\ d.ready = <<>>
    BY <2>1, DrainSets
  <2>3. SetTop(d)
    BY <2>1
  <2> HIDE DEF d
  <2> QED BY <1>1, <1>2, <2>1, <2>2, <2>3, NestingGoesOn DEF Calling
<1> QED BY <1>2, IdleStepGoes DEF Takes

LEMMA MergeNesting ==
  ASSUME Shape, Nesting, MergePending
  PROVE  Nesting'
<1> DEFINE n == Len(stack)
<1>1. stack # <<>> /\ Top.pc = "merge" /\ At("merge")
  BY DEF MergePending, At
<1>2. stack' = SubSeq(stack, 1, n - 1) /\ UNCHANGED <<executing, depth, pendingNotify, unload>>
  BY DEF MergePending, Front, env
<1>3. stack \in Seq(DrainsIn) /\ n \in Nat /\ DOMAIN stack = 1..n
  BY SeqParts DEF Shape
<1>4. n \in Nat \ {0}
  BY <1>1, <1>3
<1>5. /\ Len(stack') = n - 1 /\ DOMAIN stack' = 1..(n - 1) /\ \A k \in 1..(n - 1) : stack'[k] = stack[k]
      /\ stack' # <<>> => n - 1 \in 1..(n - 1)
  BY <1>2, <1>3, <1>4
<1>6. Top = stack[n] /\ depth = n - 1
  BY <1>1 DEF Nesting, Top, Last
<1> HIDE DEF n
<1>7. \A k \in DOMAIN stack' : k \in DOMAIN stack /\ k # n /\ stack'[k] = stack[k]
  BY <1>3, <1>4, <1>5
<1>8. \A k \in DOMAIN stack' : Calling(stack'[k]) \/ stack'[k].pc = "inNotify"
  BY <1>7 DEF Nesting, n
<1>9. ~At("merge")'
  BY <1>5, <1>8 DEF At, Top, Last, Calling
<1>10. Len(stack') <= MaxNesting /\ depth' = Len(stack')
  BY <1>2, <1>4, <1>5, <1>6, BoundsAssumption DEF Nesting, n
<1>11. executing' => \E k \in DOMAIN stack' : Calling(stack'[k])
  <2>1. \A k \in DOMAIN stack : Calling(stack[k]) => k \in DOMAIN stack'
    BY <1>1, <1>3, <1>4, <1>5, <1>6 DEF Calling
  <2> QED BY <1>2, <1>7, <2>1 DEF Nesting
<1>12. \A k \in DOMAIN stack' : Calling(stack'[k]) =>
         executing' /\ \A i \in DOMAIN stack' : i > k => ~Calling(stack'[i]) /\ stack'[i].ready = <<>>
  BY <1>2, <1>7 DEF Nesting
<1>13. \A k \in DOMAIN stack' : stack'[k].pc = "inNotify" =>
         ~pendingNotify' /\ \A i \in DOMAIN stack' : stack'[i].pc = "inNotify" => i = k
  BY <1>2, <1>7 DEF Nesting
<1>14. \A m \in Mods : unload'[m] = "erasing" => \A k \in DOMAIN stack' : stack'[k].pc \notin Takes
  BY <1>2, <1>7 DEF Nesting
<1> QED BY <1>8, <1>9, <1>10, <1>11, <1>12, <1>13, <1>14 DEF Nesting

LEMMA EnterNesting ==
  ASSUME Shape, Nesting, NEW q \in Methods, EnterDrain(q)
  PROVE  Nesting'
<1> DEFINE d == [method |-> q, pc |-> "simple", todo |-> <<>>, deferred |-> <<>>, ready |-> <<>>]
           n == Len(stack)
<1>1. /\ stack' = Append(stack, d) /\ depth' = depth + 1 /\ UNCHANGED <<executing, pendingNotify, unload>>
      /\ stack = <<>> \/ (InCallback /\ n < MaxNesting)
  BY DEF EnterDrain, queues, env
<1>2. ~Calling(d) /\ d.ready = <<>> /\ d.pc \notin {"merge", "inNotify"} \cup Takes
  BY DEF Calling, Takes
<1> HIDE DEF d
<1>3. stack \in Seq(DrainsIn) /\ n \in Nat /\ DOMAIN stack = 1..n
  BY SeqParts DEF Shape
<1>4. /\ Len(stack') = n + 1 /\ stack'[n + 1] = d /\ stack' # <<>> /\ DOMAIN stack' = 1..(n + 1)
      /\ \A k \in 1..n : stack'[k] = stack[k]
  BY <1>1, <1>3
<1>5. ~At("merge")'
  BY <1>2, <1>4 DEF At, Top, Last
<1>6. stack # <<>> => ~At("merge") /\ (Calling(stack[n]) \/ stack[n].pc = "inNotify")
  BY <1>1 DEF InCallback, At, Calling, Top, Last
<1>7. stack = <<>> => n = 0 /\ ~At("merge")
  BY DEF At
<1> HIDE DEF n
<1>8. Len(stack') <= MaxNesting /\ depth' = Len(stack')
  <2>1. depth = n
    BY <1>6, <1>7 DEF Nesting, n
  <2>2. n < MaxNesting
    BY <1>1, <1>7, BoundsAssumption
  <2> QED BY <1>1, <1>3, <1>4, <2>1, <2>2, BoundsAssumption
<1>9. \A k \in DOMAIN stack' : k # Len(stack') => k \in DOMAIN stack /\ stack'[k] = stack[k]
  BY <1>3, <1>4
<1>10. \A k \in DOMAIN stack' : k # Len(stack') => Calling(stack'[k]) \/ stack'[k].pc = "inNotify"
  <2> SUFFICES ASSUME NEW k \in DOMAIN stack', k # Len(stack')
               PROVE  Calling(stack[k]) \/ stack[k].pc = "inNotify"
    BY <1>9
  <2>1. k \in DOMAIN stack /\ stack # <<>>
    BY <1>3, <1>7, <1>9
  <2> QED BY <1>6, <2>1 DEF Nesting, n
<1>11. executing' => \E k \in DOMAIN stack' : Calling(stack'[k])
  BY <1>1, <1>3, <1>4 DEF Nesting
<1>12. ASSUME NEW k \in DOMAIN stack', Calling(stack'[k])
       PROVE  executing' /\ \A i \in DOMAIN stack' : i > k => ~Calling(stack'[i]) /\ stack'[i].ready = <<>>
  <2>1. k \in DOMAIN stack /\ Calling(stack[k])
    BY <1>2, <1>4, <1>9, <1>12
  <2>2. executing /\ \A i \in DOMAIN stack : i > k => ~Calling(stack[i]) /\ stack[i].ready = <<>>
    BY <2>1 DEF Nesting
  <2> QED BY <1>1, <1>2, <1>4, <1>9, <2>2
<1>13. \A k \in DOMAIN stack' : stack'[k].pc = "inNotify" =>
         ~pendingNotify' /\ \A i \in DOMAIN stack' : stack'[i].pc = "inNotify" => i = k
  BY <1>1, <1>2, <1>4, <1>9 DEF Nesting
<1>14. \A m \in Mods : unload'[m] = "erasing" => \A k \in DOMAIN stack' : stack'[k].pc \notin Takes
  BY <1>1, <1>2, <1>4, <1>9 DEF Nesting
<1> QED BY <1>5, <1>8, <1>10, <1>11, <1>12, <1>13, <1>14 DEF Nesting

(* What is done outside the drains.                                         *)
LEMMA UnloadNesting ==
  ASSUME Shape, Nesting, UnloadStep \/ ConstructElsewhere
  PROVE  Nesting'
<1>1. UNCHANGED <<stack, executing, depth>>
  BY DEF UnloadStep, UnloadGoesOn, BeginUnload, DrainsSettled, EraseActions, EndUnload, ConstructElsewhere
<1>2. pendingNotify' => pendingNotify \/ \A k \in DOMAIN stack : stack[k].pc # "inNotify"
  BY DEF UnloadStep, UnloadGoesOn, BeginUnload, DrainsSettled, EraseActions, EndUnload,
         ConstructElsewhere, MutexHeld, queues
<1>3. ASSUME NEW m \in Mods, unload'[m] = "erasing", NEW k \in DOMAIN stack
      PROVE  stack[k].pc \notin Takes
  <2>1. CASE unload[m] = "erasing"
    BY <2>1 DEF Nesting
  <2>2. CASE unload[m] # "erasing"
    <3>1. depth = 0
      BY <1>3, <2>2 DEF UnloadStep, UnloadGoesOn, BeginUnload, DrainsSettled, EraseActions, EndUnload,
                        ConstructElsewhere, Shape, env
    <3> QED BY <3>1, SettledStack DEF Takes
  <2> QED BY <2>1, <2>2
<1> QED BY <1>1, <1>2, <1>3 DEF Nesting, At, Top

LEMMA NestingStep ==
  ASSUME Shape, Bounded, Nesting, [Next]_vars
  PROVE  Nesting'
<1>1. CASE UNCHANGED <<stack, executing, depth, pendingNotify, unload>>
  BY <1>1 DEF Nesting, At, Top
<1>2. CASE UNCHANGED vars
  BY <1>1, <1>2 DEF vars, queues, env
<1>3. CASE Next
  <2>1. CASE RevisingStep
    BY <1>1, <2>1 DEF RevisingStep, BothRevised, RestOfControl, env
  <2>2. CASE GainingStep
    BY <1>1, <2>2 DEF GainingStep, CreationFacts, env
  <2>3. CASE \E m \in Mods : MakeActionHandle(m) \/ \E q \in Methods : ExecuteInGameThread(m, q)
    BY <1>1, <2>3 DEF MakeActionHandle, ReadCounter, WriteCounter, ExecuteInGameThread, queues, env
  <2>4. CASE UnloadStep \/ ConstructElsewhere
    BY <2>4, UnloadNesting
  <2>5. CASE SimpleStep \/ ReadyStep \/ IdleStep \/ MergePending \/ \E q \in Methods : EnterDrain(q)
    BY <2>5, SimpleStepNesting, ReadyStepNesting, IdleStepNesting, MergeNesting, EnterNesting
  <2> QED BY <1>3, <2>1, <2>2, <2>3, <2>4, <2>5, NextIs DEF OtherStep
<1> QED BY <1>2, <1>3

-----------------------------------------------------------------------------
(* Every step keeps the delayed actions distinct.                           *)
BothDescend == Descends(delayed, delayed') /\ Descends(delayedPending, delayedPending')
DelayedMerges == delayed' = delayed \o delayedPending /\ delayedPending' = <<>>

LEMMA SameDescends ==
  ASSUME NEW s \in Seq(DelayedIn)
  PROVE  Descends(s, s)
BY NoneRevised, RevisedDescends

LEMMA DelayedStep ==
  ASSUME Shape, Bounded, [Next]_vars
  PROVE  BothDescend \/ DelayedGains \/ DelayedMerges
<1>1. delayed \in Seq(DelayedIn) /\ delayedPending \in Seq(DelayedIn)
  BY DEF Shape
<1>2. CASE UNCHANGED <<delayed, delayedPending>>
  BY <1>1, <1>2, SameDescends DEF BothDescend
<1>3. CASE UNCHANGED vars
  BY <1>2, <1>3 DEF vars, queues
<1>4. CASE Next
  <2>1. CASE RevisingStep
    BY <1>1, <2>1, RevisedDescends DEF RevisingStep, BothRevised, BothDescend
  <2>2. CASE GainingStep
    BY <2>2 DEF GainingStep, CreationFacts
  <2>3. CASE TakeReady
    <3>1. UNCHANGED delayedPending
      BY <2>3 DEF TakeReady
    <3> QED BY <1>1, <2>3, <3>1, TakeReadyRevises, RevisedDescends, SameDescends DEF BothDescend
  <2>4. CASE RetireReady
    <3>1. UNCHANGED delayedPending
      BY <2>4 DEF RetireReady
    <3> QED BY <1>1, <2>4, <3>1, RetireDescends, SameDescends DEF BothDescend
  <2>5. CASE MergePending
    BY <2>5 DEF MergePending, DelayedMerges
  <2>6. ASSUME NEW m \in Mods, EraseActions(m)
        PROVE  BothDescend
    BY <1>1, <2>6, EraseDescends DEF EraseActions, BothDescend
  <2>7. CASE OtherStep /\ ~TakeReady /\ ~RetireReady /\ ~MergePending /\ \A m \in Mods : ~EraseActions(m)
    BY <1>2, <2>7, IdleUnchanged
       DEF OtherStep, EnterDrain, SimpleStep, ReadyStep, MakeActionHandle, ReadCounter, WriteCounter,
       ConstructElsewhere, UnloadStep, UnloadGoesOn, ExecuteInGameThread, TakeSimple, SkipSimple, DeferSimple, CallSimple, SimpleReturns,
       PutBackDeferred, SkipReady, CallReady, ReadyReturns, EndUnload, BeginUnload,
       DrainsSettled, queues
  <2> QED BY <1>4, <2>1, <2>2, <2>3, <2>4, <2>5, <2>6, <2>7, NextIs
<1> QED BY <1>3, <1>4

(* More handles free to clash, fewer clashes.                               *)
LEMMA FreerIsWeaker ==
  ASSUME NEW S, NEW T, S \subseteq T
  PROVE  /\ \A s : Unique(s, S) => Unique(s, T)
         /\ \A s, t : Apart(s, t, S) => Apart(s, t, T)
BY DEF Unique, Apart, Clash

LEMMA StrayGrows ==
  ASSUME Shape, Bounded, [Next]_vars
  PROVE  stray \subseteq stray'
<1>1. CASE UNCHANGED handles
  BY <1>1 DEF handles
<1>2. CASE Next
  <2>1. CASE RevisingStep
    BY <1>1, <2>1 DEF RevisingStep, BothRevised, RestOfControl
  <2>2. CASE GainingStep
    BY <2>2 DEF GainingStep, CreationFacts
  <2>3. ASSUME NEW m \in Mods, MakeActionHandle(m)
        PROVE  stray \subseteq stray'
    BY <2>3, HandleShape
  <2>4. CASE OtherStep /\ \A m \in Mods : ~MakeActionHandle(m)
    BY <1>1, <2>4, IdleUnchanged
       DEF OtherStep, EnterDrain, SimpleStep, ReadyStep, MergePending, ConstructElsewhere, UnloadStep,
       UnloadGoesOn, ExecuteInGameThread, TakeSimple, SkipSimple, DeferSimple, CallSimple,
       SimpleReturns, PutBackDeferred, TakeReady, SkipReady, CallReady, ReadyReturns, RetireReady,
       EndUnload, BeginUnload, DrainsSettled, EraseActions
  <2> QED BY <1>2, <2>1, <2>2, <2>3, <2>4, NextIs
<1> QED BY <1>1, <1>2 DEF vars

LEMMA RevisedClash ==
  ASSUME NEW S, NEW a, NEW b, NEW c, NEW d, Revises(a, c), Revises(b, d), Clash(c, d, S)
  PROVE  Clash(a, b, S)
BY DEF Revises, Clash, SameLiveHandle

LEMMA DescendsFrom ==
  ASSUME NEW s, NEW t, Descends(s, t), NEW b \in ToSet(t)
  PROVE  \E a \in ToSet(s) : Revises(a, b)
<1>1. PICK f \in [DOMAIN t -> DOMAIN s] : \A i \in DOMAIN t : Revises(s[f[i]], t[i])
  BY DEF Descends
<1>2. PICK i \in DOMAIN t : b = t[i]
  BY DEF ToSet
<1>3. f[i] \in DOMAIN s
  BY <1>1
<1> QED BY <1>1, <1>2, <1>3 DEF ToSet

LEMMA DescendsUnique ==
  ASSUME NEW S, NEW s, NEW t, Descends(s, t), Unique(s, S)
  PROVE  Unique(t, S)
<1>1. PICK f \in [DOMAIN t -> DOMAIN s] :
         /\ \A i, j \in DOMAIN t : f[i] = f[j] => i = j
         /\ \A i \in DOMAIN t : Revises(s[f[i]], t[i])
  BY DEF Descends
<1>2. \A i, j \in DOMAIN t : Clash(t[i], t[j], S) => Clash(s[f[i]], s[f[j]], S)
  BY <1>1, RevisedClash
<1>3. \A i \in DOMAIN t : f[i] \in DOMAIN s
  BY <1>1
<1> QED BY <1>1, <1>2, <1>3 DEF Unique

LEMMA DescendsApart ==
  ASSUME NEW S, NEW s, NEW t, NEW u, NEW v, Descends(s, t), Descends(u, v), Apart(s, u, S)
  PROVE  Apart(t, v, S)
<1>1. PICK f \in [DOMAIN t -> DOMAIN s] : \A i \in DOMAIN t : Revises(s[f[i]], t[i])
  BY DEF Descends
<1>2. PICK g \in [DOMAIN v -> DOMAIN u] : \A i \in DOMAIN v : Revises(u[g[i]], v[i])
  BY DEF Descends
<1>3. \A i \in DOMAIN t, j \in DOMAIN v : Clash(t[i], v[j], S) => Clash(s[f[i]], u[g[j]], S)
  BY <1>1, <1>2, RevisedClash
<1>4. \A i \in DOMAIN t, j \in DOMAIN v : f[i] \in DOMAIN s /\ g[j] \in DOMAIN u
  BY <1>1, <1>2
<1> QED BY <1>3, <1>4 DEF Apart

(* A vector with one more at its end, and two vectors joined.               *)
LEMMA AppendParts ==
  ASSUME NEW S, NEW s \in Seq(S), NEW a
  PROVE  /\ DOMAIN Append(s, a) = 1..(Len(s) + 1) /\ Append(s, a)[Len(s) + 1] = a
         /\ \A i \in DOMAIN s : Append(s, a)[i] = s[i]
         /\ DOMAIN s = 1..Len(s) /\ Len(s) \in Nat
OBVIOUS

LEMMA JoinParts ==
  ASSUME NEW S, NEW s \in Seq(S), NEW t \in Seq(S)
  PROVE  \A i \in DOMAIN (s \o t) :
           \/ i \in DOMAIN s /\ (s \o t)[i] = s[i]
           \/ i - Len(s) \in DOMAIN t /\ (s \o t)[i] = t[i - Len(s)] /\ i \in Int /\ Len(s) \in Int
OBVIOUS

LEMMA AppendUnique ==
  ASSUME NEW F, NEW S, NEW s \in Seq(S), NEW a, Unique(s, F),
         \A i \in DOMAIN s : ~Clash(s[i], a, F) /\ ~Clash(a, s[i], F)
  PROVE  Unique(Append(s, a), F)
<1> DEFINE t == Append(s, a)
<1>1. /\ DOMAIN t = 1..(Len(s) + 1) /\ t[Len(s) + 1] = a /\ \A i \in DOMAIN s : t[i] = s[i]
      /\ DOMAIN s = 1..Len(s) /\ Len(s) \in Nat
  BY AppendParts
<1> HIDE DEF t
<1>2. \A i \in DOMAIN t : i \in DOMAIN s \/ i = Len(s) + 1
  BY <1>1
<1>3. Unique(t, F)
  BY <1>1, <1>2 DEF Unique
<1> QED BY <1>3 DEF t

LEMMA AppendApart ==
  ASSUME NEW F, NEW S, NEW s \in Seq(S), NEW u, NEW a, Apart(s, u, F),
         \A i \in DOMAIN u : ~Clash(a, u[i], F)
  PROVE  Apart(Append(s, a), u, F)
<1> DEFINE t == Append(s, a)
<1>1. /\ DOMAIN t = 1..(Len(s) + 1) /\ t[Len(s) + 1] = a /\ \A i \in DOMAIN s : t[i] = s[i]
      /\ DOMAIN s = 1..Len(s) /\ Len(s) \in Nat
  BY AppendParts
<1> HIDE DEF t
<1>2. \A i \in DOMAIN t : i \in DOMAIN s \/ i = Len(s) + 1
  BY <1>1
<1>3. Apart(t, u, F)
  BY <1>1, <1>2 DEF Apart
<1> QED BY <1>3 DEF t

LEMMA ApartBothWays ==
  ASSUME NEW F, NEW s, NEW t
  PROVE  Apart(s, t, F) => Apart(t, s, F)
BY DEF Apart, Clash, SameLiveHandle

LEMMA JoinSet ==
  ASSUME NEW S, NEW s \in Seq(S), NEW t \in Seq(S)
  PROVE  ToSet(s \o t) = ToSet(s) \cup ToSet(t)
<1> DEFINE j == s \o t
<1>1. \A i \in DOMAIN j : \/ i \in DOMAIN s /\ j[i] = s[i]
                          \/ i - Len(s) \in DOMAIN t /\ j[i] = t[i - Len(s)]
  BY JoinParts
<1>2. \A i \in DOMAIN s : i \in DOMAIN j /\ j[i] = s[i]
  OBVIOUS
<1>3. \A i \in DOMAIN t : Len(s) + i \in DOMAIN j /\ j[Len(s) + i] = t[i]
  OBVIOUS
<1> HIDE DEF j
<1>4. ASSUME NEW b \in ToSet(j) PROVE b \in ToSet(s) \cup ToSet(t)
  <2>1. PICK i \in DOMAIN j : b = j[i]
    BY <1>4 DEF ToSet
  <2> QED BY <1>1, <2>1 DEF ToSet
<1>5. ASSUME NEW b \in ToSet(s) PROVE b \in ToSet(j)
  BY <1>2, <1>5 DEF ToSet
<1>6. ASSUME NEW b \in ToSet(t) PROVE b \in ToSet(j)
  BY <1>3, <1>6 DEF ToSet
<1> QED BY <1>4, <1>5, <1>6 DEF j

LEMMA AppendSet ==
  ASSUME NEW S, NEW s \in Seq(S), NEW a \in S
  PROVE  Append(s, a) \in Seq(S) /\ \A b \in ToSet(Append(s, a)) : b \in ToSet(s) \/ b = a
<1> DEFINE t == Append(s, a)
<1>1. /\ DOMAIN t = 1..(Len(s) + 1) /\ t[Len(s) + 1] = a /\ \A i \in DOMAIN s : t[i] = s[i]
      /\ DOMAIN s = 1..Len(s) /\ Len(s) \in Nat
  BY AppendParts
<1>2. t \in Seq(S)
  OBVIOUS
<1> HIDE DEF t
<1>3. ASSUME NEW b \in ToSet(t) PROVE b \in ToSet(s) \/ b = a
  <2>1. PICK i \in DOMAIN t : b = t[i]
    BY <1>3 DEF ToSet
  <2>2. i \in DOMAIN s \/ i = Len(s) + 1
    BY <1>1
  <2> QED BY <1>1, <2>1, <2>2 DEF ToSet
<1> QED BY <1>2, <1>3 DEF t

LEMMA JoinUnique ==
  ASSUME Distinct, delayed \in Seq(DelayedIn), delayedPending \in Seq(DelayedIn)
  PROVE  Unique(delayed \o delayedPending, stray)
<1> DEFINE s == delayed
           t == delayedPending
           j == s \o t
<1>1. \A i \in DOMAIN j : \/ i \in DOMAIN s /\ j[i] = s[i]
                          \/ i - Len(s) \in DOMAIN t /\ j[i] = t[i - Len(s)] /\ i \in Int /\ Len(s) \in Int
  BY JoinParts
<1>2. Unique(s, stray) /\ Unique(t, stray) /\ Apart(s, t, stray) /\ Apart(t, s, stray)
  BY ApartBothWays DEF Distinct
<1> HIDE DEF s, t, j
<1>3. ASSUME NEW i \in DOMAIN j, NEW k \in DOMAIN j, Clash(j[i], j[k], stray)
      PROVE  i = k
  <2>1. CASE i \in DOMAIN s /\ j[i] = s[i] /\ k \in DOMAIN s /\ j[k] = s[k]
    BY <1>2, <1>3, <2>1 DEF Unique
  <2>2. CASE /\ i \in DOMAIN s /\ j[i] = s[i]
             /\ k - Len(s) \in DOMAIN t /\ j[k] = t[k - Len(s)]
    BY <1>2, <1>3, <2>2 DEF Apart
  <2>3. CASE /\ k \in DOMAIN s /\ j[k] = s[k]
             /\ i - Len(s) \in DOMAIN t /\ j[i] = t[i - Len(s)]
    BY <1>2, <1>3, <2>3 DEF Apart
  <2>4. CASE /\ i - Len(s) \in DOMAIN t /\ j[i] = t[i - Len(s)] /\ i \in Int /\ Len(s) \in Int
             /\ k - Len(s) \in DOMAIN t /\ j[k] = t[k - Len(s)] /\ k \in Int
    <3>1. i - Len(s) = k - Len(s)
      BY <1>2, <1>3, <2>4 DEF Unique
    <3> QED BY <2>4, <3>1
  <2> QED BY <1>1, <2>1, <2>2, <2>3, <2>4
<1>4. Unique(j, stray)
  BY <1>3 DEF Unique
<1> QED BY <1>4 DEF j, s, t

LEMMA DistinctStep ==
  ASSUME Shape, Bounded, Distinct, [Next]_vars
  PROVE  Distinct'
<1> DEFINE F == stray'
<1>1. delayed \in Seq(DelayedIn) /\ delayedPending \in Seq(DelayedIn)
  BY DEF Shape
<1>0. stray \subseteq F
  BY StrayGrows
<1>8. Unique(delayed, F) /\ Unique(delayedPending, F) /\ Apart(delayed, delayedPending, F)
  BY <1>0, FreerIsWeaker DEF Distinct
<1>9. Unique(delayed', F) /\ Unique(delayedPending', F) /\ Apart(delayed', delayedPending', F) => Distinct'
  BY DEF Distinct
<1> HIDE DEF F
<1>2. CASE BothDescend
  BY <1>2, <1>8, <1>9, DescendsUnique, DescendsApart DEF BothDescend
<1>3. CASE DelayedGains
  <2>1. PICK a \in DelayedAction :
          /\ a.id = NewId
          /\ \A b \in ToSet(delayed) \cup ToSet(delayedPending) : b.handle = a.handle => Removed(b) \/ a.handle \in F
          /\ \/ delayed' = Append(delayed, a) /\ UNCHANGED delayedPending
             \/ delayedPending' = Append(delayedPending, a) /\ UNCHANGED delayed
    BY <1>3 DEF DelayedGains, F
  <2>2. NewId \notin Known
    BY DEF Shape, NewId, Known
  <2>3. \A b \in DelayedIn : b.id # a.id
    BY <2>1, <2>2 DEF DelayedIn
  <2>4. /\ \A i \in DOMAIN delayed : ~Clash(delayed[i], a, F) /\ ~Clash(a, delayed[i], F)
        /\ \A i \in DOMAIN delayedPending : ~Clash(delayedPending[i], a, F) /\ ~Clash(a, delayedPending[i], F)
    BY <1>1, <2>1, <2>3, SeqParts DEF Clash, SameLiveHandle, ToSet
  <2>5. CASE delayed' = Append(delayed, a) /\ UNCHANGED delayedPending
    BY <1>1, <1>8, <1>9, <2>4, <2>5, AppendUnique, AppendApart
  <2>6. CASE delayedPending' = Append(delayedPending, a) /\ UNCHANGED delayed
    <3>1. Unique(delayedPending', F)
      BY <1>1, <1>8, <2>4, <2>6, AppendUnique
    <3>2. Apart(delayedPending', delayed, F)
      BY <1>1, <1>8, <2>4, <2>6, AppendApart, ApartBothWays
    <3>3. Apart(delayed, delayedPending', F)
      BY <3>2, ApartBothWays
    <3> QED BY <1>8, <1>9, <2>6, <3>1, <3>3
  <2> QED BY <2>1, <2>5, <2>6
<1>4. CASE DelayedMerges
  <2>4. Unique(delayed \o delayedPending, F)
    BY <1>0, <1>1, JoinUnique, FreerIsWeaker
  <2>5. delayed' = delayed \o delayedPending /\ delayedPending' = <<>>
    BY <1>4 DEF DelayedMerges
  <2>6. Unique(<<>>, F) /\ Apart(delayed \o delayedPending, <<>>, F)
    BY DEF Unique, Apart
  <2> QED BY <1>9, <2>4, <2>5, <2>6
<1> QED BY <1>2, <1>3, <1>4, DelayedStep

-----------------------------------------------------------------------------
(* The invariant.                                                           *)
LEMMA InitHolds == Init => IInv
<1> SUFFICES ASSUME Init PROVE IInv
  OBVIOUS
<1>1. /\ simple = [q \in Methods |-> <<>>] /\ simplePending = [q \in Methods |-> <<>>]
      /\ delayed = <<>> /\ delayedPending = <<>> /\ stack = <<>> /\ born = <<>>
      /\ nextHandle = 1 /\ making = [m \in Mods |-> 0] /\ stray = {} /\ pendingNotify = FALSE
      /\ depth = 0 /\ executing = FALSE /\ transitioning = FALSE
      /\ unload = [m \in Mods |-> "loaded"] /\ ran = {} /\ cancelled = {}
  BY DEF Init
<1>2. \A S : <<>> \in Seq(S)
  OBVIOUS
<1>3. Len(<<>>) = 0 /\ DOMAIN <<>> = {}
  OBVIOUS
<1>4. Shape
  <2>1. /\ simple \in [Methods -> Seq(SimpleIn(Present))] /\ simplePending \in [Methods -> Seq(SimpleIn(Present))]
        /\ delayed \in Seq(DelayedIn) /\ delayedPending \in Seq(DelayedIn) /\ stack \in Seq(DrainsIn)
        /\ born \in Seq([mod : Mods, kind : Kinds])
    BY <1>1, <1>2
  <2>2. nextHandle \in 1..(MaxHandles + 1) /\ making \in [Mods -> 0..MaxHandles]
    BY <1>1, BoundsAssumption
  <2>3. /\ unload \in [Mods -> {"loaded", "waiting", "erasing", "gone"}]
        /\ ~transitioning => \A m \in Mods : unload[m] \in {"loaded", "gone"}
    BY <1>1
  <2> QED BY <1>1, <2>1, <2>2, <2>3 DEF Shape
<1>5. Bounded
  <2>1. \A kinds : {i \in DOMAIN born : born[i].kind \in kinds} = {}
    BY <1>1, <1>3
  <2>2. \A kinds : CreatedSoFar(kinds) = 0
    BY <2>1, FS_EmptySet DEF CreatedSoFar
  <2> QED BY <2>2, BoundsAssumption DEF Bounded
<1>6. Nesting
  BY <1>1, <1>3, BoundsAssumption DEF Nesting, At
<1>7. Distinct
  BY <1>1, <1>3 DEF Distinct, Unique, Apart
<1> QED BY <1>4, <1>5, <1>6, <1>7 DEF IInv

(* IInv, for every reachable state: what the queues and drains hold, how    *)
(* drains nest, and that delayed actions are distinct but for handles that  *)
(* were passed before the counter came to them, or issued twice.            *)
THEOREM InvHolds == Spec => []IInv
<1>1. IInv /\ [Next]_vars => IInv'
  BY ShapeStep, BoundedStep, NestingStep, DistinctStep DEF IInv
<1> QED BY <1>1, InitHolds, PTL DEF Spec

(* Every variable keeps its type, with the numbers and the nesting within   *)
(* their bounds.                                                            *)
THEOREM TypesHold == Spec => []TypeOK
<1>1. IInv => TypeOK
  <2> SUFFICES ASSUME IInv PROVE TypeOK
    OBVIOUS
  <2>1. Shape /\ Bounded /\ Nesting
    BY DEF IInv
  <2>2. Known \subseteq Ids
    <3>1. Len(born) \in Nat
      BY <2>1 DEF Shape
    <3>2. /\ CreatedSoFar({"simple"}) \in Nat /\ CreatedSoFar({"once", "loop"}) \in Nat
          /\ Len(born) = CreatedSoFar({"simple"}) + CreatedSoFar({"once", "loop"})
      BY <2>1, CountBorn DEF Shape
    <3>3. Len(born) <= MaxSimple + MaxDelayed
      BY <2>1, <3>2, BoundsAssumption DEF Bounded
    <3>4. \A a, b \in Int : a <= b => 1..a \subseteq 1..b
      OBVIOUS
    <3> QED BY <3>1, <3>3, <3>4, BoundsAssumption DEF Known, Ids
  <2>3. SimpleIn(Present) \subseteq SimpleAction /\ SimpleIn(Undrained) \subseteq SimpleAction
    BY <2>2 DEF SimpleIn, SimpleAction, Present, Undrained
  <2>4. ReadyIn \subseteq ReadyEntry /\ DelayedIn \subseteq DelayedAction
    BY <2>2 DEF ReadyIn, ReadyEntry, DelayedIn, Undrained
  <2>5. DrainsIn \subseteq Drain
    <3>1. /\ Seq(SimpleIn(Undrained)) \subseteq Seq(SimpleAction) /\ Seq(ReadyIn) \subseteq Seq(ReadyEntry)
          /\ Seq(SimpleIn(Undrained) \cup ReadyIn) \subseteq Seq(SimpleAction \cup ReadyEntry)
      BY <2>3, <2>4, SeqWider
    <3> QED BY <3>1 DEF DrainsIn, Drain
  <2>6. \A s : s \in Seq(SimpleIn(Present)) => s \in Seq(SimpleAction)
    BY <2>3, SeqWider
  <2>7. /\ simple \in [Methods -> Seq(SimpleAction)]
        /\ simplePending \in [Methods -> Seq(SimpleAction)]
    BY <2>1, <2>6 DEF Shape
  <2>8. delayed \in Seq(DelayedAction) /\ delayedPending \in Seq(DelayedAction) /\ stack \in Seq(Drain)
    BY <2>1, <2>4, <2>5, SeqWider DEF Shape
  <2>9. depth \in 0..MaxNesting
    <3>1. Len(stack) \in Nat /\ Len(stack) <= MaxNesting /\ (At("merge") => Len(stack) # 0)
      BY <2>1 DEF Shape, Nesting, At
    <3>2. depth = IF At("merge") THEN Len(stack) - 1 ELSE Len(stack)
      BY <2>1 DEF Nesting
    <3> QED BY <3>1, <3>2, BoundsAssumption
  <2> QED BY <2>1, <2>7, <2>8, <2>9 DEF TypeOK, Shape, Kinds, Known
<1> QED BY <1>1, InvHolds, PTL

(* Game-thread actions never run inside one another, whatever UFunctions    *)
(* their callbacks call.                                                    *)
THEOREM OneActionHolds == Spec => []OneActionAtATime
<1>1. IInv => OneActionAtATime
  <2> SUFFICES ASSUME IInv PROVE OneActionAtATime
    OBVIOUS
  <2> DEFINE C == {k \in DOMAIN stack : Calling(stack[k])}
  <2>1. Nesting /\ \A k \in DOMAIN stack : k \in Int
    BY SeqParts DEF IInv, Shape
  <2>2. CASE ~executing
    <3>1. C = {}
      BY <2>1, <2>2 DEF Nesting
    <3> QED BY <2>2, <3>1, FS_EmptySet DEF OneActionAtATime
  <2>3. CASE executing
    <3>1. PICK k \in DOMAIN stack : Calling(stack[k])
      BY <2>1, <2>3 DEF Nesting
    <3>2. \A i \in DOMAIN stack : Calling(stack[i]) => ~(i > k) /\ ~(k > i)
      BY <2>1, <3>1 DEF Nesting
    <3>3. \A i \in C : i = k
      BY <2>1, <3>2
    <3>4. C = {k}
      BY <3>1, <3>3
    <3> QED BY <2>3, <3>4, FS_Singleton DEF OneActionAtATime
  <2> QED BY <2>2, <2>3
<1> QED BY <1>1, InvHolds, PTL

(* Three drains nest at most, whatever UFunctions the callbacks call: one   *)
(* that runs an action, one that runs a batch of notifications, and the     *)
(* innermost one.                                                           *)
THEOREM ThreeDrainsHolds == Spec => [](Len(stack) <= 3)
<1>1. IInv => Len(stack) <= 3
  <2> SUFFICES ASSUME IInv, ~(Len(stack) <= 3) PROVE FALSE
    OBVIOUS
  <2>1. Len(stack) \in Nat /\ DOMAIN stack = 1..Len(stack)
    BY SeqParts DEF IInv, Shape
  <2>2. {1, 2, 3} \subseteq DOMAIN stack /\ Len(stack) \notin {1, 2, 3}
    BY <2>1
  <2>3. \A k \in {1, 2, 3} : Calling(stack[k]) \/ stack[k].pc = "inNotify"
    BY <2>2 DEF IInv, Nesting
  <2>4. \A i, k \in {1, 2, 3} : Calling(stack[i]) /\ i > k => ~Calling(stack[k])
    BY <2>2 DEF IInv, Nesting
  <2>5. \A i, k \in {1, 2, 3} : stack[i].pc = "inNotify" /\ stack[k].pc = "inNotify" => i = k
    BY <2>2 DEF IInv, Nesting
  <2> QED BY <2>3, <2>4, <2>5
<1> QED BY <1>1, InvHolds, PTL

(* A delayed action is collected by one drain at a time.                    *)
THEOREM CollectedOnceHolds == Spec => []CollectedOnce
<1>1. IInv => CollectedOnce
  <2> SUFFICES ASSUME IInv, NEW j \in DOMAIN stack, NEW k \in DOMAIN stack,
                      NEW e \in ToSet(stack[j].ready), NEW f \in ToSet(stack[k].ready), j # k
               PROVE  FALSE
    BY DEF CollectedOnce
  <2>1. Len(stack) \in Nat /\ DOMAIN stack = 1..Len(stack)
    BY SeqParts DEF IInv, Shape
  <2>2. \A d \in DrainsIn : d.ready # <<>> => d.pc \in RunsDelayed
    BY DrainSets
  <2>3. \A i \in DOMAIN stack : stack[i] \in DrainsIn
    BY SeqParts DEF IInv, Shape
  <2>4. ToSet(<<>>) = {}
    BY DEF ToSet
  <2>5. ASSUME NEW h \in DOMAIN stack, NEW i \in DOMAIN stack, i > h,
               stack[h].ready # <<>>, stack[i].ready # <<>>
        PROVE  FALSE
    <3>1. h # Len(stack) /\ stack[h].pc \in RunsDelayed
      BY <2>1, <2>2, <2>3, <2>5
    <3>2. Calling(stack[h])
      BY <3>1 DEF IInv, Nesting, RunsDelayed
    <3> QED BY <2>5, <3>2 DEF IInv, Nesting
  <2>6. j > k \/ k > j
    BY <2>1
  <2> QED BY <2>4, <2>5, <2>6
<1> QED BY <1>1, InvHolds, PTL

(* Once a mod's Lua state is closed no queue and no drain holds an action   *)
(* of it.                                                                   *)
THEOREM GoneModSilentHolds == Spec => []GoneModSilent
<1>1. IInv => GoneModSilent
  <2> SUFFICES ASSUME IInv, NEW m \in Mods, Gone(m)
               PROVE  /\ \A q \in Methods : \A a \in ToSet(simple[q] \o simplePending[q]) : a.mod # m
                      /\ \A a \in ToSet(delayed \o delayedPending) : a.mod # m
                      /\ \A k \in DOMAIN stack :
                           \A a \in ToSet(stack[k].todo) \cup ToSet(stack[k].deferred) : a.mod # m
    BY DEF GoneModSilent
  <2>1. m \notin Present /\ m \notin Undrained
    BY DEF Present, Undrained, Gone
  <2>2. \A S : \A s \in Seq(S) : \A a \in ToSet(s) : a \in S
    BY SeqParts DEF ToSet
  <2>3. \A S : \A s, t \in Seq(S) : s \o t \in Seq(S)
    BY SeqJoin
  <2>4. ASSUME NEW q \in Methods, NEW a \in ToSet(simple[q] \o simplePending[q])
        PROVE  a.mod # m
    <3>1. simple[q] \in Seq(SimpleIn(Present)) /\ simplePending[q] \in Seq(SimpleIn(Present))
      BY DEF IInv, Shape
    <3>2. a \in SimpleIn(Present)
      BY <2>2, <2>3, <2>4, <3>1
    <3> QED BY <2>1, <3>2 DEF SimpleIn
  <2>5. ASSUME NEW a \in ToSet(delayed \o delayedPending)
        PROVE  a.mod # m
    <3>1. a \in DelayedIn
      BY <2>2, <2>3, <2>5 DEF IInv, Shape
    <3> QED BY <2>1, <3>1 DEF DelayedIn
  <2>6. ASSUME NEW k \in DOMAIN stack, NEW a \in ToSet(stack[k].todo) \cup ToSet(stack[k].deferred)
        PROVE  a.mod # m
    <3>1. stack[k] \in DrainsIn
      BY SeqParts DEF IInv, Shape
    <3>2. /\ stack[k].todo \in Seq(SimpleIn(Undrained) \cup ReadyIn)
          /\ stack[k].deferred \in Seq(SimpleIn(Undrained))
      BY <3>1 DEF DrainsIn
    <3>3. a \in SimpleIn(Undrained) \cup ReadyIn
      BY <2>2, <2>6, <3>2
    <3> QED BY <2>1, <3>3 DEF SimpleIn, ReadyIn
  <2> QED BY <2>4, <2>5, <2>6
<1> QED BY <1>1, InvHolds, PTL

(* A handle that the counter issued once, and no mod used before, names at  *)
(* most one live action.                                                    *)
THEOREM UniqueHandleHolds == Spec => []UniqueLiveHandle
<1>1. IInv => UniqueLiveHandle
  <2> SUFFICES ASSUME IInv PROVE UniqueLiveHandle
    OBVIOUS
  <2> DEFINE j == delayed \o delayedPending
  <2>1. \A a, b : SameLiveHandle(a, b) /\ a.handle \notin stray => Clash(a, b, stray)
    BY DEF Clash
  <2>2. Unique(j, stray)
    BY JoinUnique DEF IInv, Shape
  <2> HIDE DEF j
  <2>3. \A i, k \in DOMAIN j : (SameLiveHandle(j[i], j[k]) /\ j[i].handle \notin stray) => i = k
    BY <2>1, <2>2 DEF Unique
  <2> QED BY <2>3 DEF UniqueLiveHandle, j
<1> QED BY <1>1, InvHolds, PTL

(* A cancelled action never comes back.                                     *)
THEOREM CancelIsFinalHolds == Spec => CancelIsFinal
<1>1. IInv /\ [Next]_vars =>
        \A a \in ToSet(delayed \o delayedPending) : Removed(a) =>
          \A b \in ToSet(delayed' \o delayedPending') : b.id = a.id => Removed(b)
  <2> SUFFICES ASSUME IInv, [Next]_vars, NEW a \in ToSet(delayed \o delayedPending), Removed(a),
                      NEW b \in ToSet(delayed' \o delayedPending'), b.id = a.id
               PROVE  Removed(b)
    OBVIOUS
  <2> DEFINE old == delayed \o delayedPending
  <2>1. delayed \in Seq(DelayedIn) /\ delayedPending \in Seq(DelayedIn) /\ Unique(old, stray)
    BY JoinUnique DEF IInv, Shape
  <2>2. \A c \in ToSet(old) : c.id = a.id => c = a
    BY <2>1 DEF Unique, Clash, ToSet
  <2>3. \A S : \A s, t \in Seq(S) : ToSet(s \o t) = ToSet(s) \cup ToSet(t)
    BY JoinSet
  <2>4. ToSet(old) = ToSet(delayed) \cup ToSet(delayedPending)
    BY <2>1, <2>3
  <2> HIDE DEF old
  <2>5. CASE BothDescend
    <3>3. delayed' \in Seq(DelayedAction) /\ delayedPending' \in Seq(DelayedAction)
      BY <2>5 DEF BothDescend, Descends
    <3>1. b \in ToSet(delayed') \cup ToSet(delayedPending')
      BY <2>3, <3>3
    <3>2. \E c \in ToSet(old) : Revises(c, b)
      BY <2>4, <2>5, <3>1, DescendsFrom DEF BothDescend
    <3> QED BY <2>2, <3>2 DEF Revises
  <2>6. CASE DelayedGains
    <3>1. PICK n \in DelayedAction :
            /\ n.id = NewId
            /\ \/ delayed' = Append(delayed, n) /\ UNCHANGED delayedPending
               \/ delayedPending' = Append(delayedPending, n) /\ UNCHANGED delayed
      BY <2>6 DEF DelayedGains
    <3>2. delayed \in Seq(DelayedAction) /\ delayedPending \in Seq(DelayedAction)
      BY <2>1, SeqWider DEF DelayedIn
    <3>3. /\ \A c \in ToSet(delayed') : c \in ToSet(delayed) \/ c = n
          /\ \A c \in ToSet(delayedPending') : c \in ToSet(delayedPending) \/ c = n
          /\ delayed' \in Seq(DelayedAction) /\ delayedPending' \in Seq(DelayedAction)
      BY <3>1, <3>2, AppendSet
    <3>7. b \in ToSet(delayed') \cup ToSet(delayedPending')
      BY <2>3, <3>3
    <3>4. b \in ToSet(old) \cup {n}
      BY <2>4, <3>3, <3>7
    <3>5. a.id \in Known
      BY <2>1, <2>4, SeqParts DEF ToSet, DelayedIn, old
    <3>6. NewId \notin Known
      BY DEF IInv, Shape, NewId, Known
    <3> QED BY <2>2, <3>1, <3>4, <3>5, <3>6
  <2>7. CASE DelayedMerges
    <3>1. ToSet(delayed') = ToSet(old) /\ ToSet(delayedPending') = {} /\ delayed' \in Seq(DelayedIn)
          /\ delayedPending' \in Seq(DelayedIn)
      BY <2>1, <2>7, SeqJoin DEF DelayedMerges, ToSet, old
    <3>2. b \in ToSet(old)
      BY <2>3, <3>1
    <3> QED BY <2>2, <3>2
  <2> QED BY <2>5, <2>6, <2>7, DelayedStep DEF IInv
<1> QED BY <1>1, InvHolds, PTL DEF Spec, CancelIsFinal
=============================================================================
