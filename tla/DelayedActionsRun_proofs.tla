---------------------- MODULE DelayedActionsRun_proofs ----------------------
(***************************************************************************)
(* Proofs that the scheduler loses nothing, for any mods, any delays and    *)
(* any number of actions.  IInv, from DelayedActions_proofs, says what the  *)
(* queues and drains may hold.  Two more invariants say where it came from  *)
(* (Origins) and that every action queued by ExecuteInGameThread is         *)
(* accounted for (Accounted).  With them the scheduler implements           *)
(* ActionService.                                                           *)
(***************************************************************************)
EXTENDS DelayedActions_proofs

-----------------------------------------------------------------------------
(* Lists of actions, no two of which have one id.                           *)
IdsIn(s) == {a.id : a \in ToSet(s)}
OnceIn(s) == \A i, j \in DOMAIN s : s[i].id = s[j].id => i = j

AllIn(H) == UNION {ToSet(H[l]) : l \in Lists}
Tidy(H) ==
  /\ \A l \in Lists : OnceIn(H[l])
  /\ \A k, l \in Lists : k # l => IdsIn(H[k]) \cap IdsIn(H[l]) = {}

LEMMA AtIds ==
  ASSUME NEW s, NEW i \in DOMAIN s
  PROVE  s[i] \in ToSet(s) /\ s[i].id \in IdsIn(s)
BY DEF ToSet, IdsIn

LEMMA EmptyOnce == ToSet(<<>>) = {} /\ IdsIn(<<>>) = {} /\ OnceIn(<<>>)
BY DEF ToSet, IdsIn, OnceIn

LEMMA JoinOnce ==
  ASSUME NEW S, NEW s \in Seq(S), NEW t \in Seq(S), OnceIn(s), OnceIn(t),
         IdsIn(s) \cap IdsIn(t) = {}
  PROVE  /\ s \o t \in Seq(S) /\ OnceIn(s \o t)
         /\ ToSet(s \o t) = ToSet(s) \cup ToSet(t)
         /\ IdsIn(s \o t) = IdsIn(s) \cup IdsIn(t)
<1> DEFINE j == s \o t
<1>1. \A i \in DOMAIN j : \/ i \in DOMAIN s /\ j[i] = s[i]
                          \/ i - Len(s) \in DOMAIN t /\ j[i] = t[i - Len(s)] /\ i \in Int /\ Len(s) \in Int
  BY JoinParts
<1>2. j \in Seq(S) /\ ToSet(j) = ToSet(s) \cup ToSet(t)
  BY SeqJoin, JoinSet
<1> HIDE DEF j
<1>3. ASSUME NEW i \in DOMAIN j, NEW k \in DOMAIN j, j[i].id = j[k].id
      PROVE  i = k
  <2>1. CASE i \in DOMAIN s /\ j[i] = s[i] /\ k \in DOMAIN s /\ j[k] = s[k]
    BY <1>3, <2>1 DEF OnceIn
  <2>2. CASE i \in DOMAIN s /\ j[i] = s[i] /\ k - Len(s) \in DOMAIN t /\ j[k] = t[k - Len(s)]
    BY <1>3, <2>2, AtIds
  <2>3. CASE k \in DOMAIN s /\ j[k] = s[k] /\ i - Len(s) \in DOMAIN t /\ j[i] = t[i - Len(s)]
    BY <1>3, <2>3, AtIds
  <2>4. CASE /\ i - Len(s) \in DOMAIN t /\ j[i] = t[i - Len(s)] /\ i \in Int /\ Len(s) \in Int
             /\ k - Len(s) \in DOMAIN t /\ j[k] = t[k - Len(s)] /\ k \in Int
    <3>1. i - Len(s) = k - Len(s)
      BY <1>3, <2>4 DEF OnceIn
    <3> QED BY <2>4, <3>1
  <2> QED BY <1>1, <2>1, <2>2, <2>3, <2>4
<1>4. OnceIn(j)
  BY <1>3 DEF OnceIn
<1>5. IdsIn(j) = IdsIn(s) \cup IdsIn(t)
  BY <1>2 DEF IdsIn
<1> QED BY <1>2, <1>4, <1>5 DEF j

LEMMA AppendOnce ==
  ASSUME NEW S, NEW s \in Seq(S), NEW a \in S, OnceIn(s), a.id \notin IdsIn(s)
  PROVE  /\ Append(s, a) \in Seq(S) /\ OnceIn(Append(s, a))
         /\ ToSet(Append(s, a)) = ToSet(s) \cup {a}
         /\ IdsIn(Append(s, a)) = IdsIn(s) \cup {a.id}
<1> DEFINE t == Append(s, a)
<1>1. /\ DOMAIN t = 1..(Len(s) + 1) /\ t[Len(s) + 1] = a /\ \A i \in DOMAIN s : t[i] = s[i]
      /\ DOMAIN s = 1..Len(s) /\ Len(s) \in Nat /\ t \in Seq(S)
  BY AppendParts
<1> HIDE DEF t
<1>2. \A i \in DOMAIN t : i \in DOMAIN s \/ i = Len(s) + 1
  BY <1>1
<1>3. \A i \in DOMAIN s : i \in DOMAIN t
  BY <1>1
<1>4. Len(s) + 1 \in DOMAIN t
  BY <1>1
<1>5. OnceIn(t)
  BY <1>1, <1>2, AtIds DEF OnceIn
<1>6. ToSet(t) = ToSet(s) \cup {a}
  <2>1. \A b \in ToSet(t) : b \in ToSet(s) \cup {a}
    BY <1>1, <1>2 DEF ToSet
  <2>2. \A b \in ToSet(s) : b \in ToSet(t)
    BY <1>1, <1>3 DEF ToSet
  <2>3. a \in ToSet(t)
    BY <1>1, <1>4 DEF ToSet
  <2> QED BY <2>1, <2>2, <2>3
<1>7. IdsIn(t) = IdsIn(s) \cup {a.id}
  BY <1>6 DEF IdsIn
<1> QED BY <1>1, <1>5, <1>6, <1>7 DEF t

LEMMA TailOnce ==
  ASSUME NEW S, NEW s \in Seq(S), s # <<>>, OnceIn(s)
  PROVE  /\ Tail(s) \in Seq(S) /\ Head(s) \in S /\ OnceIn(Tail(s))
         /\ ToSet(s) = ToSet(Tail(s)) \cup {Head(s)}
         /\ IdsIn(s) = IdsIn(Tail(s)) \cup {Head(s).id}
         /\ Head(s).id \notin IdsIn(Tail(s))
<1> DEFINE t == Tail(s)
<1>1. /\ t \in Seq(S) /\ Head(s) \in S /\ Head(s) = s[1] /\ 1 \in DOMAIN s
      /\ \A i \in DOMAIN t : i \in Nat /\ i # 0 /\ i + 1 \in DOMAIN s /\ t[i] = s[i + 1]
      /\ \A i \in DOMAIN s : i = 1 \/ (i \in Nat /\ i - 1 \in DOMAIN t /\ s[i] = t[i - 1])
  OBVIOUS
<1> HIDE DEF t
<1>2. OnceIn(t)
  <2> SUFFICES ASSUME NEW i \in DOMAIN t, NEW j \in DOMAIN t, t[i].id = t[j].id PROVE i = j
    BY DEF OnceIn
  <2>1. i + 1 = j + 1
    BY <1>1 DEF OnceIn
  <2> QED BY <1>1, <2>1
<1>3. ToSet(s) = ToSet(t) \cup {Head(s)}
  <2>1. \A b \in ToSet(t) : b \in ToSet(s)
    BY <1>1 DEF ToSet
  <2>2. ASSUME NEW b \in ToSet(s) PROVE b \in ToSet(t) \cup {Head(s)}
    <3>1. PICK i \in DOMAIN s : b = s[i]
      BY <2>2 DEF ToSet
    <3>2. CASE i = 1
      BY <1>1, <3>1, <3>2
    <3>3. CASE i - 1 \in DOMAIN t /\ s[i] = t[i - 1]
      BY <3>1, <3>3, AtIds
    <3> QED BY <1>1, <3>2, <3>3
  <2>3. Head(s) \in ToSet(s)
    BY <1>1 DEF ToSet
  <2> QED BY <2>1, <2>2, <2>3
<1>4. IdsIn(s) = IdsIn(t) \cup {Head(s).id}
  BY <1>3 DEF IdsIn
<1>5. Head(s).id \notin IdsIn(t)
  <2> SUFFICES ASSUME NEW i \in DOMAIN t, t[i].id = Head(s).id PROVE FALSE
    BY DEF IdsIn, ToSet
  <2>1. i + 1 = 1
    BY <1>1 DEF OnceIn
  <2> QED BY <1>1, <2>1
<1> QED BY <1>1, <1>2, <1>3, <1>4, <1>5 DEF t

(* What a scan keeps.                                                       *)
LEMMA KeptEach ==
  ASSUME NEW S, NEW s \in Seq(S), NEW keep \in SUBSET DOMAIN s, NEW i \in keep
  PROVE  \E k \in DOMAIN Kept(s, keep) : Kept(s, keep)[k] = s[i]
<1> DEFINE t == Kept(s, keep)
           f == InOrder(keep)
<1>1. f \in [DOMAIN t -> keep] /\ \A k \in DOMAIN t : t[k] = s[f[k]]
  BY KeptFacts
<1>2. IsFiniteSet(keep) /\ keep \in SUBSET Nat
  <2>1. DOMAIN s = 1..Len(s) /\ Len(s) \in Nat
    OBVIOUS
  <2>2. IsFiniteSet(DOMAIN s)
    BY <2>1, FS_Interval
  <2> QED BY <2>1, <2>2, FS_Subset
<1>3. f \in [1..Cardinality(keep) -> keep] /\ \E k \in 1..Cardinality(keep) : f[k] = i
  BY <1>2, InOrderIsABijection
<1>4. DOMAIN t = 1..Cardinality(keep)
  BY <1>1, <1>3
<1> HIDE DEF t, f
<1>5. \E k \in DOMAIN t : t[k] = s[i]
  BY <1>1, <1>3, <1>4
<1> QED BY <1>5 DEF t

LEMMA KeptOnce ==
  ASSUME NEW S, NEW s \in Seq(S), NEW keep \in SUBSET DOMAIN s, OnceIn(s)
  PROVE  OnceIn(Kept(s, keep)) /\ ToSet(Kept(s, keep)) = {s[i] : i \in keep}
<1> DEFINE t == Kept(s, keep)
           f == InOrder(keep)
<1>1. /\ f \in [DOMAIN t -> keep] /\ \A j, k \in DOMAIN t : f[j] = f[k] => j = k
      /\ \A k \in DOMAIN t : t[k] = s[f[k]]
  BY KeptFacts
<1>2. \A i \in keep : \E k \in DOMAIN t : t[k] = s[i]
  BY KeptEach
<1> HIDE DEF t, f
<1>3. OnceIn(t)
  BY <1>1 DEF OnceIn
<1>4. \A b \in ToSet(t) : b \in {s[i] : i \in keep}
  BY <1>1 DEF ToSet
<1>5. \A b \in {s[i] : i \in keep} : b \in ToSet(t)
  BY <1>1, <1>2 DEF ToSet
<1> QED BY <1>3, <1>4, <1>5 DEF t

-----------------------------------------------------------------------------
(* What a step does to the lists: join one to another, drop the head of     *)
(* one, move it to another, add a new action, or scan them all.             *)
Elsewhere(H, G, L) == \A l \in Lists \ L : G[l] = H[l]
Joins(H, G, a, b) ==
  G[a] = H[a] \o H[b] /\ G[b] = <<>> /\ Elsewhere(H, G, {a, b})
Drops(H, G, a) ==
  H[a] # <<>> /\ G[a] = Tail(H[a]) /\ Elsewhere(H, G, {a})
Adds(H, G, b, x) ==
  G[b] = Append(H[b], x) /\ Elsewhere(H, G, {b})
MovesHead(H, G, a, b) ==
  /\ H[a] # <<>> /\ G[a] = Tail(H[a]) /\ G[b] = Append(H[b], Head(H[a]))
  /\ Elsewhere(H, G, {a, b})

LEMMA JoinTidy ==
  ASSUME NEW S, NEW H \in [Lists -> Seq(S)], NEW G, Tidy(H),
         NEW a \in Lists, NEW b \in Lists, a # b, Joins(H, G, a, b)
  PROVE  Tidy(G) /\ AllIn(G) = AllIn(H)
<1>1. /\ OnceIn(G[a]) /\ ToSet(G[a]) = ToSet(H[a]) \cup ToSet(H[b])
      /\ IdsIn(G[a]) = IdsIn(H[a]) \cup IdsIn(H[b])
  BY JoinOnce DEF Tidy, Joins
<1>2. OnceIn(G[b]) /\ ToSet(G[b]) = {} /\ IdsIn(G[b]) = {}
  BY EmptyOnce DEF Joins
<1>3. \A l \in Lists : l # a /\ l # b => G[l] = H[l]
  BY DEF Joins, Elsewhere
<1>4. \A l \in Lists : OnceIn(G[l])
  BY <1>1, <1>2, <1>3 DEF Tidy
<1>5. ASSUME NEW k \in Lists, NEW l \in Lists, k # l
      PROVE  IdsIn(G[k]) \cap IdsIn(G[l]) = {}
  <2>1. CASE k = b \/ l = b
    BY <1>2, <2>1
  <2>2. CASE k = a /\ l # b
    BY <1>1, <1>3, <1>5, <2>2 DEF Tidy
  <2>3. CASE l = a /\ k # b
    BY <1>1, <1>3, <1>5, <2>3 DEF Tidy
  <2>4. CASE k # a /\ k # b /\ l # a /\ l # b
    BY <1>3, <1>5, <2>4 DEF Tidy
  <2> QED BY <2>1, <2>2, <2>3, <2>4
<1>6. AllIn(G) = AllIn(H)
  <2>1. ASSUME NEW x \in AllIn(G) PROVE x \in AllIn(H)
    <3>1. PICK l \in Lists : x \in ToSet(G[l])
      BY <2>1 DEF AllIn
    <3> QED BY <1>1, <1>2, <1>3, <3>1 DEF AllIn
  <2>2. ASSUME NEW x \in AllIn(H) PROVE x \in AllIn(G)
    <3>1. PICK l \in Lists : x \in ToSet(H[l])
      BY <2>2 DEF AllIn
    <3> QED BY <1>1, <1>2, <1>3, <3>1 DEF AllIn
  <2> QED BY <2>1, <2>2
<1> QED BY <1>4, <1>5, <1>6 DEF Tidy

LEMMA DropTidy ==
  ASSUME NEW S, NEW H \in [Lists -> Seq(S)], NEW G, Tidy(H), NEW a \in Lists, Drops(H, G, a)
  PROVE  /\ Tidy(G) /\ AllIn(H) = AllIn(G) \cup {Head(H[a])}
         /\ \A x \in AllIn(G) : x.id # Head(H[a]).id
<1>1. /\ OnceIn(G[a]) /\ ToSet(H[a]) = ToSet(G[a]) \cup {Head(H[a])}
      /\ IdsIn(H[a]) = IdsIn(G[a]) \cup {Head(H[a]).id} /\ Head(H[a]).id \notin IdsIn(G[a])
  BY TailOnce DEF Tidy, Drops
<1>2. \A l \in Lists : l # a => G[l] = H[l]
  BY DEF Drops, Elsewhere
<1>3. \A l \in Lists : OnceIn(G[l]) /\ IdsIn(G[l]) \subseteq IdsIn(H[l])
  BY <1>1, <1>2 DEF Tidy
<1>4. Tidy(G)
  BY <1>3 DEF Tidy
<1>5. AllIn(H) = AllIn(G) \cup {Head(H[a])}
  <2>1. ASSUME NEW x \in AllIn(G) PROVE x \in AllIn(H)
    <3>1. PICK l \in Lists : x \in ToSet(G[l])
      BY <2>1 DEF AllIn
    <3> QED BY <1>1, <1>2, <3>1 DEF AllIn
  <2>2. ASSUME NEW x \in AllIn(H) PROVE x \in AllIn(G) \cup {Head(H[a])}
    <3>1. PICK l \in Lists : x \in ToSet(H[l])
      BY <2>2 DEF AllIn
    <3> QED BY <1>1, <1>2, <3>1 DEF AllIn
  <2>3. Head(H[a]) \in AllIn(H)
    BY <1>1 DEF AllIn
  <2> QED BY <2>1, <2>2, <2>3
<1>6. ASSUME NEW x \in AllIn(G) PROVE x.id # Head(H[a]).id
  <2>1. PICK l \in Lists : x \in ToSet(G[l])
    BY DEF AllIn
  <2>2. x.id \in IdsIn(G[l]) /\ Head(H[a]).id \in IdsIn(H[a])
    BY <1>1, <2>1 DEF IdsIn
  <2> QED BY <1>1, <1>2, <2>2 DEF Tidy
<1> QED BY <1>4, <1>5, <1>6

LEMMA AddTidy ==
  ASSUME NEW S, NEW H \in [Lists -> Seq(S)], NEW G, Tidy(H), NEW b \in Lists, NEW x \in S,
         Adds(H, G, b, x), \A y \in AllIn(H) : y.id # x.id
  PROVE  Tidy(G) /\ AllIn(G) = AllIn(H) \cup {x}
<1>0. \A l \in Lists : x.id \notin IdsIn(H[l])
  BY DEF IdsIn, AllIn
<1>1. /\ OnceIn(G[b]) /\ ToSet(G[b]) = ToSet(H[b]) \cup {x}
      /\ IdsIn(G[b]) = IdsIn(H[b]) \cup {x.id}
  BY <1>0, AppendOnce DEF Tidy, Adds
<1>2. \A l \in Lists : l # b => G[l] = H[l]
  BY DEF Adds, Elsewhere
<1>3. \A l \in Lists : OnceIn(G[l])
  BY <1>1, <1>2 DEF Tidy
<1>4. ASSUME NEW k \in Lists, NEW l \in Lists, k # l
      PROVE  IdsIn(G[k]) \cap IdsIn(G[l]) = {}
  <2>1. CASE k = b
    BY <1>0, <1>1, <1>2, <1>4, <2>1 DEF Tidy
  <2>2. CASE l = b
    BY <1>0, <1>1, <1>2, <1>4, <2>2 DEF Tidy
  <2>3. CASE k # b /\ l # b
    BY <1>2, <1>4, <2>3 DEF Tidy
  <2> QED BY <2>1, <2>2, <2>3
<1>5. AllIn(G) = AllIn(H) \cup {x}
  <2>1. ASSUME NEW y \in AllIn(G) PROVE y \in AllIn(H) \cup {x}
    <3>1. PICK l \in Lists : y \in ToSet(G[l])
      BY <2>1 DEF AllIn
    <3> QED BY <1>1, <1>2, <3>1 DEF AllIn
  <2>2. ASSUME NEW y \in AllIn(H) PROVE y \in AllIn(G)
    <3>1. PICK l \in Lists : y \in ToSet(H[l])
      BY <2>2 DEF AllIn
    <3> QED BY <1>1, <1>2, <3>1 DEF AllIn
  <2>3. x \in AllIn(G)
    BY <1>1 DEF AllIn
  <2> QED BY <2>1, <2>2, <2>3
<1> QED BY <1>3, <1>4, <1>5 DEF Tidy

LEMMA MoveTidy ==
  ASSUME NEW S, NEW H \in [Lists -> Seq(S)], NEW G, Tidy(H), NEW a \in Lists, NEW b \in Lists,
         a # b, MovesHead(H, G, a, b)
  PROVE  Tidy(G) /\ AllIn(G) = AllIn(H)
<1> DEFINE M == [H EXCEPT ![a] = Tail(H[a])]
           x == Head(H[a])
<1>1. H[a] # <<>> /\ H[a] \in Seq(S)
  BY DEF MovesHead
<1>2. Tail(H[a]) \in Seq(S) /\ x \in S
  BY <1>1, TailIn
<1>3. M \in [Lists -> Seq(S)] /\ M[a] = Tail(H[a]) /\ \A l \in Lists : l # a => M[l] = H[l]
  BY <1>2
<1>4. \A l \in Lists : l # a /\ l # b => G[l] = H[l]
  BY DEF MovesHead, Elsewhere
<1> HIDE DEF M
<1>5. Drops(H, M, a)
  BY <1>1, <1>3 DEF Drops, Elsewhere
<1>6. Tidy(M) /\ AllIn(H) = AllIn(M) \cup {x} /\ \A y \in AllIn(M) : y.id # x.id
  BY <1>5, DropTidy
<1>7. G[a] = M[a] /\ G[b] = Append(M[b], x)
  BY <1>3 DEF MovesHead
<1>8. Adds(M, G, b, x)
  BY <1>3, <1>4, <1>7 DEF Adds, Elsewhere
<1> HIDE DEF x
<1>9. Tidy(G) /\ AllIn(G) = AllIn(M) \cup {x}
  BY <1>2, <1>3, <1>6, <1>8, AddTidy
<1> QED BY <1>6, <1>9

LEMMA ScanTidy ==
  ASSUME NEW H, NEW G, Tidy(H),
         \A l \in Lists : OnceIn(G[l]) /\ ToSet(G[l]) \subseteq ToSet(H[l])
  PROVE  Tidy(G)
<1>1. \A l \in Lists : IdsIn(G[l]) \subseteq IdsIn(H[l])
  BY DEF IdsIn
<1> QED BY <1>1 DEF Tidy

-----------------------------------------------------------------------------
(* The lists that hold the simple actions.                                  *)
OfDrainsIn(drains, Part(_)) ==
  [k \in 1..MaxNesting |-> IF k \in DOMAIN drains THEN Part(drains[k]) ELSE <<>>]
PartsOf(main, pending, drains) ==
  [main |-> main, pending |-> pending, todo |-> OfDrainsIn(drains, StillToRun),
   deferred |-> OfDrainsIn(drains, LAMBDA d : d.deferred)]
HeldOf(main, pending, drains) == [l \in Lists |-> PartsOf(main, pending, drains)[l[1]][l[2]]]

LEMMA HeldNow ==
  /\ Held = HeldOf(simple, simplePending, stack)
  /\ Held' = HeldOf(simple', simplePending', stack')
BY DEF Held, HeldOf, PartsOf, OfDrains, OfDrainsIn

LEMMA ListsAre ==
  /\ \A q \in Methods : <<"main", q>> \in Lists /\ <<"pending", q>> \in Lists
  /\ \A k \in 1..MaxNesting : <<"todo", k>> \in Lists /\ <<"deferred", k>> \in Lists
  /\ \A l \in Lists : \/ \E q \in Methods : l = <<"main", q>> \/ l = <<"pending", q>>
                      \/ \E k \in 1..MaxNesting : l = <<"todo", k>> \/ l = <<"deferred", k>>
BY DEF Lists

LEMMA HeldParts ==
  ASSUME NEW main, NEW pending, NEW drains
  PROVE  LET H == HeldOf(main, pending, drains)
         IN /\ DOMAIN H = Lists
            /\ \A q \in Methods : H[<<"main", q>>] = main[q] /\ H[<<"pending", q>>] = pending[q]
            /\ \A k \in 1..MaxNesting :
                 /\ k \notin DOMAIN drains => H[<<"todo", k>>] = <<>> /\ H[<<"deferred", k>>] = <<>>
                 /\ k \in DOMAIN drains =>
                      /\ H[<<"todo", k>>] = StillToRun(drains[k])
                      /\ H[<<"deferred", k>>] = drains[k].deferred
<1> DEFINE H == HeldOf(main, pending, drains)
           P == PartsOf(main, pending, drains)
<1>1. \A a, b : <<a, b>> \in Lists => H[<<a, b>>] = P[a][b]
  BY DEF HeldOf
<1>2. /\ P["main"] = main /\ P["pending"] = pending
      /\ P["todo"] = OfDrainsIn(drains, StillToRun)
      /\ P["deferred"] = OfDrainsIn(drains, LAMBDA d : d.deferred)
  BY DEF PartsOf
<1>3. \A k \in 1..MaxNesting :
        /\ k \notin DOMAIN drains => P["todo"][k] = <<>> /\ P["deferred"][k] = <<>>
        /\ k \in DOMAIN drains =>
             P["todo"][k] = StillToRun(drains[k]) /\ P["deferred"][k] = drains[k].deferred
  BY <1>2 DEF OfDrainsIn
<1>4. DOMAIN H = Lists
  BY DEF HeldOf
<1> HIDE DEF H, P
<1>5. \A q \in Methods : H[<<"main", q>>] = main[q] /\ H[<<"pending", q>>] = pending[q]
  BY <1>1, <1>2, ListsAre
<1>6. \A k \in 1..MaxNesting :
        H[<<"todo", k>>] = P["todo"][k] /\ H[<<"deferred", k>>] = P["deferred"][k]
  BY <1>1, ListsAre
<1> QED BY <1>3, <1>4, <1>5, <1>6 DEF H

LEMMA StillToRunIs ==
  ASSUME NEW d
  PROVE  /\ d.pc = "runSimple" => StillToRun(d) = d.todo
         /\ d.pc = "inSimple" => StillToRun(d) = Tail(d.todo)
         /\ d.pc \notin RunsSimple => StillToRun(d) = <<>>
BY DEF StillToRun, RunsSimple

(* What a drain holds is of mods whose actions are not being erased.         *)
LEMMA DrainHolds ==
  ASSUME Shape, NEW k \in DOMAIN stack
  PROVE  StillToRun(stack[k]) \in Seq(SimpleIn(Undrained)) /\ stack[k].deferred \in Seq(SimpleIn(Undrained))
<1>1. stack[k] \in DrainsIn
  BY SeqParts DEF Shape
<1> DEFINE d == stack[k]
<1>2. /\ d.pc \in RunsSimple => d.todo \in Seq(SimpleIn(Undrained))
      /\ d.deferred \in Seq(SimpleIn(Undrained)) /\ (Calling(d) => d.todo # <<>>)
  BY <1>1, DrainSets
<1> HIDE DEF d
<1>3. d.pc = "inSimple" => Tail(d.todo) \in Seq(SimpleIn(Undrained))
  BY <1>2, TailIn DEF Calling, RunsSimple
<1>4. StillToRun(d) \in Seq(SimpleIn(Undrained))
  <2>1. CASE d.pc = "runSimple"
    BY <1>2, <2>1, StillToRunIs DEF RunsSimple
  <2>2. CASE d.pc = "inSimple"
    BY <1>3, <2>2, StillToRunIs
  <2>3. CASE d.pc \notin RunsSimple
    <3>1. <<>> \in Seq(SimpleIn(Undrained))
      OBVIOUS
    <3> QED BY <2>3, <3>1, StillToRunIs
  <2> QED BY <2>1, <2>2, <2>3 DEF RunsSimple
<1> QED BY <1>2, <1>4 DEF d

LEMMA HeldTyped ==
  ASSUME Shape
  PROVE  Held \in [Lists -> Seq(SimpleIn(Mods))]
<1> DEFINE H == HeldOf(simple, simplePending, stack)
<1>1. /\ \A s : s \in Seq(SimpleIn(Present)) => s \in Seq(SimpleIn(Mods))
      /\ \A s : s \in Seq(SimpleIn(Undrained)) => s \in Seq(SimpleIn(Mods))
  <2>1. SimpleIn(Present) \subseteq SimpleIn(Mods) /\ SimpleIn(Undrained) \subseteq SimpleIn(Mods)
    BY DEF SimpleIn, Present, Undrained
  <2> QED BY <2>1, SeqWider
<1>2. /\ DOMAIN H = Lists
      /\ \A q \in Methods : H[<<"main", q>>] = simple[q] /\ H[<<"pending", q>>] = simplePending[q]
      /\ \A k \in 1..MaxNesting :
           /\ k \notin DOMAIN stack => H[<<"todo", k>>] = <<>> /\ H[<<"deferred", k>>] = <<>>
           /\ k \in DOMAIN stack =>
                H[<<"todo", k>>] = StillToRun(stack[k]) /\ H[<<"deferred", k>>] = stack[k].deferred
  BY HeldParts
<1>3. H = [l \in Lists |-> H[l]]
  BY DEF HeldOf
<1> HIDE DEF H
<1>4. \A q \in Methods : simple[q] \in Seq(SimpleIn(Mods)) /\ simplePending[q] \in Seq(SimpleIn(Mods))
  BY <1>1 DEF Shape
<1>5. \A k \in DOMAIN stack :
        StillToRun(stack[k]) \in Seq(SimpleIn(Mods)) /\ stack[k].deferred \in Seq(SimpleIn(Mods))
  BY <1>1, DrainHolds
<1>6. ASSUME NEW l \in Lists PROVE H[l] \in Seq(SimpleIn(Mods))
  <2>1. CASE \E q \in Methods : l = <<"main", q>> \/ l = <<"pending", q>>
    BY <1>2, <1>4, <2>1
  <2>2. CASE \E k \in 1..MaxNesting : l = <<"todo", k>> \/ l = <<"deferred", k>>
    <3>1. <<>> \in Seq(SimpleIn(Mods))
      OBVIOUS
    <3> QED BY <1>2, <1>5, <2>2, <3>1
  <2> QED BY <2>1, <2>2, ListsAre
<1>7. H \in [Lists -> Seq(SimpleIn(Mods))]
  BY <1>3, <1>6
<1> QED BY <1>7, HeldNow DEF H

(* Two states of the lists that agree on the queues and on all drains but   *)
(* the innermost.                                                           *)
LEMMA HeldSame ==
  ASSUME UNCHANGED <<simple, simplePending, stack>>
  PROVE  Held' = Held
BY HeldNow

LEMMA HeldAtTop ==
  ASSUME Shape, Nesting, stack # <<>>, NEW d, SetTop(d)
  PROVE  LET n == Len(stack)
         IN /\ n \in 1..MaxNesting
            /\ Held[<<"todo", n>>] = StillToRun(Top) /\ Held[<<"deferred", n>>] = Top.deferred
            /\ Held'[<<"todo", n>>] = StillToRun(d) /\ Held'[<<"deferred", n>>] = d.deferred
            /\ \A k \in 1..MaxNesting : k # n =>
                 /\ Held'[<<"todo", k>>] = Held[<<"todo", k>>]
                 /\ Held'[<<"deferred", k>>] = Held[<<"deferred", k>>]
<1> DEFINE n == Len(stack)
<1>1. /\ n \in Nat \ {0} /\ Len(stack') = n /\ stack'[n] = d /\ Top = stack[n]
      /\ \A k \in 1..n : k # n => stack'[k] = stack[k]
  BY TopNow
<1>2. n <= MaxNesting
  BY DEF Nesting
<1>3. n \in 1..MaxNesting
  BY <1>1, <1>2, BoundsAssumption
<1>4. DOMAIN stack = 1..n /\ DOMAIN stack' = 1..n
  <2>1. stack \in Seq(DrainsIn) /\ stack' = [stack EXCEPT ![n] = d]
    BY DEF Shape, SetTop
  <2> QED BY <2>1, SeqParts
<1> HIDE DEF n
<1>5. n \in DOMAIN stack /\ n \in DOMAIN stack'
  BY <1>1, <1>4
<1>6. /\ Held[<<"todo", n>>] = StillToRun(stack[n]) /\ Held[<<"deferred", n>>] = stack[n].deferred
      /\ Held'[<<"todo", n>>] = StillToRun(stack'[n]) /\ Held'[<<"deferred", n>>] = stack'[n].deferred
  BY <1>3, <1>5, HeldParts, HeldNow
<1>7. ASSUME NEW k \in 1..MaxNesting, k # n
      PROVE  /\ Held'[<<"todo", k>>] = Held[<<"todo", k>>]
             /\ Held'[<<"deferred", k>>] = Held[<<"deferred", k>>]
  <2>1. CASE k \in DOMAIN stack
    <3>1. k \in DOMAIN stack' /\ stack'[k] = stack[k]
      BY <1>1, <1>4, <1>7, <2>1
    <3> QED BY <2>1, <3>1, HeldParts, HeldNow
  <2>2. CASE k \notin DOMAIN stack
    <3>1. k \notin DOMAIN stack'
      BY <1>4, <2>2
    <3> QED BY <2>2, <3>1, HeldParts, HeldNow
  <2> QED BY <2>1, <2>2
<1> QED BY <1>1, <1>3, <1>6, <1>7 DEF n

LEMMA HeldQueues ==
  ASSUME NEW q \in Methods
  PROVE  /\ Held[<<"main", q>>] = simple[q] /\ Held[<<"pending", q>>] = simplePending[q]
         /\ Held'[<<"main", q>>] = simple'[q] /\ Held'[<<"pending", q>>] = simplePending'[q]
BY HeldParts, HeldNow

LEMMA HeldDrains ==
  ASSUME UNCHANGED stack, NEW k \in 1..MaxNesting
  PROVE  /\ Held'[<<"todo", k>>] = Held[<<"todo", k>>]
         /\ Held'[<<"deferred", k>>] = Held[<<"deferred", k>>]
<1>1. CASE k \in DOMAIN stack
  <2>1. k \in DOMAIN stack' /\ stack'[k] = stack[k]
    BY <1>1
  <2> QED BY <1>1, <2>1, HeldParts, HeldNow
<1>2. CASE k \notin DOMAIN stack
  <2>1. k \notin DOMAIN stack'
    BY <1>2
  <2> QED BY <1>2, <2>1, HeldParts, HeldNow
<1> QED BY <1>1, <1>2

-----------------------------------------------------------------------------
(* What was created stays created, and a mod that unloads goes on unloading. *)
BornGrows == \A id \in Known : id \in Known' /\ born'[id] = born[id]
UnloadGrows == \A m \in Mods : Unloading(m) => Unloading(m)'

LEMMA AppendBorn ==
  ASSUME Shape, NEW b \in [mod : Mods, kind : Kinds], born' = Append(born, b)
  PROVE  BornGrows /\ Known' = Known \cup {NewId} /\ NewId \notin Known /\ born'[NewId] = b
<1>1. /\ Known = 1..Len(born) /\ Len(born) \in Nat /\ NewId = Len(born) + 1
      /\ Known' = 1..(Len(born) + 1) /\ born'[Len(born) + 1] = b
      /\ \A id \in Known : born'[id] = born[id]
  <2>1. born \in Seq([mod : Mods, kind : Kinds])
    BY DEF Shape
  <2> QED BY <2>1 DEF Known, NewId
<1> QED BY <1>1 DEF BornGrows

LEMMA SameBorn ==
  ASSUME UNCHANGED born
  PROVE  BornGrows /\ Known' = Known
BY DEF BornGrows, Known

LEMMA GainsBorn ==
  ASSUME Shape, NEW a \in DelayedAction,
         born' = Append(born, [mod |-> a.mod, kind |-> IF a.looping THEN "loop" ELSE "once"])
  PROVE  /\ BornGrows /\ Known' = Known \cup {NewId} /\ NewId \notin Known
         /\ born'[NewId].mod = a.mod /\ born'[NewId].kind = IF a.looping THEN "loop" ELSE "once"
<1> DEFINE b == [mod |-> a.mod, kind |-> IF a.looping THEN "loop" ELSE "once"]
<1>1. b \in [mod : Mods, kind : Kinds] /\ b.mod = a.mod /\ b.kind = IF a.looping THEN "loop" ELSE "once"
  BY DEF DelayedAction, Kinds
<1> HIDE DEF b
<1>2. born' = Append(born, b)
  BY DEF b
<1> QED BY <1>1, <1>2, AppendBorn

LEMMA QueuesBorn ==
  ASSUME Shape, NEW m \in Mods, NEW q \in Methods, ExecuteInGameThread(m, q)
  PROVE  /\ BornGrows /\ Known' = Known \cup {NewId} /\ NewId \notin Known
         /\ born'[NewId].mod = m /\ born'[NewId].kind = "simple"
<1> DEFINE b == [mod |-> m, kind |-> "simple"]
<1>1. b \in [mod : Mods, kind : Kinds] /\ b.mod = m /\ b.kind = "simple"
  BY DEF Kinds
<1>2. born' = Append(born, b)
  BY DEF ExecuteInGameThread
<1> HIDE DEF b
<1> QED BY <1>1, <1>2, AppendBorn

LEMMA OtherBorn ==
  ASSUME OtherStep, \A m \in Mods : \A q \in Methods : ~ExecuteInGameThread(m, q)
  PROVE  UNCHANGED born
BY IdleUnchanged DEF OtherStep, EnterDrain, SimpleStep, ReadyStep, MergePending, ConstructElsewhere,
   MakeActionHandle, ReadCounter, WriteCounter, UnloadStep, UnloadGoesOn, TakeSimple, SkipSimple,
   DeferSimple, CallSimple, SimpleReturns, PutBackDeferred, TakeReady, SkipReady, CallReady,
   ReadyReturns, RetireReady, EndUnload, BeginUnload, DrainsSettled, EraseActions, history

LEMMA BornStep ==
  ASSUME Shape, Bounded, [Next]_vars
  PROVE  BornGrows
<1>1. CASE UNCHANGED vars
  BY <1>1, SameBorn DEF vars, history
<1>2. CASE Next
  <2>1. CASE RevisingStep
    BY <2>1, SameBorn DEF RevisingStep, BothRevised, RestOfControl
  <2>2. CASE GainingStep
    BY <2>2, GainsBorn DEF GainingStep, CreationFacts, DelayedGains
  <2>3. CASE OtherStep
    BY <2>3, OtherBorn, SameBorn, QueuesBorn
  <2> QED BY <1>2, <2>1, <2>2, <2>3, NextIs
<1> QED BY <1>1, <1>2

LEMMA UnloadStepGrows ==
  ASSUME Shape, Bounded, [Next]_vars
  PROVE  UnloadGrows
<1>1. CASE UNCHANGED unload
  BY <1>1 DEF UnloadGrows, Unloading
<1>2. CASE UNCHANGED vars
  BY <1>1, <1>2 DEF vars, env
<1>3. CASE Next
  <2>1. CASE RevisingStep
    BY <1>1, <2>1 DEF RevisingStep, BothRevised, RestOfControl, env
  <2>2. CASE GainingStep
    BY <1>1, <2>2 DEF GainingStep, CreationFacts, env
  <2>3. CASE UnloadStep
    <3>1. CASE EndUnload
      BY <1>1, <3>1 DEF EndUnload
    <3>2. ASSUME NEW m \in Mods, BeginUnload(m) \/ DrainsSettled(m) \/ EraseActions(m)
          PROVE  UnloadGrows
      <4>1. PICK u \in {"waiting", "erasing", "gone"} : unload' = [unload EXCEPT ![m] = u]
        BY <3>2 DEF BeginUnload, DrainsSettled, EraseActions
      <4>2. unload \in [Mods -> {"loaded", "waiting", "erasing", "gone"}] /\ u # "loaded"
        BY DEF Shape
      <4> QED BY <4>1, <4>2 DEF UnloadGrows, Unloading
    <3> QED BY <2>3, <3>1, <3>2 DEF UnloadStep, UnloadGoesOn
  <2>4. CASE OtherStep /\ ~UnloadStep
    BY <1>1, <2>4, IdleUnchanged DEF OtherStep, EnterDrain, SimpleStep, ReadyStep, MergePending,
       ConstructElsewhere, MakeActionHandle, ReadCounter, WriteCounter, ExecuteInGameThread,
       TakeSimple, SkipSimple, DeferSimple, CallSimple, SimpleReturns, PutBackDeferred, TakeReady,
       SkipReady, CallReady, ReadyReturns, RetireReady, env
  <2> QED BY <1>3, <2>1, <2>2, <2>3, <2>4, NextIs
<1> QED BY <1>2, <1>3

-----------------------------------------------------------------------------
(* Every queued action is one that was created as what it is, for its mod.  *)
IsOrigin(id, m, kinds) == born[id].mod = m /\ born[id].kind \in kinds
KindOf(a) == IF a.looping THEN "loop" ELSE "once"
Timers == {"once", "loop"}

DelayedOrigins ==
  \A a \in ToSet(delayed) \cup ToSet(delayedPending) : IsOrigin(a.id, a.mod, {KindOf(a)})
GoodReady(s) == \A e \in ToSet(s) : IsOrigin(e.id, e.mod, Timers)
DrainOrigins ==
  \A k \in DOMAIN stack :
    GoodReady(stack[k].ready) /\ (stack[k].pc \in RunsDelayed => GoodReady(stack[k].todo))
Origins == DelayedOrigins /\ DrainOrigins

LEMMA OriginStays ==
  ASSUME BornGrows, NEW id \in Known, NEW m, NEW kinds, IsOrigin(id, m, kinds)
  PROVE  IsOrigin(id, m, kinds)'
BY DEF BornGrows, IsOrigin

LEMMA DelayedKnown ==
  ASSUME Shape, NEW a \in ToSet(delayed) \cup ToSet(delayedPending)
  PROVE  a \in DelayedIn /\ a.id \in Known
<1>1. \A s \in Seq(DelayedIn) : \A b \in ToSet(s) : b \in DelayedIn
  BY SeqParts DEF ToSet
<1>2. a \in DelayedIn
  BY <1>1 DEF Shape
<1> QED BY <1>2 DEF DelayedIn

LEMMA DelayedOriginsStep ==
  ASSUME Shape, Bounded, DelayedOrigins, [Next]_vars
  PROVE  DelayedOrigins'
<1>1. delayed \in Seq(DelayedIn) /\ delayedPending \in Seq(DelayedIn)
  BY DEF Shape
<1>2. BornGrows
  BY BornStep
<1>3. ASSUME NEW a \in ToSet(delayed) \cup ToSet(delayedPending), NEW b, Revises(a, b)
      PROVE  IsOrigin(b.id, b.mod, {KindOf(b)})'
  <2>1. a.id \in Known /\ IsOrigin(a.id, a.mod, {KindOf(a)})
    BY DelayedKnown DEF DelayedOrigins
  <2>2. b.id = a.id /\ b.mod = a.mod /\ KindOf(b) = KindOf(a)
    BY <1>3 DEF Revises, KindOf
  <2> QED BY <1>2, <2>1, <2>2, OriginStays
<1>4. ASSUME NEW a \in ToSet(delayed) \cup ToSet(delayedPending)
      PROVE  IsOrigin(a.id, a.mod, {KindOf(a)})'
  BY <1>2, DelayedKnown, OriginStays DEF DelayedOrigins
<1>5. CASE BothDescend
  <2> SUFFICES ASSUME NEW b \in ToSet(delayed') \cup ToSet(delayedPending')
               PROVE  IsOrigin(b.id, b.mod, {KindOf(b)})'
    BY DEF DelayedOrigins, KindOf
  <2>1. \E a \in ToSet(delayed) \cup ToSet(delayedPending) : Revises(a, b)
    BY <1>5, DescendsFrom DEF BothDescend
  <2> QED BY <1>3, <2>1
<1>6. CASE DelayedGains
  <2>1. PICK n \in DelayedAction :
          /\ n.id = NewId
          /\ born' = Append(born, [mod |-> n.mod, kind |-> IF n.looping THEN "loop" ELSE "once"])
          /\ \/ delayed' = Append(delayed, n) /\ UNCHANGED delayedPending
             \/ delayedPending' = Append(delayedPending, n) /\ UNCHANGED delayed
    BY <1>6 DEF DelayedGains
  <2>2. IsOrigin(n.id, n.mod, {KindOf(n)})'
    BY <2>1, GainsBorn DEF IsOrigin, KindOf
  <2>3. delayed \in Seq(DelayedAction) /\ delayedPending \in Seq(DelayedAction)
    BY <1>1, SeqWider DEF DelayedIn
  <2>4. \A b \in ToSet(delayed') \cup ToSet(delayedPending') :
          b \in ToSet(delayed) \cup ToSet(delayedPending) \/ b = n
    BY <2>1, <2>3, AppendSet
  <2> QED BY <1>4, <2>2, <2>4 DEF DelayedOrigins, KindOf
<1>7. CASE DelayedMerges
  <2>1. ToSet(delayed') \cup ToSet(delayedPending') = ToSet(delayed) \cup ToSet(delayedPending)
    BY <1>1, <1>7, JoinSet, EmptyOnce DEF DelayedMerges
  <2> QED BY <1>4, <2>1 DEF DelayedOrigins, KindOf
<1> QED BY <1>5, <1>6, <1>7, DelayedStep

LEMMA ReadyKnown ==
  ASSUME Shape, NEW s \in Seq(ReadyIn), NEW e \in ToSet(s)
  PROVE  e.id \in Known
<1>1. e \in ReadyIn
  BY SeqParts DEF ToSet
<1> QED BY <1>1 DEF ReadyIn

LEMMA DrainOriginsStay ==
  ASSUME Shape, DrainOrigins, BornGrows, UNCHANGED stack
  PROVE  DrainOrigins'
<1> SUFFICES ASSUME NEW k \in DOMAIN stack
             PROVE  /\ \A e \in ToSet(stack[k].ready) : IsOrigin(e.id, e.mod, Timers)'
                    /\ stack[k].pc \in RunsDelayed =>
                         \A e \in ToSet(stack[k].todo) : IsOrigin(e.id, e.mod, Timers)'
  BY DEF DrainOrigins, GoodReady
<1>1. /\ stack[k].ready \in Seq(ReadyIn)
      /\ stack[k].pc \in RunsDelayed => stack[k].todo \in Seq(ReadyIn)
  BY SeqParts, DrainSets DEF Shape
<1>2. /\ \A e \in ToSet(stack[k].ready) : e.id \in Known /\ IsOrigin(e.id, e.mod, Timers)
      /\ stack[k].pc \in RunsDelayed =>
           \A e \in ToSet(stack[k].todo) : e.id \in Known /\ IsOrigin(e.id, e.mod, Timers)
  BY <1>1, ReadyKnown DEF DrainOrigins, GoodReady
<1> QED BY <1>2, OriginStays

LEMMA TopOrigins ==
  ASSUME Shape, DrainOrigins, stack # <<>>, NEW d, SetTop(d), UNCHANGED born,
         GoodReady(d.ready), d.pc \in RunsDelayed => GoodReady(d.todo)
  PROVE  DrainOrigins'
<1>1. /\ Len(stack) \in Nat \ {0} /\ stack'[Len(stack)] = d
      /\ \A k \in 1..Len(stack) : k # Len(stack) => stack'[k] = stack[k]
  BY TopNow
<1>2. DOMAIN stack = 1..Len(stack) /\ DOMAIN stack' = 1..Len(stack)
  <2>1. stack \in Seq(DrainsIn) /\ stack' = [stack EXCEPT ![Len(stack)] = d]
    BY DEF Shape, SetTop
  <2> QED BY <2>1, SeqParts
<1>3. ASSUME NEW k \in DOMAIN stack'
      PROVE  GoodReady(stack'[k].ready) /\ (stack'[k].pc \in RunsDelayed => GoodReady(stack'[k].todo))
  BY <1>1, <1>2 DEF DrainOrigins
<1> QED BY <1>3 DEF DrainOrigins, GoodReady, IsOrigin

LEMMA TailGood ==
  ASSUME NEW s \in Seq(ReadyIn), s # <<>>, GoodReady(s)
  PROVE  GoodReady(Tail(s)) /\ IsOrigin(Head(s).id, Head(s).mod, Timers)
<1>1. \A e \in ToSet(Tail(s)) : e \in ToSet(s)
  <2>1. \A i \in DOMAIN Tail(s) : i + 1 \in DOMAIN s /\ Tail(s)[i] = s[i + 1]
    OBVIOUS
  <2> QED BY <2>1 DEF ToSet
<1>2. Head(s) \in ToSet(s)
  <2>1. Head(s) = s[1] /\ 1 \in DOMAIN s
    OBVIOUS
  <2> QED BY <2>1, AtIds
<1> QED BY <1>1, <1>2 DEF GoodReady

(* What At(pc) says of where the innermost drain's work came from.          *)
LEMMA TopGood ==
  ASSUME Shape, DrainOrigins, stack # <<>>
  PROVE  GoodReady(Top.ready) /\ (Top.pc \in RunsDelayed => GoodReady(Top.todo))
BY TopIn DEF Top, Last, DrainOrigins

LEMMA SimpleStepOrigins ==
  ASSUME Shape, DrainOrigins, SimpleStep
  PROVE  DrainOrigins'
<1> USE DEF RunsDelayed
<1>1. stack # <<>> /\ Top \in DrainsIn /\ GoodReady(Top.ready) /\ UNCHANGED born
  BY TopIn, TopGood DEF SimpleStep, TakeSimple, SkipSimple, DeferSimple, CallSimple, SimpleReturns,
     PutBackDeferred, At, history
<1>2. CASE TakeSimple
  <2> DEFINE d == [Top EXCEPT !.pc = "runSimple", !.todo = simple[Top.method]]
  <2>1. d.pc \notin RunsDelayed /\ d.ready = Top.ready
    BY <1>1, DrainSets
  <2>2. SetTop(d)
    BY <1>2 DEF TakeSimple
  <2> HIDE DEF d
  <2> QED BY <1>1, <2>1, <2>2, TopOrigins
<1>3. CASE SkipSimple
  <2> DEFINE d == [Top EXCEPT !.todo = Tail(Top.todo)]
  <2>1. d.pc \notin RunsDelayed /\ d.ready = Top.ready /\ SetTop(d)
    BY <1>1, <1>3, DrainSets DEF SkipSimple, At
  <2> HIDE DEF d
  <2> QED BY <1>1, <2>1, TopOrigins
<1>4. CASE DeferSimple
  <2> DEFINE d == [Top EXCEPT !.todo = Tail(Top.todo), !.deferred = Append(Top.deferred, Head(Top.todo))]
  <2>1. d.pc \notin RunsDelayed /\ d.ready = Top.ready
    BY <1>1, <1>4, DrainSets DEF DeferSimple, At
  <2>2. SetTop(d)
    BY <1>4 DEF DeferSimple
  <2> HIDE DEF d
  <2> QED BY <1>1, <2>1, <2>2, TopOrigins
<1>5. CASE CallSimple
  <2> DEFINE d == [Top EXCEPT !.pc = "inSimple"]
  <2>1. d.pc \notin RunsDelayed /\ d.ready = Top.ready /\ SetTop(d)
    BY <1>1, <1>5, DrainSets DEF CallSimple
  <2> HIDE DEF d
  <2> QED BY <1>1, <2>1, TopOrigins
<1>6. CASE SimpleReturns
  <2> DEFINE d == [Top EXCEPT !.pc = "runSimple", !.todo = Tail(Top.todo)]
  <2>1. d.pc \notin RunsDelayed /\ d.ready = Top.ready /\ SetTop(d)
    BY <1>1, <1>6, DrainSets DEF SimpleReturns
  <2> HIDE DEF d
  <2> QED BY <1>1, <2>1, TopOrigins
<1>7. CASE PutBackDeferred
  <2> DEFINE d == [Top EXCEPT !.pc = "delayed", !.deferred = <<>>]
  <2>1. d.pc \notin RunsDelayed /\ d.ready = Top.ready /\ SetTop(d)
    BY <1>1, <1>7, DrainSets DEF PutBackDeferred
  <2> HIDE DEF d
  <2> QED BY <1>1, <2>1, TopOrigins
<1> QED BY <1>2, <1>3, <1>4, <1>5, <1>6, <1>7 DEF SimpleStep

LEMMA CollectedGood ==
  ASSUME Shape, DelayedOrigins, NEW due \in SUBSET DOMAIN delayed
  PROVE  LET ready == [k \in DOMAIN InOrder(due) |->
                         LET i == InOrder(due)[k]
                         IN [index |-> i, id |-> delayed[i].id, mod |-> delayed[i].mod]]
         IN /\ \A k \in DOMAIN InOrder(due) : InOrder(due)[k] \in due
            /\ \A i \in due : \E k \in DOMAIN ready : ready[k].index = i /\ ready[k].id = delayed[i].id
            /\ GoodReady(ready)
<1> DEFINE ready == [k \in DOMAIN InOrder(due) |->
                       LET i == InOrder(due)[k]
                       IN [index |-> i, id |-> delayed[i].id, mod |-> delayed[i].mod]]
<1>1. Len(delayed) \in Nat /\ DOMAIN delayed = 1..Len(delayed)
  BY SeqParts DEF Shape
<1>2. IsFiniteSet(due) /\ due \in SUBSET Nat
  <2>1. IsFiniteSet(DOMAIN delayed)
    BY <1>1, FS_Interval
  <2> QED BY <1>1, <2>1, FS_Subset
<1>3. /\ InOrder(due) \in [1..Cardinality(due) -> due]
      /\ \A i \in due : \E k \in 1..Cardinality(due) : InOrder(due)[k] = i
  BY <1>2, InOrderIsABijection
<1>4. DOMAIN InOrder(due) = 1..Cardinality(due)
  BY <1>3
<1>5. \A i \in due : delayed[i] \in ToSet(delayed)
  BY AtIds
<1>6. \A k \in DOMAIN ready : /\ InOrder(due)[k] \in due
                              /\ ready[k].index = InOrder(due)[k]
                              /\ ready[k].id = delayed[InOrder(due)[k]].id
                              /\ ready[k].mod = delayed[InOrder(due)[k]].mod
  BY <1>3, <1>4
<1>7. DOMAIN ready = DOMAIN InOrder(due)
  OBVIOUS
<1> HIDE DEF ready
<1>8. \A e \in ToSet(ready) : \E i \in due : e.id = delayed[i].id /\ e.mod = delayed[i].mod
  BY <1>6 DEF ToSet
<1>9. GoodReady(ready)
  <2> SUFFICES ASSUME NEW e \in ToSet(ready) PROVE IsOrigin(e.id, e.mod, Timers)
    BY DEF GoodReady
  <2>1. PICK i \in due : e.id = delayed[i].id /\ e.mod = delayed[i].mod
    BY <1>8
  <2>2. IsOrigin(delayed[i].id, delayed[i].mod, {KindOf(delayed[i])})
    BY <1>5 DEF DelayedOrigins
  <2> QED BY <2>1, <2>2 DEF IsOrigin, KindOf, Timers
<1> QED BY <1>3, <1>4, <1>6, <1>7, <1>9 DEF ready

LEMMA ReadyStepOrigins ==
  ASSUME Shape, DelayedOrigins, DrainOrigins, ReadyStep
  PROVE  DrainOrigins'
<1>1. /\ stack # <<>> /\ Top \in DrainsIn /\ UNCHANGED born /\ GoodReady(Top.ready)
      /\ Top.pc \in RunsDelayed => GoodReady(Top.todo)
  BY TopIn, TopGood DEF ReadyStep, TakeReady, SkipReady, CallReady, ReadyReturns, RetireReady,
     At, history
<1>2. GoodReady(<<>>)
  BY EmptyOnce DEF GoodReady
<1>3. CASE TakeReady
  <2> DEFINE due == {i \in DOMAIN delayed : IsDue(delayed[i], Top.method)}
             ready == [k \in DOMAIN InOrder(due) |->
                         LET i == InOrder(due)[k]
                         IN [index |-> i, id |-> delayed[i].id, mod |-> delayed[i].mod]]
             d == [Top EXCEPT !.pc = "runDelayed", !.todo = ready, !.ready = ready]
  <2>1. due \in SUBSET DOMAIN delayed
    OBVIOUS
  <2>2. SetTop(d)
    BY <1>3 DEF TakeReady
  <2> HIDE DEF due
  <2>3. GoodReady(ready)
    BY <2>1, CollectedGood
  <2> HIDE DEF ready
  <2>4. GoodReady(d.ready) /\ (d.pc \in RunsDelayed => GoodReady(d.todo))
    BY <1>1, <2>3, DrainSets DEF RunsDelayed
  <2> HIDE DEF d
  <2> QED BY <1>1, <2>2, <2>4, TopOrigins
<1>4. CASE SkipReady
  <2>1. Top.pc = "runDelayed" /\ Top.todo \in Seq(ReadyIn) /\ Top.todo # <<>>
    BY <1>4, AtTop DEF SkipReady, RunsDelayed
  <2> DEFINE d == [Top EXCEPT !.todo = Tail(Top.todo)]
  <2>2. d.ready = Top.ready /\ d.todo = Tail(Top.todo) /\ SetTop(d)
    BY <1>1, <1>4, DrainSets DEF SkipReady
  <2>3. GoodReady(Tail(Top.todo))
    BY <1>1, <2>1, TailGood DEF RunsDelayed
  <2> HIDE DEF d
  <2> QED BY <1>1, <2>2, <2>3, TopOrigins
<1>5. CASE CallReady
  <2>1. Top.pc = "runDelayed"
    BY <1>5, AtTop DEF CallReady
  <2> DEFINE d == [Top EXCEPT !.pc = "inDelayed"]
  <2>2. d.ready = Top.ready /\ d.todo = Top.todo /\ SetTop(d)
    BY <1>1, <1>5, DrainSets DEF CallReady
  <2> HIDE DEF d
  <2> QED BY <1>1, <2>1, <2>2, TopOrigins DEF RunsDelayed
<1>6. CASE ReadyReturns
  <2>1. Top.pc = "inDelayed" /\ Top.todo \in Seq(ReadyIn) /\ Top.todo # <<>>
    BY <1>6, AtTop DEF ReadyReturns, RunsDelayed
  <2> DEFINE d == [Top EXCEPT !.pc = "runDelayed", !.todo = Tail(Top.todo)]
  <2>2. d.ready = Top.ready /\ d.todo = Tail(Top.todo) /\ SetTop(d)
    BY <1>1, <1>6, DrainSets DEF ReadyReturns
  <2>3. GoodReady(Tail(Top.todo))
    BY <1>1, <2>1, TailGood DEF RunsDelayed
  <2> HIDE DEF d
  <2> QED BY <1>1, <2>2, <2>3, TopOrigins
<1>7. CASE RetireReady
  <2> DEFINE d == [Top EXCEPT !.pc = "notify", !.ready = <<>>]
  <2>1. d.pc \notin RunsDelayed /\ d.ready = <<>> /\ SetTop(d)
    BY <1>1, <1>7, DrainSets DEF RetireReady, RunsDelayed
  <2> HIDE DEF d
  <2> QED BY <1>1, <1>2, <2>1, TopOrigins
<1> QED BY <1>3, <1>4, <1>5, <1>6, <1>7 DEF ReadyStep

(* Between its phases a drain only moves on.                                *)
LEMMA IdleMoves ==
  ASSUME Shape, IdleStep
  PROVE  /\ stack # <<>> /\ Top.pc \notin RunsSimple \cup RunsDelayed
         /\ \E d : /\ SetTop(d) /\ d.pc \notin RunsSimple \cup RunsDelayed
                  /\ d.ready = Top.ready /\ d.deferred = Top.deferred
<1>1. PICK p \in IdleAt : Goes(p)
  BY IdleStepGoes DEF IdleAt, DrainPC, RunsSimple, RunsDelayed
<1>2. stack # <<>> /\ Top \in DrainsIn /\ Top.pc \notin RunsSimple \cup RunsDelayed
  BY <1>1 DEF Goes, IdleAt
<1> DEFINE d == [Top EXCEPT !.pc = p]
<1>3. SetTop(d)
  BY <1>1 DEF Goes
<1>4. d.pc \notin RunsSimple \cup RunsDelayed /\ d.ready = Top.ready /\ d.deferred = Top.deferred
  BY <1>2, DrainSets DEF IdleAt
<1> HIDE DEF d
<1> QED BY <1>2, <1>3, <1>4

LEMMA IdleStepOrigins ==
  ASSUME Shape, DrainOrigins, IdleStep
  PROVE  DrainOrigins'
<1>1. PICK d : SetTop(d) /\ d.pc \notin RunsDelayed /\ d.ready = Top.ready
  BY IdleMoves
<1> QED BY <1>1, IdleMoves, IdleUnchanged, TopGood, TopOrigins DEF history

LEMMA EnterParts ==
  ASSUME Shape, NEW q \in Methods, EnterDrain(q)
  PROVE  /\ DOMAIN stack = 1..Len(stack) /\ DOMAIN stack' = 1..(Len(stack) + 1) /\ Len(stack) \in Nat
         /\ \A k \in DOMAIN stack : stack'[k] = stack[k]
         /\ LET d == stack'[Len(stack) + 1]
            IN d.pc = "simple" /\ d.todo = <<>> /\ d.deferred = <<>> /\ d.ready = <<>>
<1> DEFINE d == [method |-> q, pc |-> "simple", todo |-> <<>>, deferred |-> <<>>, ready |-> <<>>]
<1>1. stack' = Append(stack, d) /\ stack \in Seq(DrainsIn)
  BY DEF EnterDrain, Shape
<1>2. d.pc = "simple" /\ d.todo = <<>> /\ d.deferred = <<>> /\ d.ready = <<>>
  OBVIOUS
<1> HIDE DEF d
<1> QED BY <1>1, <1>2, AppendParts

LEMMA MergeParts ==
  ASSUME Shape, MergePending
  PROVE  /\ DOMAIN stack = 1..Len(stack) /\ DOMAIN stack' = 1..(Len(stack) - 1)
         /\ Len(stack) \in Nat \ {0}
         /\ \A k \in DOMAIN stack' : k \in DOMAIN stack /\ stack'[k] = stack[k]
         /\ Top = stack[Len(stack)]
         /\ Top.pc = "merge" /\ Top.todo = <<>> /\ Top.deferred = <<>> /\ Top.ready = <<>>
         /\ Top.method \in Methods
<1>1. /\ stack # <<>> /\ Top.pc = "merge" /\ Top.todo = <<>> /\ Top.deferred = <<>> /\ Top.ready = <<>>
      /\ Top.method \in Methods
  BY AtTop DEF MergePending, RunsSimple, RunsDelayed
<1>2. stack' = SubSeq(stack, 1, Len(stack) - 1) /\ stack \in Seq(DrainsIn)
  BY DEF MergePending, Front, Shape
<1>3. Len(stack) \in Nat \ {0}
  BY <1>1, <1>2
<1>4. \A S : \A s \in Seq(S) : Len(s) # 0 =>
        LET t == SubSeq(s, 1, Len(s) - 1)
        IN DOMAIN t = 1..(Len(s) - 1) /\ \A k \in DOMAIN t : k \in DOMAIN s /\ t[k] = s[k]
  OBVIOUS
<1> QED BY <1>1, <1>2, <1>3, <1>4, SeqParts DEF Top, Last

LEMMA DrainOriginsStep ==
  ASSUME Shape, Bounded, Origins, [Next]_vars
  PROVE  DrainOrigins'
<1>1. BornGrows /\ DelayedOrigins /\ DrainOrigins
  BY BornStep DEF Origins
<1>2. CASE UNCHANGED stack
  BY <1>1, <1>2, DrainOriginsStay
<1>3. CASE UNCHANGED vars
  BY <1>2, <1>3 DEF vars
<1>4. CASE Next
  <2>1. CASE RevisingStep
    BY <1>2, <2>1 DEF RevisingStep, BothRevised, RestOfControl
  <2>2. CASE GainingStep
    BY <1>2, <2>2 DEF GainingStep, CreationFacts
  <2>3. CASE \/ ConstructElsewhere \/ UnloadStep
             \/ \E m \in Mods : MakeActionHandle(m) \/ \E q \in Methods : ExecuteInGameThread(m, q)
    BY <1>2, <2>3 DEF ConstructElsewhere, MakeActionHandle, ReadCounter, WriteCounter, UnloadStep,
       UnloadGoesOn, ExecuteInGameThread, EndUnload, BeginUnload, DrainsSettled, EraseActions
  <2>4. CASE SimpleStep \/ ReadyStep \/ IdleStep
    BY <1>1, <2>4, SimpleStepOrigins, ReadyStepOrigins, IdleStepOrigins
  <2>5. ASSUME NEW q \in Methods, EnterDrain(q) PROVE DrainOrigins'
    <3>1. UNCHANGED born
      BY <2>5 DEF EnterDrain, history
    <3>2. /\ DOMAIN stack = 1..Len(stack) /\ DOMAIN stack' = 1..(Len(stack) + 1) /\ Len(stack) \in Nat
          /\ \A k \in DOMAIN stack : stack'[k] = stack[k]
          /\ stack'[Len(stack) + 1].pc = "simple" /\ stack'[Len(stack) + 1].ready = <<>>
      BY <2>5, EnterParts
    <3>3. GoodReady(<<>>)
      BY EmptyOnce DEF GoodReady
    <3>4. \A k \in DOMAIN stack' : k \in DOMAIN stack \/ k = Len(stack) + 1
      BY <3>2
    <3>5. \A k \in DOMAIN stack' : /\ GoodReady(stack'[k].ready)
                                   /\ stack'[k].pc \in RunsDelayed => GoodReady(stack'[k].todo)
      BY <1>1, <3>2, <3>3, <3>4 DEF DrainOrigins, RunsDelayed
    <3> QED BY <3>1, <3>5 DEF DrainOrigins, GoodReady, IsOrigin
  <2>6. CASE MergePending
    <3>1. UNCHANGED born
      BY <2>6 DEF MergePending, history
    <3>2. \A k \in DOMAIN stack' : k \in DOMAIN stack /\ stack'[k] = stack[k]
      BY <2>6, MergeParts
    <3> QED BY <1>1, <3>1, <3>2 DEF DrainOrigins, GoodReady, IsOrigin
  <2> QED BY <1>4, <2>1, <2>2, <2>3, <2>4, <2>5, <2>6, NextIs DEF OtherStep
<1> QED BY <1>3, <1>4

LEMMA OriginsStep ==
  ASSUME Shape, Bounded, Origins, [Next]_vars
  PROVE  Origins'
BY DelayedOriginsStep, DrainOriginsStep DEF Origins

-----------------------------------------------------------------------------
(* Every simple action is accounted for: those held are all different, came *)
(* from ExecuteInGameThread and did not run; and each that did not run, of  *)
(* a mod that does not unload, is held.                                     *)
Accounted ==
  /\ Tidy(Held)
  /\ \A a \in AllIn(Held) : IsOrigin(a.id, a.mod, {"simple"}) /\ a.id \notin ran
  /\ \A id \in Known :
       (born[id].kind = "simple" /\ id \notin ran /\ ~Unloading(born[id].mod)) =>
         \E a \in AllIn(Held) : a.id = id

(* What a step owes.                                                        *)
Accounts ==
  /\ Tidy(Held')
  /\ \A a \in AllIn(Held') :
       /\ a.id \notin ran'
       /\ a \in AllIn(Held) \/ (born'[a.id].mod = a.mod /\ born'[a.id].kind = "simple")
  /\ \A a \in AllIn(Held) : a \in AllIn(Held') \/ a.id \in ran' \/ Unloading(a.mod)'
  /\ \A id \in Known' \ Known : born'[id].kind = "simple" => \E a \in AllIn(Held') : a.id = id
  /\ ran \subseteq ran'

LEMMA HeldKnown ==
  ASSUME Shape, NEW a \in AllIn(Held)
  PROVE  a \in SimpleIn(Mods) /\ a.id \in Known /\ a.mod \in Mods
<1>1. PICK l \in Lists : a \in ToSet(Held[l])
  BY DEF AllIn
<1>2. Held[l] \in Seq(SimpleIn(Mods))
  BY HeldTyped
<1>3. a \in SimpleIn(Mods)
  BY <1>1, <1>2, SeqParts DEF ToSet
<1> QED BY <1>3 DEF SimpleIn

LEMMA AccountsKeeps ==
  ASSUME Shape, BornGrows, UnloadGrows, Accounted, Accounts
  PROVE  Accounted'
<1>1. ASSUME NEW a \in AllIn(Held')
      PROVE  born'[a.id].mod = a.mod /\ born'[a.id].kind = "simple" /\ a.id \notin ran'
  <2>1. CASE a \in AllIn(Held)
    BY <2>1, HeldKnown DEF Accounts, Accounted, BornGrows, IsOrigin
  <2>2. CASE a \notin AllIn(Held)
    BY <2>2 DEF Accounts
  <2> QED BY <2>1, <2>2
<1>2. ASSUME NEW id \in Known', born'[id].kind = "simple", id \notin ran', ~Unloading(born[id].mod)'
      PROVE  \E a \in AllIn(Held') : a.id = id
  <2>1. CASE id \in Known
    <3>1. born'[id] = born[id] /\ born[id].mod \in Mods
      <4>1. born \in Seq([mod : Mods, kind : Kinds]) /\ id \in 1..Len(born)
        BY <2>1 DEF Shape, Known
      <4>2. born[id] \in [mod : Mods, kind : Kinds]
        BY <4>1, SeqParts
      <4> QED BY <2>1, <4>2 DEF BornGrows
    <3>2. ~Unloading(born[id].mod)
      BY <1>2, <3>1 DEF UnloadGrows, Unloading
    <3>3. PICK a \in AllIn(Held) : a.id = id
      BY <1>2, <2>1, <3>1, <3>2 DEF Accounted, Accounts
    <3>4. a.mod = born'[id].mod
      BY <3>1, <3>3 DEF Accounted, IsOrigin
    <3>5. ~Unloading(a.mod)'
      BY <1>2, <3>4 DEF Unloading
    <3> QED BY <1>2, <3>3, <3>5 DEF Accounts
  <2>2. CASE id \notin Known
    BY <1>2, <2>2 DEF Accounts
  <2> QED BY <2>1, <2>2
<1>3. Tidy(Held)'
  BY DEF Accounts, Tidy
<1>4. AllIn(Held)' = AllIn(Held')
  BY DEF AllIn
<1> QED BY <1>1, <1>2, <1>3, <1>4 DEF Accounted, IsOrigin, Unloading

(* Steps that hold the same simple actions, and call no simple one.         *)
SameHeld == AllIn(Held') = AllIn(Held)

LEMMA SameAccounts ==
  ASSUME Accounted, Tidy(Held'), AllIn(Held') = AllIn(Held), UNCHANGED ran,
         \A id \in Known' \ Known : born'[id].kind # "simple"
  PROVE  Accounts /\ SameHeld
BY DEF Accounted, Accounts, SameHeld

(* Steps that take one simple action out: to call it, or because its mod    *)
(* unloads.                                                                 *)
HeldLess(x) ==
  AllIn(Held) = AllIn(Held') \cup {x} /\ \A a \in AllIn(Held') : a.id # x.id

LEMMA DropAccounts ==
  ASSUME Shape, Accounted, NEW l \in Lists, Drops(Held, Held', l), UNCHANGED born, UNCHANGED unload,
         \/ ran' = ran \cup {Head(Held[l]).id}
         \/ ran' = ran /\ Unloading(Head(Held[l]).mod)
  PROVE  Accounts /\ HeldLess(Head(Held[l]))
<1>1. /\ Tidy(Held') /\ AllIn(Held) = AllIn(Held') \cup {Head(Held[l])}
      /\ \A a \in AllIn(Held') : a.id # Head(Held[l]).id
  BY HeldTyped, DropTidy DEF Accounted
<1>2. Known' = Known /\ \A m : Unloading(m)' <=> Unloading(m)
  BY DEF Known, Unloading
<1> DEFINE x == Head(Held[l])
<1>3. Unloading(x.mod) => unload'[x.mod] # "loaded"
  BY DEF Unloading
<1> HIDE DEF x
<1>4. \A a \in AllIn(Held) : a \in AllIn(Held') \/ a = x
  BY <1>1 DEF x
<1>5. x.id \in ran' \/ unload'[x.mod] # "loaded"
  BY <1>3 DEF x
<1>6. \A a \in AllIn(Held') : a.id \notin ran' /\ a \in AllIn(Held)
  BY <1>1 DEF Accounted
<1>7. Accounts
  BY <1>1, <1>2, <1>4, <1>5, <1>6 DEF Accounts, Unloading
<1> QED BY <1>1, <1>7 DEF HeldLess

(* The simple steps of a drain.                                             *)
LEMMA ElsewhereTop ==
  ASSUME Shape, Nesting, stack # <<>>, NEW d, SetTop(d), UNCHANGED simplePending
  PROVE  LET n == Len(stack)
         IN /\ simple' = simple => Elsewhere(Held, Held', {<<"todo", n>>, <<"deferred", n>>})
            /\ \A q \in Methods :
                 (\A p \in Methods : p # q => simple'[p] = simple[p]) =>
                   Elsewhere(Held, Held', {<<"main", q>>, <<"todo", n>>, <<"deferred", n>>})
<1> DEFINE n == Len(stack)
<1>1. \A k \in 1..MaxNesting : k # n =>
        /\ Held'[<<"todo", k>>] = Held[<<"todo", k>>]
        /\ Held'[<<"deferred", k>>] = Held[<<"deferred", k>>]
  BY HeldAtTop
<1>2. \A q \in Methods : /\ Held'[<<"pending", q>>] = Held[<<"pending", q>>]
                         /\ simple'[q] = simple[q] => Held'[<<"main", q>>] = Held[<<"main", q>>]
  BY HeldQueues
<1> HIDE DEF n
<1>3. \A l \in Lists : \/ \E q \in Methods : l = <<"main", q>> \/ l = <<"pending", q>>
                       \/ \E k \in 1..MaxNesting : l = <<"todo", k>> \/ l = <<"deferred", k>>
  BY ListsAre
<1>4. ASSUME simple' = simple
      PROVE  Elsewhere(Held, Held', {<<"todo", n>>, <<"deferred", n>>})
  <2> SUFFICES ASSUME NEW l \in Lists, l # <<"todo", n>>, l # <<"deferred", n>> PROVE Held'[l] = Held[l]
    BY DEF Elsewhere
  <2> QED BY <1>1, <1>2, <1>3, <1>4
<1>5. ASSUME NEW q \in Methods, \A p \in Methods : p # q => simple'[p] = simple[p]
      PROVE  Elsewhere(Held, Held', {<<"main", q>>, <<"todo", n>>, <<"deferred", n>>})
  <2> SUFFICES ASSUME NEW l \in Lists, l # <<"main", q>>, l # <<"todo", n>>, l # <<"deferred", n>>
               PROVE  Held'[l] = Held[l]
    BY DEF Elsewhere
  <2> QED BY <1>1, <1>2, <1>3, <1>5
<1> QED BY <1>4, <1>5 DEF n

LEMMA TakeSimpleAccounts ==
  ASSUME Shape, Nesting, Accounted, TakeSimple
  PROVE  Accounts /\ SameHeld
<1> DEFINE n == Len(stack)
           q == Top.method
           a == <<"todo", n>>
           b == <<"main", q>>
           d == [Top EXCEPT !.pc = "runSimple", !.todo = simple[q]]
<1>1. /\ stack # <<>> /\ Top \in DrainsIn /\ Top.pc = "takeSimple" /\ q \in Methods
      /\ Top.todo = <<>> /\ Top.deferred = <<>>
  BY AtTop DEF TakeSimple, RunsSimple, RunsDelayed
<1>2. /\ UNCHANGED <<simplePending, born, ran>>
      /\ SetTop(d) /\ simple' = [simple EXCEPT ![q] = <<>>]
  BY DEF TakeSimple, history
<1>3. d.pc = "runSimple" /\ d.todo = simple[q] /\ d.deferred = <<>>
  BY <1>1, DrainSets
<1>4. simple \in [Methods -> Seq(SimpleIn(Present))]
  BY DEF Shape
<1>5. simple'[q] = <<>> /\ \A p \in Methods : p # q => simple'[p] = simple[p]
  BY <1>1, <1>2, <1>4
<1> HIDE DEF d
<1>6. StillToRun(d) = simple[q] /\ StillToRun(Top) = <<>>
  BY <1>1, <1>3, StillToRunIs DEF RunsSimple
<1>7. /\ n \in 1..MaxNesting /\ Held[a] = <<>> /\ Held[<<"deferred", n>>] = <<>>
      /\ Held'[a] = simple[q] /\ Held'[<<"deferred", n>>] = <<>>
  BY <1>1, <1>2, <1>3, <1>6, HeldAtTop
<1>8. Elsewhere(Held, Held', {<<"main", q>>, <<"todo", n>>, <<"deferred", n>>})
  BY <1>1, <1>2, <1>5, ElsewhereTop
<1>9. Held[b] = simple[q] /\ Held'[b] = <<>>
  BY <1>1, <1>5, HeldQueues
<1>10. <<>> \o simple[q] = simple[q]
  BY <1>1, <1>4
<1>11. Joins(Held, Held', a, b)
  <2>1. \A l \in Lists \ {a, b} : Held'[l] = Held[l]
    BY <1>7, <1>8 DEF Elsewhere
  <2> QED BY <1>7, <1>9, <1>10, <2>1 DEF Joins, Elsewhere
<1>12. a \in Lists /\ b \in Lists /\ a # b
  BY <1>1, <1>7, ListsAre
<1> HIDE DEF a, b, n
<1>13. Tidy(Held') /\ AllIn(Held') = AllIn(Held)
  BY <1>11, <1>12, HeldTyped, JoinTidy DEF Accounted
<1> QED BY <1>2, <1>13, SameAccounts DEF Known

LEMMA SkipSimpleAccounts ==
  ASSUME Shape, Nesting, Accounted, SkipSimple
  PROVE  Accounts /\ HeldLess(Head(Top.todo))
<1> DEFINE n == Len(stack)
           a == <<"todo", n>>
           d == [Top EXCEPT !.todo = Tail(Top.todo)]
<1>1. /\ stack # <<>> /\ Top \in DrainsIn /\ Top.pc = "runSimple" /\ Top.todo # <<>>
      /\ Unloading(Head(Top.todo).mod) /\ SetTop(d)
      /\ UNCHANGED <<simple, simplePending, born, ran, unload>>
  BY AtTop DEF SkipSimple, queues, env, history
<1>2. d.pc = "runSimple" /\ d.todo = Tail(Top.todo) /\ d.deferred = Top.deferred
  BY <1>1, DrainSets
<1> HIDE DEF d
<1>3. StillToRun(d) = Tail(Top.todo) /\ StillToRun(Top) = Top.todo
  BY <1>1, <1>2, StillToRunIs
<1>4. /\ n \in 1..MaxNesting /\ Held[a] = Top.todo /\ Held'[a] = Tail(Top.todo)
      /\ Held'[<<"deferred", n>>] = Held[<<"deferred", n>>]
  BY <1>1, <1>2, <1>3, HeldAtTop
<1>5. Elsewhere(Held, Held', {<<"todo", n>>, <<"deferred", n>>})
  BY <1>1, ElsewhereTop
<1>6. Drops(Held, Held', a) /\ a \in Lists
  BY <1>1, <1>4, <1>5, ListsAre DEF Drops, Elsewhere
<1> HIDE DEF a
<1> QED BY <1>1, <1>4, <1>6, DropAccounts

LEMMA CallSimpleAccounts ==
  ASSUME Shape, Nesting, Accounted, CallSimple
  PROVE  Accounts /\ HeldLess(Head(Top.todo))
<1> DEFINE n == Len(stack)
           a == <<"todo", n>>
           d == [Top EXCEPT !.pc = "inSimple"]
<1>1. /\ stack # <<>> /\ Top \in DrainsIn /\ Top.pc = "runSimple" /\ Top.todo # <<>>
      /\ ran' = ran \cup {Head(Top.todo).id} /\ SetTop(d)
      /\ UNCHANGED <<simple, simplePending, born, unload>>
  BY AtTop DEF CallSimple, queues, env
<1>2. d.pc = "inSimple" /\ d.todo = Top.todo /\ d.deferred = Top.deferred
  BY <1>1, DrainSets
<1> HIDE DEF d
<1>3. StillToRun(d) = Tail(Top.todo) /\ StillToRun(Top) = Top.todo
  BY <1>1, <1>2, StillToRunIs
<1>4. /\ n \in 1..MaxNesting /\ Held[a] = Top.todo /\ Held'[a] = Tail(Top.todo)
      /\ Held'[<<"deferred", n>>] = Held[<<"deferred", n>>]
  BY <1>1, <1>2, <1>3, HeldAtTop
<1>5. Elsewhere(Held, Held', {<<"todo", n>>, <<"deferred", n>>})
  BY <1>1, ElsewhereTop
<1>6. Drops(Held, Held', a) /\ a \in Lists
  BY <1>1, <1>4, <1>5, ListsAre DEF Drops, Elsewhere
<1> HIDE DEF a
<1> QED BY <1>1, <1>4, <1>6, DropAccounts

LEMMA SimpleReturnsAccounts ==
  ASSUME Shape, Nesting, Accounted, SimpleReturns
  PROVE  Accounts /\ SameHeld
<1> DEFINE n == Len(stack)
           d == [Top EXCEPT !.pc = "runSimple", !.todo = Tail(Top.todo)]
<1>1. /\ stack # <<>> /\ Top \in DrainsIn /\ Top.pc = "inSimple" /\ SetTop(d)
      /\ UNCHANGED <<simple, simplePending, born, ran>>
  BY AtTop DEF SimpleReturns, queues, history
<1>2. d.pc = "runSimple" /\ d.todo = Tail(Top.todo) /\ d.deferred = Top.deferred
  BY <1>1, DrainSets
<1> HIDE DEF d
<1>3. StillToRun(d) = StillToRun(Top)
  BY <1>1, <1>2, StillToRunIs
<1>4. /\ Held'[<<"todo", n>>] = Held[<<"todo", n>>]
      /\ Held'[<<"deferred", n>>] = Held[<<"deferred", n>>]
      /\ Elsewhere(Held, Held', {<<"todo", n>>, <<"deferred", n>>})
  BY <1>1, <1>2, <1>3, HeldAtTop, ElsewhereTop
<1>5. \A l \in Lists : Held'[l] = Held[l]
  BY <1>4 DEF Elsewhere
<1>6. Tidy(Held') /\ AllIn(Held') = AllIn(Held)
  BY <1>5 DEF Tidy, AllIn, Accounted
<1> QED BY <1>1, <1>6, SameAccounts DEF Known

LEMMA DeferSimpleAccounts ==
  ASSUME Shape, Nesting, Accounted, DeferSimple
  PROVE  Accounts /\ SameHeld
<1> DEFINE n == Len(stack)
           a == <<"todo", n>>
           b == <<"deferred", n>>
           d == [Top EXCEPT !.todo = Tail(Top.todo), !.deferred = Append(Top.deferred, Head(Top.todo))]
<1>1. /\ stack # <<>> /\ Top \in DrainsIn /\ Top.pc = "runSimple" /\ Top.todo # <<>> /\ SetTop(d)
      /\ UNCHANGED <<simple, simplePending, born, ran>>
  BY AtTop DEF DeferSimple, queues, history
<1>2. /\ d.pc = "runSimple" /\ d.todo = Tail(Top.todo)
      /\ d.deferred = Append(Top.deferred, Head(Top.todo))
  BY <1>1, DrainSets
<1> HIDE DEF d
<1>3. StillToRun(d) = Tail(Top.todo) /\ StillToRun(Top) = Top.todo
  BY <1>1, <1>2, StillToRunIs
<1>4. /\ n \in 1..MaxNesting /\ Held[a] = Top.todo /\ Held'[a] = Tail(Top.todo)
      /\ Held[b] = Top.deferred /\ Held'[b] = Append(Top.deferred, Head(Top.todo))
  BY <1>1, <1>2, <1>3, HeldAtTop
<1>5. Elsewhere(Held, Held', {a, b})
  BY <1>1, ElsewhereTop
<1>6. MovesHead(Held, Held', a, b) /\ a \in Lists /\ b \in Lists /\ a # b
  BY <1>1, <1>4, <1>5, ListsAre DEF MovesHead
<1> HIDE DEF a, b
<1>7. Tidy(Held') /\ AllIn(Held') = AllIn(Held)
  BY <1>6, HeldTyped, MoveTidy DEF Accounted
<1> QED BY <1>1, <1>7, SameAccounts DEF Known

LEMMA PutBackAccounts ==
  ASSUME Shape, Nesting, Accounted, PutBackDeferred
  PROVE  Accounts /\ SameHeld
<1> DEFINE n == Len(stack)
           q == Top.method
           a == <<"main", q>>
           b == <<"deferred", n>>
           d == [Top EXCEPT !.pc = "delayed", !.deferred = <<>>]
<1>1. /\ stack # <<>> /\ Top \in DrainsIn /\ Top.pc = "runSimple" /\ Top.todo = <<>> /\ SetTop(d)
      /\ q \in Methods /\ simple' = [simple EXCEPT ![q] = simple[q] \o Top.deferred]
      /\ UNCHANGED <<simplePending, born, ran>>
  BY AtTop DEF PutBackDeferred, history
<1>2. d.pc = "delayed" /\ d.deferred = <<>>
  BY <1>1, DrainSets
<1> HIDE DEF d
<1>3. StillToRun(d) = <<>> /\ StillToRun(Top) = <<>>
  BY <1>1, <1>2, StillToRunIs DEF RunsSimple
<1>4. simple \in [Methods -> Seq(SimpleIn(Present))]
  BY DEF Shape
<1>5. simple'[q] = simple[q] \o Top.deferred /\ \A p \in Methods : p # q => simple'[p] = simple[p]
  BY <1>1, <1>4
<1>6. /\ n \in 1..MaxNesting /\ Held'[<<"todo", n>>] = Held[<<"todo", n>>]
      /\ Held[b] = Top.deferred /\ Held'[b] = <<>>
  BY <1>1, <1>2, <1>3, HeldAtTop
<1>7. Elsewhere(Held, Held', {<<"main", q>>, <<"todo", n>>, <<"deferred", n>>})
  BY <1>1, <1>5, ElsewhereTop
<1>8. Held[a] = simple[q] /\ Held'[a] = simple[q] \o Top.deferred
  BY <1>1, <1>5, HeldQueues
<1>9. Joins(Held, Held', a, b) /\ a \in Lists /\ b \in Lists /\ a # b
  <2>1. \A l \in Lists \ {a, b} : Held'[l] = Held[l]
    BY <1>6, <1>7 DEF Elsewhere
  <2> QED BY <1>1, <1>6, <1>8, <2>1, ListsAre DEF Joins, Elsewhere
<1> HIDE DEF a, b, n, q
<1>10. Tidy(Held') /\ AllIn(Held') = AllIn(Held)
  BY <1>9, HeldTyped, JoinTidy DEF Accounted
<1> QED BY <1>1, <1>10, SameAccounts DEF Known

(* The rest of a drain.                                                     *)
LEMMA IdleTopAccounts ==
  ASSUME Shape, Nesting, Accounted, stack # <<>>, NEW d, SetTop(d),
         Top.pc \notin RunsSimple, d.pc \notin RunsSimple, d.deferred = Top.deferred,
         UNCHANGED <<simple, simplePending, born, ran>>
  PROVE  Accounts /\ SameHeld
<1> DEFINE n == Len(stack)
<1>1. StillToRun(d) = <<>> /\ StillToRun(Top) = <<>>
  BY StillToRunIs
<1>2. /\ Held'[<<"todo", n>>] = Held[<<"todo", n>>]
      /\ Held'[<<"deferred", n>>] = Held[<<"deferred", n>>]
      /\ Elsewhere(Held, Held', {<<"todo", n>>, <<"deferred", n>>})
  BY <1>1, HeldAtTop, ElsewhereTop
<1>3. \A l \in Lists : Held'[l] = Held[l]
  BY <1>2 DEF Elsewhere
<1>4. Tidy(Held') /\ AllIn(Held') = AllIn(Held)
  BY <1>3 DEF Tidy, AllIn, Accounted
<1> QED BY <1>4, SameAccounts DEF Known

LEMMA ReadyStepAccounts ==
  ASSUME Shape, Nesting, Accounted, ReadyStep
  PROVE  Accounts /\ SameHeld
<1>1. stack # <<>> /\ Top \in DrainsIn /\ UNCHANGED <<simple, simplePending, born, ran>>
  BY TopIn DEF ReadyStep, TakeReady, SkipReady, CallReady, ReadyReturns, RetireReady,
     At, history, queues
<1> USE DEF RunsSimple
<1>2. CASE TakeReady
  <2> DEFINE due == {i \in DOMAIN delayed : IsDue(delayed[i], Top.method)}
             ready == [k \in DOMAIN InOrder(due) |->
                         LET i == InOrder(due)[k]
                         IN [index |-> i, id |-> delayed[i].id, mod |-> delayed[i].mod]]
             d == [Top EXCEPT !.pc = "runDelayed", !.todo = ready, !.ready = ready]
  <2>1. SetTop(d) /\ Top.pc = "takeReady"
    BY <1>2 DEF TakeReady, At
  <2> HIDE DEF ready
  <2>2. d.pc \notin RunsSimple /\ d.deferred = Top.deferred
    BY <1>1, DrainSets
  <2> HIDE DEF d
  <2> QED BY <1>1, <2>1, <2>2, IdleTopAccounts
<1>3. CASE SkipReady
  <2> DEFINE d == [Top EXCEPT !.todo = Tail(Top.todo)]
  <2>1. SetTop(d) /\ Top.pc = "runDelayed"
    BY <1>3 DEF SkipReady, At
  <2>2. d.pc \notin RunsSimple /\ d.deferred = Top.deferred
    BY <1>1, <2>1, DrainSets
  <2> HIDE DEF d
  <2> QED BY <1>1, <2>1, <2>2, IdleTopAccounts
<1>4. CASE CallReady
  <2> DEFINE d == [Top EXCEPT !.pc = "inDelayed"]
  <2>1. SetTop(d) /\ Top.pc = "runDelayed"
    BY <1>4 DEF CallReady, At
  <2>2. d.pc \notin RunsSimple /\ d.deferred = Top.deferred
    BY <1>1, DrainSets
  <2> HIDE DEF d
  <2> QED BY <1>1, <2>1, <2>2, IdleTopAccounts
<1>5. CASE ReadyReturns
  <2> DEFINE d == [Top EXCEPT !.pc = "runDelayed", !.todo = Tail(Top.todo)]
  <2>1. SetTop(d) /\ Top.pc = "inDelayed"
    BY <1>5 DEF ReadyReturns, At
  <2>2. d.pc \notin RunsSimple /\ d.deferred = Top.deferred
    BY <1>1, DrainSets
  <2> HIDE DEF d
  <2> QED BY <1>1, <2>1, <2>2, IdleTopAccounts
<1>6. CASE RetireReady
  <2> DEFINE d == [Top EXCEPT !.pc = "notify", !.ready = <<>>]
  <2>1. SetTop(d) /\ Top.pc = "runDelayed"
    BY <1>6 DEF RetireReady, At
  <2>2. d.pc \notin RunsSimple /\ d.deferred = Top.deferred
    BY <1>1, DrainSets
  <2> HIDE DEF d
  <2> QED BY <1>1, <2>1, <2>2, IdleTopAccounts
<1> QED BY <1>2, <1>3, <1>4, <1>5, <1>6 DEF ReadyStep

LEMMA IdleStepAccounts ==
  ASSUME Shape, Nesting, Accounted, IdleStep
  PROVE  Accounts /\ SameHeld
<1>1. /\ stack # <<>> /\ Top.pc \notin RunsSimple
      /\ \E d : SetTop(d) /\ d.pc \notin RunsSimple /\ d.deferred = Top.deferred
  BY IdleMoves
<1> QED BY <1>1, IdleUnchanged, IdleTopAccounts DEF history

LEMMA EnterAccounts ==
  ASSUME Shape, Accounted, NEW q \in Methods, EnterDrain(q)
  PROVE  Accounts /\ SameHeld
<1>1. UNCHANGED <<simple, simplePending, born, ran>>
  BY DEF EnterDrain, queues, history
<1>2. /\ DOMAIN stack = 1..Len(stack) /\ DOMAIN stack' = 1..(Len(stack) + 1) /\ Len(stack) \in Nat
      /\ \A k \in DOMAIN stack : stack'[k] = stack[k]
      /\ stack'[Len(stack) + 1].pc = "simple" /\ stack'[Len(stack) + 1].deferred = <<>>
  BY EnterParts
<1>3. StillToRun(stack'[Len(stack) + 1]) = <<>>
  BY <1>2, StillToRunIs DEF RunsSimple
<1>4. \A p \in Methods : /\ Held'[<<"main", p>>] = Held[<<"main", p>>]
                         /\ Held'[<<"pending", p>>] = Held[<<"pending", p>>]
  BY <1>1, HeldQueues
<1>5. ASSUME NEW k \in 1..MaxNesting
      PROVE  /\ Held'[<<"todo", k>>] = Held[<<"todo", k>>]
             /\ Held'[<<"deferred", k>>] = Held[<<"deferred", k>>]
  <2>1. CASE k \in DOMAIN stack
    <3>1. k \in DOMAIN stack' /\ stack'[k] = stack[k]
      BY <1>2, <2>1
    <3> QED BY <2>1, <3>1, HeldParts, HeldNow
  <2>2. CASE k = Len(stack) + 1
    <3>1. k \notin DOMAIN stack /\ k \in DOMAIN stack'
      BY <1>2, <2>2
    <3> QED BY <1>2, <1>3, <2>2, <3>1, HeldParts, HeldNow
  <2>3. CASE k \notin DOMAIN stack /\ k # Len(stack) + 1
    <3>1. k \notin DOMAIN stack'
      BY <1>2, <2>3
    <3> QED BY <2>3, <3>1, HeldParts, HeldNow
  <2> QED BY <2>1, <2>2, <2>3
<1>6. ASSUME NEW l \in Lists PROVE Held'[l] = Held[l]
  <2>1. CASE \E p \in Methods : l = <<"main", p>> \/ l = <<"pending", p>>
    BY <1>4, <2>1
  <2>2. CASE \E k \in 1..MaxNesting : l = <<"todo", k>> \/ l = <<"deferred", k>>
    BY <1>5, <2>2
  <2> QED BY <2>1, <2>2, ListsAre
<1>7. Tidy(Held') /\ AllIn(Held') = AllIn(Held)
  BY <1>6 DEF Tidy, AllIn, Accounted
<1> QED BY <1>1, <1>7, SameAccounts DEF Known

LEMMA MergeAccounts ==
  ASSUME Shape, Nesting, Accounted, MergePending
  PROVE  Accounts /\ SameHeld
<1> DEFINE n == Len(stack)
           q == Top.method
           a == <<"main", q>>
           b == <<"pending", q>>
<1>1. /\ DOMAIN stack = 1..n /\ DOMAIN stack' = 1..(n - 1) /\ n \in Nat \ {0}
      /\ \A k \in DOMAIN stack' : k \in DOMAIN stack /\ stack'[k] = stack[k]
      /\ Top = stack[n] /\ Top.pc = "merge" /\ Top.deferred = <<>> /\ q \in Methods
  BY MergeParts
<1>2. /\ simple' = [simple EXCEPT ![q] = simple[q] \o simplePending[q]]
      /\ simplePending' = [simplePending EXCEPT ![q] = <<>>]
      /\ UNCHANGED <<born, ran>>
  BY DEF MergePending, history
<1>3. /\ simple \in [Methods -> Seq(SimpleIn(Present))]
      /\ simplePending \in [Methods -> Seq(SimpleIn(Present))]
  BY DEF Shape
<1>4. /\ simple'[q] = simple[q] \o simplePending[q] /\ simplePending'[q] = <<>>
      /\ \A p \in Methods : p # q => simple'[p] = simple[p] /\ simplePending'[p] = simplePending[p]
  BY <1>1, <1>2, <1>3
<1>5. /\ Held[a] = simple[q] /\ Held'[a] = simple[q] \o simplePending[q]
      /\ Held[b] = simplePending[q] /\ Held'[b] = <<>>
  BY <1>1, <1>4, HeldQueues
<1>6. \A p \in Methods : p # q => /\ Held'[<<"main", p>>] = Held[<<"main", p>>]
                                  /\ Held'[<<"pending", p>>] = Held[<<"pending", p>>]
  BY <1>4, HeldQueues
<1>7. StillToRun(Top) = <<>>
  BY <1>1, StillToRunIs DEF RunsSimple
<1>8. ASSUME NEW k \in 1..MaxNesting
      PROVE  /\ Held'[<<"todo", k>>] = Held[<<"todo", k>>]
             /\ Held'[<<"deferred", k>>] = Held[<<"deferred", k>>]
  <2>1. CASE k \in DOMAIN stack'
    <3>1. k \in DOMAIN stack /\ stack'[k] = stack[k]
      BY <1>1, <2>1
    <3> QED BY <2>1, <3>1, HeldParts, HeldNow
  <2>2. CASE k = n
    <3>1. k \in DOMAIN stack /\ k \notin DOMAIN stack'
      BY <1>1, <2>2
    <3> QED BY <1>1, <1>7, <2>2, <3>1, HeldParts, HeldNow
  <2>3. CASE k \notin DOMAIN stack' /\ k # n
    <3>1. k \notin DOMAIN stack
      <4>1. \A N \in Nat \ {0} : \A i \in 1..N : i = N \/ i \in 1..(N - 1)
        OBVIOUS
      <4> HIDE DEF n
      <4> QED BY <1>1, <2>3, <4>1
    <3> QED BY <2>3, <3>1, HeldParts, HeldNow
  <2> QED BY <2>1, <2>2, <2>3
<1>9. \A l \in Lists \ {a, b} : Held'[l] = Held[l]
  BY <1>6, <1>8, ListsAre
<1>10. Joins(Held, Held', a, b) /\ a \in Lists /\ b \in Lists /\ a # b
  BY <1>1, <1>5, <1>9, ListsAre DEF Joins, Elsewhere
<1> HIDE DEF a, b, n, q
<1>11. Tidy(Held') /\ AllIn(Held') = AllIn(Held)
  BY <1>10, HeldTyped, JoinTidy DEF Accounted
<1> QED BY <1>2, <1>11, SameAccounts DEF Known

(* Steps that leave the simple queues and the drains alone.                 *)
LEMMA StillAccounts ==
  ASSUME Shape, Accounted, UNCHANGED <<simple, simplePending, stack, ran>>,
         \A id \in Known' \ Known : born'[id].kind # "simple"
  PROVE  Accounts /\ SameHeld
<1>1. Held' = Held
  BY HeldSame
<1>2. Tidy(Held') /\ AllIn(Held') = AllIn(Held)
  BY <1>1 DEF Accounted, Tidy, AllIn
<1> QED BY <1>2, SameAccounts

LEMMA QueueAccounts ==
  ASSUME Shape, Accounted, NEW m \in Mods, NEW q \in Methods, ExecuteInGameThread(m, q)
  PROVE  Accounts /\ AllIn(Held') = AllIn(Held) \cup {[id |-> NewId, mod |-> m]}
<1> DEFINE x == [id |-> NewId, mod |-> m]
           a == <<"main", q>>
           b == <<"pending", q>>
<1>1. /\ \/ /\ simple' = [simple EXCEPT ![q] = Append(simple[q], x)]
            /\ simplePending' = [simplePending EXCEPT ![q] = simplePending[q]]
         \/ /\ simple' = [simple EXCEPT ![q] = simple[q]]
            /\ simplePending' = [simplePending EXCEPT ![q] = Append(simplePending[q], x)]
      /\ UNCHANGED <<stack, ran>>
  BY DEF ExecuteInGameThread, Enqueue
<1>2. /\ Known' = Known \cup {NewId} /\ NewId \notin Known
      /\ born'[NewId].mod = m /\ born'[NewId].kind = "simple"
  BY QueuesBorn
<1>3. x.id = NewId /\ x.mod = m
  OBVIOUS
<1>4. x \in [id : Known', mod : Mods]
  BY <1>2
<1>5. Held \in [Lists -> Seq([id : Known', mod : Mods])]
  <2>1. SimpleIn(Mods) \subseteq [id : Known', mod : Mods]
    BY <1>2 DEF SimpleIn
  <2>2. Held \in [Lists -> Seq(SimpleIn(Mods))]
    BY HeldTyped
  <2> QED BY <2>1, <2>2, SeqWider
<1> HIDE DEF x
<1>6. simple \in [Methods -> Seq(SimpleIn(Present))] /\ simplePending \in [Methods -> Seq(SimpleIn(Present))]
  BY DEF Shape
<1>7. \/ /\ simple'[q] = Append(simple[q], x) /\ simplePending' = simplePending
         /\ \A p \in Methods : p # q => simple'[p] = simple[p]
      \/ /\ simplePending'[q] = Append(simplePending[q], x) /\ simple' = simple
         /\ \A p \in Methods : p # q => simplePending'[p] = simplePending[p]
  BY <1>1, <1>6
<1>8. \A k \in 1..MaxNesting : /\ Held'[<<"todo", k>>] = Held[<<"todo", k>>]
                               /\ Held'[<<"deferred", k>>] = Held[<<"deferred", k>>]
  BY <1>1, HeldDrains
<1>9. \A p \in Methods : /\ p # q => Held'[<<"main", p>>] = Held[<<"main", p>>]
                         /\ p # q => Held'[<<"pending", p>>] = Held[<<"pending", p>>]
  BY <1>7, HeldQueues
<1>10. Adds(Held, Held', a, x) \/ Adds(Held, Held', b, x)
  <2>1. \/ Held'[a] = Append(Held[a], x) /\ Held'[b] = Held[b]
        \/ Held'[b] = Append(Held[b], x) /\ Held'[a] = Held[a]
    BY <1>7, HeldQueues
  <2>2. ASSUME NEW l \in Lists, l # a, l # b PROVE Held'[l] = Held[l]
    <3>1. CASE \E p \in Methods : l = <<"main", p>> \/ l = <<"pending", p>>
      BY <1>9, <2>2, <3>1
    <3>2. CASE \E k \in 1..MaxNesting : l = <<"todo", k>> \/ l = <<"deferred", k>>
      BY <1>8, <3>2
    <3> QED BY <3>1, <3>2, ListsAre
  <2> HIDE DEF a, b
  <2> QED BY <2>1, <2>2 DEF Adds, Elsewhere
<1>11. a \in Lists /\ b \in Lists
  BY ListsAre
<1> HIDE DEF a, b
<1>12. \A y \in AllIn(Held) : y.id # x.id
  BY <1>2, <1>3, HeldKnown
<1>13. Tidy(Held') /\ AllIn(Held') = AllIn(Held) \cup {x}
  <2> DEFINE S == [id : Known', mod : Mods]
  <2>1. x \in S /\ Held \in [Lists -> Seq(S)] /\ Tidy(Held)
    BY <1>4, <1>5 DEF Accounted
  <2> HIDE DEF S
  <2> QED BY <1>10, <1>11, <1>12, <2>1, AddTidy
<1>14. NewId \notin ran
  BY <1>2 DEF Shape
<1>15. \A y \in AllIn(Held') : /\ y.id \notin ran'
                               /\ y \in AllIn(Held) \/ (born'[y.id].mod = y.mod /\ born'[y.id].kind = "simple")
  BY <1>1, <1>2, <1>3, <1>13, <1>14 DEF Accounted
<1>16. Accounts
  BY <1>1, <1>2, <1>3, <1>13, <1>15 DEF Accounts
<1> QED BY <1>13, <1>16 DEF x

LEMMA EraseAccounts ==
  ASSUME Shape, Accounted, NEW m \in Mods, EraseActions(m)
  PROVE  Accounts /\ AllIn(Held') = {x \in AllIn(Held) : x.mod # m}
<1>1. /\ unload' = [unload EXCEPT ![m] = "gone"] /\ UNCHANGED <<stack, born, ran>>
      /\ \A q \in Methods : simple'[q] = Without(simple[q], m) /\ simplePending'[q] = Without(simplePending[q], m)
  BY DEF EraseActions, history
<1>2. Held \in [Lists -> Seq(SimpleIn(Mods))] /\ \A l \in Lists : OnceIn(Held[l])
  BY HeldTyped DEF Accounted, Tidy
<1>3. ASSUME NEW s \in Seq(SimpleIn(Mods)), OnceIn(s)
      PROVE  OnceIn(Without(s, m)) /\ ToSet(Without(s, m)) = {x \in ToSet(s) : x.mod # m}
  <2> DEFINE keep == {i \in DOMAIN s : s[i].mod # m}
  <2>1. OnceIn(Kept(s, keep)) /\ ToSet(Kept(s, keep)) = {s[i] : i \in keep}
    BY <1>3, KeptOnce
  <2> QED BY <2>1 DEF Without, ToSet
<1>4. \A q \in Methods : /\ Held'[<<"main", q>>] = Without(Held[<<"main", q>>], m)
                         /\ Held'[<<"pending", q>>] = Without(Held[<<"pending", q>>], m)
  BY <1>1, HeldQueues
<1>5. ASSUME NEW k \in 1..MaxNesting, NEW l \in {<<"todo", k>>, <<"deferred", k>>}
      PROVE  Held'[l] = Held[l] /\ \A x \in ToSet(Held[l]) : x.mod # m
  <2>1. Held'[l] = Held[l]
    BY <1>1, HeldDrains
  <2>2. m \notin Undrained
    BY DEF EraseActions, Undrained
  <2>3. Held[l] \in Seq(SimpleIn(Undrained))
    <3>1. /\ k \notin DOMAIN stack => Held[l] = <<>>
          /\ k \in DOMAIN stack => Held[l] = StillToRun(stack[k]) \/ Held[l] = stack[k].deferred
      <4>1. /\ k \notin DOMAIN stack => Held[<<"todo", k>>] = <<>> /\ Held[<<"deferred", k>>] = <<>>
            /\ k \in DOMAIN stack => /\ Held[<<"todo", k>>] = StillToRun(stack[k])
                                     /\ Held[<<"deferred", k>>] = stack[k].deferred
        BY HeldParts, HeldNow
      <4> QED BY <1>5, <4>1
    <3>2. <<>> \in Seq(SimpleIn(Undrained))
      OBVIOUS
    <3> QED BY <3>1, <3>2, DrainHolds
  <2>4. \A x \in ToSet(Held[l]) : x \in SimpleIn(Undrained)
    BY <2>3, SeqParts DEF ToSet
  <2> QED BY <2>1, <2>2, <2>4 DEF SimpleIn
<1>6. ASSUME NEW l \in Lists
      PROVE  OnceIn(Held'[l]) /\ ToSet(Held'[l]) = {x \in ToSet(Held[l]) : x.mod # m}
  <2>1. CASE \E q \in Methods : l = <<"main", q>> \/ l = <<"pending", q>>
    <3>1. Held'[l] = Without(Held[l], m)
      BY <1>4, <2>1
    <3> QED BY <1>2, <1>3, <3>1
  <2>2. CASE \E k \in 1..MaxNesting : l = <<"todo", k>> \/ l = <<"deferred", k>>
    BY <1>2, <1>5, <2>2
  <2> QED BY <2>1, <2>2, ListsAre
<1>7. \A l \in Lists : /\ OnceIn(Held'[l]) /\ ToSet(Held'[l]) \subseteq ToSet(Held[l])
                       /\ \A x \in ToSet(Held'[l]) : x.mod # m
                       /\ \A x \in ToSet(Held[l]) : x.mod # m => x \in ToSet(Held'[l])
  BY <1>6
<1>8. Tidy(Held')
  BY <1>7, ScanTidy DEF Accounted
<1>9. AllIn(Held') = {x \in AllIn(Held) : x.mod # m}
  BY <1>7 DEF AllIn
<1>10. unload'[m] # "loaded"
  BY <1>1 DEF Shape
<1>11. \A x \in AllIn(Held) : x \in AllIn(Held') \/ unload'[x.mod] # "loaded"
  BY <1>9, <1>10
<1>12. Known' = Known
  BY <1>1 DEF Known
<1>13. Accounts
  BY <1>1, <1>8, <1>9, <1>11, <1>12 DEF Accounts, Accounted, Unloading
<1> QED BY <1>9, <1>13

LEMMA AccountsStep ==
  ASSUME IInv, Origins, Accounted, [Next]_vars
  PROVE  Accounts
<1>1. Shape /\ Bounded /\ Nesting
  BY DEF IInv
<1>3. CASE UNCHANGED <<simple, simplePending, stack, ran, born>>
  BY <1>1, <1>3, StillAccounts DEF Known
<1>4. CASE UNCHANGED vars
  BY <1>3, <1>4 DEF vars, queues, history
<1>5. CASE Next
  <2>1. CASE RevisingStep
    BY <1>3, <2>1 DEF RevisingStep, BothRevised, RestOfControl
  <2>2. CASE GainingStep
    <3>1. UNCHANGED <<simple, simplePending, stack, ran>>
      BY <2>2 DEF GainingStep, CreationFacts
    <3>2. \A id \in Known' \ Known : born'[id].kind # "simple"
      BY <1>1, <2>2, GainsBorn DEF GainingStep, CreationFacts, DelayedGains
    <3> QED BY <1>1, <3>1, <3>2, StillAccounts
  <2>3. CASE OtherStep
    <3>1. CASE SimpleStep
      BY <1>1, <3>1, TakeSimpleAccounts, SkipSimpleAccounts, CallSimpleAccounts,
         SimpleReturnsAccounts, DeferSimpleAccounts, PutBackAccounts DEF SimpleStep
    <3>2. CASE ReadyStep \/ IdleStep
      BY <1>1, <3>2, ReadyStepAccounts, IdleStepAccounts
    <3>3. CASE MergePending \/ \E q \in Methods : EnterDrain(q)
      BY <1>1, <3>3, MergeAccounts, EnterAccounts
    <3>4. CASE \E m \in Mods : \E q \in Methods : ExecuteInGameThread(m, q)
      BY <1>1, <3>4, QueueAccounts
    <3>5. CASE \/ ConstructElsewhere \/ EndUnload
               \/ \E m \in Mods : MakeActionHandle(m) \/ BeginUnload(m) \/ DrainsSettled(m)
      BY <1>3, <3>5 DEF ConstructElsewhere, MakeActionHandle, ReadCounter, WriteCounter, EndUnload,
         BeginUnload, DrainsSettled, queues, history
    <3>6. CASE \E m \in Mods : EraseActions(m)
      BY <1>1, <3>6, EraseAccounts
    <3> QED BY <2>3, <3>1, <3>2, <3>3, <3>4, <3>5, <3>6 DEF OtherStep, UnloadStep, UnloadGoesOn
  <2> QED BY <1>1, <1>5, <2>1, <2>2, <2>3, NextIs
<1> QED BY <1>4, <1>5

LEMMA AccountedStep ==
  ASSUME IInv, Origins, Accounted, [Next]_vars
  PROVE  Accounted'
BY AccountsStep, BornStep, UnloadStepGrows, AccountsKeeps DEF IInv

-----------------------------------------------------------------------------
LEMMA InitOrigins == Init => Origins /\ Accounted
<1> SUFFICES ASSUME Init PROVE Origins /\ Accounted
  OBVIOUS
<1>1. /\ delayed = <<>> /\ delayedPending = <<>> /\ stack = <<>> /\ born = <<>>
      /\ simple = [q \in Methods |-> <<>>] /\ simplePending = [q \in Methods |-> <<>>]
  BY DEF Init
<1>2. Origins
  BY <1>1, EmptyOnce DEF Origins, DelayedOrigins, DrainOrigins
<1>3. DOMAIN stack = {} /\ Known = {}
  BY <1>1 DEF Known
<1>4. \A l \in Lists : Held[l] = <<>>
  <2> SUFFICES ASSUME NEW l \in Lists PROVE Held[l] = <<>>
    OBVIOUS
  <2>1. CASE \E q \in Methods : l = <<"main", q>> \/ l = <<"pending", q>>
    BY <1>1, <2>1, HeldQueues
  <2>2. CASE \E k \in 1..MaxNesting : l = <<"todo", k>> \/ l = <<"deferred", k>>
    <3>1. ASSUME NEW k \in 1..MaxNesting
          PROVE  Held[<<"todo", k>>] = <<>> /\ Held[<<"deferred", k>>] = <<>>
      <4>1. k \notin DOMAIN stack
        BY <1>3
      <4> QED BY <4>1, HeldParts, HeldNow
    <3> QED BY <2>2, <3>1
  <2> QED BY <2>1, <2>2, ListsAre
<1>5. Tidy(Held) /\ AllIn(Held) = {}
  BY <1>4, EmptyOnce DEF Tidy, AllIn
<1> QED BY <1>2, <1>3, <1>5 DEF Accounted

(* The two invariants hold with the one they rest on.                       *)
THEOREM AccountedHolds == Spec => [](IInv /\ Origins /\ Accounted)
<1> DEFINE I == IInv /\ Origins /\ Accounted
<1>1. Init => I
  BY InitHolds, InitOrigins
<1>2. I /\ [Next]_vars => I'
  <2> SUFFICES ASSUME I, [Next]_vars PROVE I'
    OBVIOUS
  <2>1. IInv'
    BY ShapeStep, BoundedStep, NestingStep, DistinctStep DEF IInv
  <2>2. Origins'
    BY OriginsStep DEF IInv
  <2>3. Accounted'
    BY AccountedStep
  <2> QED BY <2>1, <2>2, <2>3
<1> HIDE DEF I
<1>3. Spec => []I
  BY <1>1, <1>2, PTL DEF Spec
<1> QED BY <1>3 DEF I

LEMMA PlacesOne ==
  ASSUME Tidy(Held), NEW id
  PROVE  Places(id) = {} \/ \E p : Places(id) = {p}
<1>1. \A p \in Places(id) : \E l \in Lists : \E i \in DOMAIN Held[l] :
        Held[l][i].id = id /\ p = <<l, i>>
  BY DEF Places
<1>2. ASSUME NEW k \in Lists, NEW l \in Lists,
             NEW i \in DOMAIN Held[k], NEW j \in DOMAIN Held[l],
             Held[k][i].id = id, Held[l][j].id = id
      PROVE  k = l /\ i = j
  <2>1. id \in IdsIn(Held[k]) /\ id \in IdsIn(Held[l])
    BY <1>2, AtIds
  <2>2. k = l
    BY <2>1 DEF Tidy
  <2> QED BY <1>2, <2>2 DEF Tidy, OnceIn
<1>3. \A p, r \in Places(id) : p = r
  BY <1>1, <1>2
<1> QED BY <1>3

LEMMA PlacesHeld ==
  ASSUME NEW id
  PROVE  Places(id) # {} <=> \E a \in AllIn(Held) : a.id = id
<1>1. ASSUME NEW p \in Places(id)
      PROVE  \E a \in AllIn(Held) : a.id = id
  <2>1. PICK l \in Lists : \E i \in DOMAIN Held[l] : Held[l][i].id = id
    BY DEF Places
  <2>2. PICK i \in DOMAIN Held[l] : Held[l][i].id = id
    BY <2>1
  <2> QED BY <2>2, AtIds DEF AllIn
<1>2. ASSUME NEW a \in AllIn(Held), a.id = id
      PROVE  Places(id) # {}
  <2>1. PICK l \in Lists : a \in ToSet(Held[l])
    BY DEF AllIn
  <2>2. PICK i \in DOMAIN Held[l] : Held[l][i] = a
    BY <2>1 DEF ToSet
  <2>3. <<l, i>> \in Places(id)
    BY <1>2, <2>2 DEF Places
  <2> QED BY <2>3
<1> QED BY <1>1, <1>2

(* No action given to ExecuteInGameThread is lost or run twice, whatever    *)
(* drain swapped it out, deferred it, put it back or merged it, until its   *)
(* mod unloads.                                                             *)
THEOREM SimpleRunsOnceHolds == Spec => []SimpleRunsOnce
<1>1. IInv /\ Origins /\ Accounted => SimpleRunsOnce
  <2> SUFFICES ASSUME IInv, Accounted, NEW id \in DOMAIN born, born[id].kind = "simple"
               PROVE  LET n == Cardinality(Places(id)) + (IF id \in ran THEN 1 ELSE 0)
                      IN n <= 1 /\ (~Unloading(born[id].mod) => n = 1)
    BY DEF SimpleRunsOnce
  <2>1. id \in Known
    BY SeqParts DEF IInv, Shape, Known
  <2>2. CASE Places(id) = {}
    <3>1. Cardinality(Places(id)) = 0
      BY <2>2, FS_EmptySet
    <3>2. ~Unloading(born[id].mod) => id \in ran
      BY <2>1, <2>2, PlacesHeld DEF Accounted
    <3> QED BY <3>1, <3>2
  <2>3. CASE \E p : Places(id) = {p}
    <3>1. Cardinality(Places(id)) = 1
      BY <2>3, FS_Singleton
    <3>2. id \notin ran
      BY <2>3, PlacesHeld DEF Accounted
    <3> QED BY <3>1, <3>2
  <2> QED BY <2>2, <2>3, PlacesOne DEF Accounted
<1> QED BY <1>1, AccountedHolds, PTL

-----------------------------------------------------------------------------
(* A loop that keeps its place: an action of its id is queued, not marked   *)
(* for removal, and marked Executing only if a drain has collected it.      *)
Queued == ToSet(delayed) \cup ToSet(delayedPending)
Collected(id) == \E k \in DOMAIN stack : \E e \in ToSet(stack[k].ready) : e.id = id
CarriesOn(a, id) == a.id = id /\ ~Removed(a) /\ (a.status = "Executing" => Collected(id))

LEMMA GoesOnIs ==
  ASSUME Shape, NEW id
  PROVE  GoesOn(id) <=> \E a \in Queued : CarriesOn(a, id)
<1>1. ToSet(delayed \o delayedPending) = Queued
  BY JoinSet DEF Shape, Queued
<1> QED BY <1>1 DEF GoesOn, CarriesOn, Collected

LEMMA GoesOnThen ==
  ASSUME Shape', NEW id, NEW b \in Queued', b.id = id, ~Removed(b),
         b.status = "Executing" => Collected(id)'
  PROVE  GoesOn(id)'
<1>1. delayed' \in Seq(DelayedIn') /\ delayedPending' \in Seq(DelayedIn')
  BY DEF Shape
<1>2. ToSet(delayed' \o delayedPending') = Queued'
  BY <1>1, JoinSet DEF Queued
<1> QED BY <1>2 DEF GoesOn, Collected

(* Steps that only change the innermost drain, and not what it collected.   *)
LEMMA TopCollected ==
  ASSUME Shape, stack # <<>>, NEW d, SetTop(d), NEW id, Collected(id)
  PROVE  \/ Collected(id)'
         \/ (\E e \in ToSet(Top.ready) : e.id = id) /\ (\A e \in ToSet(d.ready) : e.id # id)
<1>1. /\ Len(stack) \in Nat \ {0} /\ stack'[Len(stack)] = d /\ Top = stack[Len(stack)]
      /\ \A k \in 1..Len(stack) : k # Len(stack) => stack'[k] = stack[k]
  BY TopNow
<1>2. DOMAIN stack = 1..Len(stack) /\ DOMAIN stack' = 1..Len(stack)
  <2>1. stack \in Seq(DrainsIn) /\ stack' = [stack EXCEPT ![Len(stack)] = d]
    BY DEF Shape, SetTop
  <2> QED BY <2>1, SeqParts
<1>3. PICK k \in DOMAIN stack : \E e \in ToSet(stack[k].ready) : e.id = id
  BY DEF Collected
<1>4. CASE k # Len(stack)
  BY <1>1, <1>2, <1>3, <1>4 DEF Collected
<1>5. CASE k = Len(stack)
  <2>1. Len(stack) \in DOMAIN stack'
    <3>1. \A n \in Nat \ {0} : n \in 1..n
      OBVIOUS
    <3> QED BY <1>1, <1>2, <3>1
  <2>2. (\E e \in ToSet(d.ready) : e.id = id) => Collected(id)'
    BY <1>1, <2>1 DEF Collected
  <2> QED BY <1>1, <1>3, <1>5, <2>2
<1> QED BY <1>4, <1>5

(* Calls of the mods, and time: each action is still queued, marked         *)
(* Executing only if it was, and removed only if it was or is cancelled.    *)
Controlling == UNCHANGED stack /\ \A a \in Queued : \E b \in Queued' : Controls(a, b)

LEMMA ControlsSelf ==
  ASSUME Shape, NEW a \in Queued
  PROVE  Controls(a, a)
<1>1. a \in DelayedIn
  BY DelayedKnown DEF Queued
<1> QED BY <1>1 DEF Controls, Revises, DelayedIn

LEMMA PointwiseControls ==
  ASSUME NEW s, NEW t, DOMAIN t = DOMAIN s, \A i \in DOMAIN s : Controls(s[i], t[i])
  PROVE  \A a \in ToSet(s) : \E b \in ToSet(t) : Controls(a, b)
BY DEF ToSet

LEMMA OneRevisedControls ==
  ASSUME Shape, OneRevised
  PROVE  Controlling
<1>1. UNCHANGED stack
  BY DEF OneRevised, RestOfControl
<1>2. ASSUME NEW s \in Seq(DelayedIn), ToSet(s) \subseteq Queued, NEW i \in DOMAIN s, NEW a,
             Controls(s[i], a)
      PROVE  \A x \in ToSet(s) : \E b \in ToSet([s EXCEPT ![i] = a]) : Controls(x, b)
  <2> DEFINE t == [s EXCEPT ![i] = a]
  <2>1. DOMAIN t = DOMAIN s /\ t[i] = a /\ \A j \in DOMAIN s : j # i => t[j] = s[j]
    OBVIOUS
  <2> HIDE DEF t
  <2>2. \A j \in DOMAIN s : Controls(s[j], s[j])
    BY <1>2, AtIds, ControlsSelf
  <2>3. \A j \in DOMAIN s : Controls(s[j], t[j])
    BY <1>2, <2>1, <2>2
  <2>4. \A x \in ToSet(s) : \E b \in ToSet(t) : Controls(x, b)
    BY <2>1, <2>3, PointwiseControls
  <2> QED BY <2>4 DEF t
<1>3. /\ delayed \in Seq(DelayedIn) /\ delayedPending \in Seq(DelayedIn)
      /\ ToSet(delayed) \subseteq Queued /\ ToSet(delayedPending) \subseteq Queued
  BY DEF Shape, Queued
<1>4. \A x \in Queued : Controls(x, x)
  BY ControlsSelf
<1>5. CASE /\ \E i \in DOMAIN delayed : \E a \in DelayedAction :
               Controls(delayed[i], a) /\ delayed' = [delayed EXCEPT ![i] = a]
           /\ UNCHANGED delayedPending
  <2>1. \A x \in ToSet(delayed) : \E b \in ToSet(delayed') : Controls(x, b)
    BY <1>2, <1>3, <1>5
  <2> QED BY <1>1, <1>4, <1>5, <2>1 DEF Controlling, Queued
<1>6. CASE /\ \E i \in DOMAIN delayedPending : \E a \in DelayedAction :
               Controls(delayedPending[i], a) /\ delayedPending' = [delayedPending EXCEPT ![i] = a]
           /\ UNCHANGED delayed
  <2>1. \A x \in ToSet(delayedPending) : \E b \in ToSet(delayedPending') : Controls(x, b)
    BY <1>2, <1>3, <1>6
  <2> QED BY <1>1, <1>4, <1>6, <2>1 DEF Controlling, Queued
<1> QED BY <1>5, <1>6 DEF OneRevised

LEMMA TickControls ==
  ASSUME Shape, Tick
  PROVE  Controlling
<1>1. UNCHANGED stack /\ delayed' = Elapsed(delayed) /\ delayedPending' = Elapsed(delayedPending)
  BY DEF Tick
<1>2. ASSUME NEW s \in Seq(DelayedIn)
      PROVE  \A a \in ToSet(s) : \E b \in ToSet(Elapsed(s)) : Controls(a, b)
  <2>1. \A i \in DOMAIN s : s[i] \in DelayedAction
    BY SeqParts DEF DelayedIn
  <2>2. ASSUME NEW i \in DOMAIN s PROVE Controls(s[i], Elapsed(s)[i])
    <3>1. CASE s[i].status = "Active" /\ ~s[i].frames /\ s[i].left > 0
      <4>1. Elapsed(s)[i] = [s[i] EXCEPT !.left = @ - 1]
        BY <3>1 DEF Elapsed
      <4> QED BY <2>1, <3>1, <4>1 DEF Controls, Revises, DelayedAction, Removed
    <3>2. CASE ~(s[i].status = "Active" /\ ~s[i].frames /\ s[i].left > 0)
      <4>1. Elapsed(s)[i] = s[i]
        BY <3>2 DEF Elapsed
      <4> QED BY <2>1, <4>1 DEF Controls, Revises
    <3> QED BY <3>1, <3>2
  <2>3. DOMAIN Elapsed(s) = DOMAIN s
    BY DEF Elapsed
  <2> QED BY <2>2, <2>3, PointwiseControls
<1> QED BY <1>1, <1>2 DEF Shape, Controlling, Queued

LEMMA ClearControls ==
  ASSUME Shape, NEW m \in Mods, ClearAllDelayedActions(m)
  PROVE  Controlling
<1>1. /\ UNCHANGED stack /\ delayed' = RemoveAllOf(delayed, m)
      /\ delayedPending' = RemoveAllOf(delayedPending, m)
      /\ RemovedNow \subseteq cancelled'
  BY DEF ClearAllDelayedActions
<1>2. ASSUME NEW s \in Seq(DelayedIn), ToSet(s) \subseteq Queued,
             RemovedIn(s, RemoveAllOf(s, m)) \subseteq cancelled'
      PROVE  \A a \in ToSet(s) : \E b \in ToSet(RemoveAllOf(s, m)) : Controls(a, b)
  <2>1. \A i \in DOMAIN s : s[i] \in DelayedAction /\ s[i] \in Queued
    BY <1>2, SeqParts, AtIds DEF DelayedIn
  <2>2. ASSUME NEW i \in DOMAIN s PROVE Controls(s[i], RemoveAllOf(s, m)[i])
    <3>1. CASE s[i].mod = m
      <4>1. RemoveAllOf(s, m)[i] = MarkRemoved(s[i])
        BY <3>1 DEF RemoveAllOf
      <4>2. Removed(s[i]) \/ s[i].id \in cancelled'
        <5>1. Removed(RemoveAllOf(s, m)[i])
          BY <2>1, <4>1 DEF Removed, MarkRemoved, DelayedAction
        <5> QED BY <1>2, <5>1 DEF RemovedIn
      <4>3. Revises(s[i], MarkRemoved(s[i])) /\ MarkRemoved(s[i]).status = "PendingRemoval"
        BY <2>1 DEF Revises, DelayedAction, Removed, MarkRemoved, Status
      <4> QED BY <4>1, <4>2, <4>3 DEF Controls
    <3>2. CASE s[i].mod # m
      <4>1. RemoveAllOf(s, m)[i] = s[i]
        BY <3>2 DEF RemoveAllOf
      <4> QED BY <2>1, <4>1 DEF Controls, Revises
    <3> QED BY <3>1, <3>2
  <2>3. DOMAIN RemoveAllOf(s, m) = DOMAIN s
    BY DEF RemoveAllOf
  <2> QED BY <2>2, <2>3, PointwiseControls
<1>3. /\ delayed \in Seq(DelayedIn) /\ delayedPending \in Seq(DelayedIn)
      /\ ToSet(delayed) \subseteq Queued /\ ToSet(delayedPending) \subseteq Queued
  BY DEF Shape, Queued
<1>4. /\ RemovedIn(delayed, RemoveAllOf(delayed, m)) \subseteq cancelled'
      /\ RemovedIn(delayedPending, RemoveAllOf(delayedPending, m)) \subseteq cancelled'
  BY <1>1 DEF RemovedNow
<1>5. /\ \A a \in ToSet(delayed) : \E b \in ToSet(delayed') : Controls(a, b)
      /\ \A a \in ToSet(delayedPending) : \E b \in ToSet(delayedPending') : Controls(a, b)
  BY <1>1, <1>2, <1>3, <1>4
<1> QED BY <1>1, <1>5 DEF Controlling, Queued

LEMMA GainControls ==
  ASSUME Shape, CreationFacts
  PROVE  Controlling
<1>1. delayed \in Seq(DelayedAction) /\ delayedPending \in Seq(DelayedAction)
  BY SeqWider DEF Shape, DelayedIn
<1>2. PICK n \in DelayedAction :
        \/ delayed' = Append(delayed, n) /\ UNCHANGED delayedPending
        \/ delayedPending' = Append(delayedPending, n) /\ UNCHANGED delayed
  BY DEF CreationFacts, DelayedGains
<1>3. ASSUME NEW s \in Seq(DelayedAction) PROVE ToSet(s) \subseteq ToSet(Append(s, n))
  <2>1. \A i \in DOMAIN s : i \in DOMAIN Append(s, n) /\ Append(s, n)[i] = s[i]
    BY AppendParts
  <2> QED BY <2>1 DEF ToSet
<1>4. Queued \subseteq Queued'
  BY <1>1, <1>2, <1>3 DEF Queued
<1>5. UNCHANGED stack
  BY DEF CreationFacts
<1> QED BY <1>4, <1>5, ControlsSelf DEF Controlling

LEMMA MovesOn ==
  ASSUME Shape, Shape', Controlling, NEW id, id \notin cancelled', GoesOn(id)
  PROVE  GoesOn(id)'
<1>1. PICK a \in Queued : CarriesOn(a, id)
  BY GoesOnIs
<1>2. PICK b \in Queued' : Controls(a, b)
  BY DEF Controlling
<1>3. Collected(id) => Collected(id)'
  BY DEF Controlling, Collected
<1>4. b.id = id /\ ~Removed(b) /\ (b.status = "Executing" => Collected(id)')
  BY <1>1, <1>2, <1>3 DEF Controls, Revises, CarriesOn
<1> QED BY <1>4, GoesOnThen

(* The drains' own steps.  Those that leave the delayed actions alone keep  *)
(* what they collected.                                                     *)
LEMMA SameQueuedMovesOn ==
  ASSUME Shape, Shape', UNCHANGED <<delayed, delayedPending>>, NEW id, GoesOn(id),
         Collected(id) => Collected(id)'
  PROVE  GoesOn(id)'
<1>1. PICK a \in Queued : CarriesOn(a, id)
  BY GoesOnIs
<1>2. a \in Queued' /\ a.id = id /\ ~Removed(a) /\ (a.status = "Executing" => Collected(id)')
  BY <1>1 DEF CarriesOn, Queued
<1> QED BY <1>2, GoesOnThen

LEMMA SameReadyMovesOn ==
  ASSUME Shape, Shape', UNCHANGED <<delayed, delayedPending>>, NEW id, GoesOn(id),
         stack # <<>>, NEW d, SetTop(d), d.ready = Top.ready
  PROVE  GoesOn(id)'
<1>1. Collected(id) => Collected(id)'
  BY TopCollected
<1> QED BY <1>1, SameQueuedMovesOn

KeepsReady == SimpleStep \/ SkipReady \/ CallReady \/ ReadyReturns \/ IdleStep

LEMMA KeepsReadySets ==
  ASSUME Shape, KeepsReady
  PROVE  /\ UNCHANGED <<delayed, delayedPending>> /\ stack # <<>>
         /\ \E d : SetTop(d) /\ d.ready = Top.ready
<1>1. UNCHANGED <<delayed, delayedPending>> /\ stack # <<>>
  BY IdleMoves, IdleUnchanged DEF KeepsReady, SimpleStep, TakeSimple, SkipSimple, DeferSimple,
     CallSimple, SimpleReturns, PutBackDeferred, SkipReady, CallReady, ReadyReturns, queues, At
<1>2. Top \in DrainsIn
  BY <1>1, TopIn
<1>3. ASSUME NEW d, SetTop(d), d.ready = Top.ready
      PROVE  \E c : SetTop(c) /\ c.ready = Top.ready
  BY <1>3
<1>4. CASE TakeSimple
  <2> DEFINE d == [Top EXCEPT !.pc = "runSimple", !.todo = simple[Top.method]]
  <2>1. SetTop(d)
    BY <1>4 DEF TakeSimple
  <2>2. d.ready = Top.ready
    BY <1>2, DrainSets
  <2> HIDE DEF d
  <2> QED BY <1>1, <1>3, <2>1, <2>2
<1>5. CASE SkipSimple \/ SkipReady
  <2> DEFINE d == [Top EXCEPT !.todo = Tail(Top.todo)]
  <2>1. SetTop(d)
    BY <1>5 DEF SkipSimple, SkipReady
  <2>2. d.ready = Top.ready
    BY <1>2, DrainSets
  <2> HIDE DEF d
  <2> QED BY <1>1, <1>3, <2>1, <2>2
<1>6. CASE DeferSimple
  <2> DEFINE d == [Top EXCEPT !.todo = Tail(Top.todo), !.deferred = Append(Top.deferred, Head(Top.todo))]
  <2>1. SetTop(d)
    BY <1>6 DEF DeferSimple
  <2>2. d.ready = Top.ready
    BY <1>2, DrainSets
  <2> HIDE DEF d
  <2> QED BY <1>1, <1>3, <2>1, <2>2
<1>7. CASE CallSimple
  <2> DEFINE d == [Top EXCEPT !.pc = "inSimple"]
  <2>1. SetTop(d)
    BY <1>7 DEF CallSimple
  <2>2. d.ready = Top.ready
    BY <1>2, DrainSets
  <2> HIDE DEF d
  <2> QED BY <1>1, <1>3, <2>1, <2>2
<1>8. CASE CallReady
  <2> DEFINE d == [Top EXCEPT !.pc = "inDelayed"]
  <2>1. SetTop(d)
    BY <1>8 DEF CallReady
  <2>2. d.ready = Top.ready
    BY <1>2, DrainSets
  <2> HIDE DEF d
  <2> QED BY <1>1, <1>3, <2>1, <2>2
<1>9. CASE IdleStep
  BY <1>1, <1>9, IdleMoves
<1>10. CASE SimpleReturns
  <2> DEFINE d == [Top EXCEPT !.pc = "runSimple", !.todo = Tail(Top.todo)]
  <2>1. SetTop(d)
    BY <1>10 DEF SimpleReturns
  <2>2. d.ready = Top.ready
    BY <1>2, DrainSets
  <2> HIDE DEF d
  <2> QED BY <1>1, <1>3, <2>1, <2>2
<1>11. CASE ReadyReturns
  <2> DEFINE d == [Top EXCEPT !.pc = "runDelayed", !.todo = Tail(Top.todo)]
  <2>1. SetTop(d)
    BY <1>11 DEF ReadyReturns
  <2>2. d.ready = Top.ready
    BY <1>2, DrainSets
  <2> HIDE DEF d
  <2> QED BY <1>1, <1>3, <2>1, <2>2
<1>12. CASE PutBackDeferred
  <2> DEFINE d == [Top EXCEPT !.pc = "delayed", !.deferred = <<>>]
  <2>1. SetTop(d)
    BY <1>12 DEF PutBackDeferred
  <2>2. d.ready = Top.ready
    BY <1>2, DrainSets
  <2> HIDE DEF d
  <2> QED BY <1>1, <1>3, <2>1, <2>2
<1> QED BY <1>4, <1>5, <1>6, <1>7, <1>8, <1>9, <1>10, <1>11, <1>12 DEF KeepsReady, SimpleStep

LEMMA EnterMovesOn ==
  ASSUME Shape, Shape', NEW q \in Methods, EnterDrain(q), NEW id, GoesOn(id)
  PROVE  GoesOn(id)'
<1>1. UNCHANGED <<delayed, delayedPending>>
  BY DEF EnterDrain, queues
<1>2. /\ DOMAIN stack = 1..Len(stack) /\ DOMAIN stack' = 1..(Len(stack) + 1) /\ Len(stack) \in Nat
      /\ \A k \in DOMAIN stack : stack'[k] = stack[k]
  BY EnterParts
<1>3. DOMAIN stack \subseteq DOMAIN stack'
  BY <1>2
<1>4. Collected(id) => Collected(id)'
  BY <1>2, <1>3 DEF Collected
<1> QED BY <1>1, <1>4, SameQueuedMovesOn

LEMMA MergeMovesOn ==
  ASSUME Shape, Shape', MergePending, NEW id, GoesOn(id)
  PROVE  GoesOn(id)'
<1>1. /\ DOMAIN stack = 1..Len(stack) /\ DOMAIN stack' = 1..(Len(stack) - 1)
      /\ Len(stack) \in Nat \ {0}
      /\ \A k \in DOMAIN stack' : stack'[k] = stack[k]
      /\ Top = stack[Len(stack)] /\ Top.ready = <<>>
  BY MergeParts
<1>2. \A N \in Nat \ {0} : \A i \in 1..N : i = N \/ i \in 1..(N - 1)
  OBVIOUS
<1>3. Collected(id) => Collected(id)'
  <2> SUFFICES ASSUME NEW k \in DOMAIN stack, NEW e \in ToSet(stack[k].ready), e.id = id
               PROVE  Collected(id)'
    BY DEF Collected
  <2>1. k # Len(stack)
    BY <1>1, EmptyOnce
  <2>2. k \in DOMAIN stack'
    BY <1>1, <1>2, <2>1
  <2> QED BY <1>1, <2>2 DEF Collected
<1>4. Queued' = Queued
  <2>1. delayed \in Seq(DelayedIn) /\ delayedPending \in Seq(DelayedIn)
    BY DEF Shape
  <2>2. delayed' = delayed \o delayedPending /\ delayedPending' = <<>>
    BY DEF MergePending
  <2> QED BY <2>1, <2>2, JoinSet, EmptyOnce DEF Queued
<1>5. PICK a \in Queued : CarriesOn(a, id)
  BY GoesOnIs
<1>6. a \in Queued' /\ a.id = id /\ ~Removed(a) /\ (a.status = "Executing" => Collected(id)')
  BY <1>3, <1>4, <1>5 DEF CarriesOn
<1> QED BY <1>6, GoesOnThen

LEMMA TakeReadyMovesOn ==
  ASSUME Shape, Shape', DelayedOrigins, TakeReady, NEW id, GoesOn(id)
  PROVE  GoesOn(id)'
<1>1. stack # <<>> /\ Top \in DrainsIn /\ Top.ready = <<>> /\ UNCHANGED delayedPending
  BY AtTop DEF TakeReady, RunsSimple, RunsDelayed
<1> DEFINE due == {i \in DOMAIN delayed : IsDue(delayed[i], Top.method)}
           ready == [k \in DOMAIN InOrder(due) |->
                       LET i == InOrder(due)[k]
                       IN [index |-> i, id |-> delayed[i].id, mod |-> delayed[i].mod]]
           d == [Top EXCEPT !.pc = "runDelayed", !.todo = ready, !.ready = ready]
<1>2. SetTop(d) /\ delayed' = [i \in DOMAIN delayed |->
                                 IF i \in due THEN [Aged(delayed[i], Top.method) EXCEPT !.status = "Executing"]
                                              ELSE Aged(delayed[i], Top.method)]
  BY DEF TakeReady
<1>3. due \in SUBSET DOMAIN delayed /\ \A i \in due : IsDue(delayed[i], Top.method)
  OBVIOUS
<1> HIDE DEF due
<1>4. \A i \in due : \E k \in DOMAIN ready : ready[k].index = i /\ ready[k].id = delayed[i].id
  BY <1>3, CollectedGood
<1> HIDE DEF ready
<1>5. d.ready = ready
  BY <1>1, DrainSets
<1> HIDE DEF d
<1>6. Collected(id) => Collected(id)'
  BY <1>1, <1>2, EmptyOnce, TopCollected
<1>7. ASSUME NEW i \in due, delayed[i].id = id
      PROVE  Collected(id)'
  <2>1. \E e \in ToSet(d.ready) : e.id = id
    BY <1>4, <1>5, <1>7, AtIds
  <2>2. Len(stack) \in DOMAIN stack' /\ stack'[Len(stack)] = d
    <3>1. Len(stack) \in Nat \ {0} /\ stack'[Len(stack)] = d
      BY <1>1, <1>2, TopNow
    <3>2. DOMAIN stack' = DOMAIN stack
      BY <1>2 DEF SetTop
    <3> QED BY <1>1, <3>1, <3>2, TopIn
  <2> QED BY <2>1, <2>2 DEF Collected
<1>8. PICK a \in Queued : CarriesOn(a, id)
  BY GoesOnIs
<1>9. CASE a \in ToSet(delayedPending)
  <2>1. a \in Queued'
    BY <1>1, <1>9 DEF Queued
  <2> QED BY <1>6, <1>8, <2>1, GoesOnThen DEF CarriesOn
<1>10. CASE a \in ToSet(delayed)
  <2>1. PICK i \in DOMAIN delayed : delayed[i] = a
    BY <1>10 DEF ToSet
  <2>2. a \in DelayedAction
    BY <1>10, DelayedKnown DEF DelayedIn
  <2>3. i \in DOMAIN delayed' /\ delayed'[i] \in Queued'
    BY <1>2 DEF Queued, ToSet
  <2> DEFINE g == Aged(a, Top.method)
  <2>4. g.id = a.id /\ g.status = a.status /\ g \in DelayedAction
    BY <2>2 DEF Aged, Considered, DelayedAction
  <2> HIDE DEF g
  <2>5. CASE i \in due
    <3>1. delayed'[i] = [g EXCEPT !.status = "Executing"]
      BY <1>2, <2>1, <2>5 DEF g
    <3>2. delayed'[i].id = id /\ ~Removed(delayed'[i])
      BY <1>8, <2>4, <3>1 DEF CarriesOn, Removed, DelayedAction
    <3>3. Collected(id)'
      BY <1>7, <1>8, <2>1, <2>5 DEF CarriesOn
    <3> QED BY <2>3, <3>2, <3>3, GoesOnThen
  <2>6. CASE i \notin due
    <3>1. delayed'[i] = g
      BY <1>2, <2>1, <2>6 DEF g
    <3>2. /\ delayed'[i].id = id /\ ~Removed(delayed'[i])
          /\ delayed'[i].status = "Executing" => Collected(id)'
      BY <1>6, <1>8, <2>4, <3>1 DEF CarriesOn, Removed
    <3> QED BY <2>3, <3>2, GoesOnThen
  <2> QED BY <2>5, <2>6
<1> QED BY <1>8, <1>9, <1>10 DEF Queued

LEMMA RetireMovesOn ==
  ASSUME IInv, Shape', DelayedOrigins, RetireReady, IndexesHold,
         NEW id, born[id].kind = "loop", GoesOn(id)
  PROVE  GoesOn(id)'
<1> DEFINE indexes == {e.index : e \in ToSet(Top.ready)}
           updated == [i \in DOMAIN delayed |->
                         IF i \in indexes THEN AfterExecution(delayed[i]) ELSE delayed[i]]
           keep == {i \in DOMAIN updated : ~Removed(updated[i])}
           d == [Top EXCEPT !.pc = "notify", !.ready = <<>>]
<1>0. Shape /\ Distinct
  BY DEF IInv
<1>1. /\ stack # <<>> /\ Top \in DrainsIn /\ UNCHANGED delayedPending
      /\ SetTop(d) /\ delayed' = Kept(updated, keep)
  BY <1>0, AtTop DEF RetireReady
<1>2. updated \in Seq(DelayedIn) /\ DOMAIN updated = DOMAIN delayed
  <2>1. delayed \in Seq(DelayedIn) /\ \A i \in DOMAIN delayed : delayed[i] \in DelayedIn
    BY <1>0, SeqParts DEF Shape
  <2>2. \A a \in DelayedIn : AfterExecution(a) \in DelayedIn
    BY DEF AfterExecution, DelayedIn, DelayedAction, Removed, Status, MarkRemoved
  <2>3. \A i \in DOMAIN delayed : updated[i] \in DelayedIn
    BY <2>1, <2>2
  <2> QED BY <2>1, <2>3
<1>3. \A i \in DOMAIN delayed :
        updated[i] = IF i \in indexes THEN AfterExecution(delayed[i]) ELSE delayed[i]
  OBVIOUS
<1>4. ASSUME NEW i \in DOMAIN delayed, ~Removed(updated[i])
      PROVE  updated[i] \in Queued'
  <2>1. \E k \in DOMAIN Kept(updated, keep) : Kept(updated, keep)[k] = updated[i]
    <3>1. i \in keep /\ keep \in SUBSET DOMAIN updated
      BY <1>2, <1>4
    <3> HIDE DEF updated, keep
    <3> QED BY <1>2, <3>1, KeptEach
  <2> QED BY <1>1, <2>1 DEF Queued, ToSet
<1> HIDE DEF updated, keep
<1>5. d.ready = <<>>
  BY <1>1, DrainSets
<1> HIDE DEF d
<1>6. PICK a \in Queued : CarriesOn(a, id)
  BY <1>0, GoesOnIs
<1>7. a \in DelayedIn /\ a.id = id /\ ~Removed(a) /\ a.looping
  <2>1. IsOrigin(a.id, a.mod, {KindOf(a)})
    BY DEF DelayedOrigins, Queued
  <2> QED BY <1>0, <1>6, <2>1, DelayedKnown DEF IsOrigin, KindOf, CarriesOn, Queued
<1>8. Collected(id)' \/ Collected(id) => Collected(id)' \/ \E e \in ToSet(Top.ready) : e.id = id
  BY <1>0, <1>1, TopCollected
<1>9. ASSUME NEW e \in ToSet(Top.ready), e.id = id
      PROVE  e.index \in indexes /\ e.index \in DOMAIN delayed /\ delayed[e.index].id = id
  BY <1>9 DEF IndexesHold
<1>10. CASE a \in ToSet(delayedPending)
  <2>1. \A e \in ToSet(Top.ready) : e.id # id
    <3> SUFFICES ASSUME NEW e \in ToSet(Top.ready), e.id = id PROVE FALSE
      OBVIOUS
    <3>1. PICK j \in DOMAIN delayedPending : delayedPending[j] = a
      BY <1>10 DEF ToSet
    <3>2. Clash(delayed[e.index], delayedPending[j], stray)
      BY <1>7, <1>9, <3>1 DEF Clash
    <3> QED BY <1>0, <1>9, <3>1, <3>2 DEF Distinct, Apart
  <2>2. a \in Queued'
    BY <1>1, <1>10 DEF Queued
  <2> QED BY <1>6, <1>7, <1>8, <2>1, <2>2, GoesOnThen DEF CarriesOn
<1>11. CASE a \in ToSet(delayed)
  <2>1. PICK i \in DOMAIN delayed : delayed[i] = a
    BY <1>11 DEF ToSet
  <2>2. CASE i \in indexes
    <3> DEFINE b == AfterExecution(a)
    <3>1. updated[i] = b
      BY <1>3, <2>1, <2>2
    <3>2. b.id = id /\ ~Removed(b) /\ b.status # "Executing"
      BY <1>7 DEF AfterExecution, DelayedIn, DelayedAction, Removed
    <3> HIDE DEF b
    <3> QED BY <1>4, <3>1, <3>2, GoesOnThen
  <2>3. CASE i \notin indexes
    <3>1. updated[i] = a
      BY <1>3, <2>1, <2>3
    <3>2. \A e \in ToSet(Top.ready) : e.id # id
      <4> SUFFICES ASSUME NEW e \in ToSet(Top.ready), e.id = id PROVE FALSE
        OBVIOUS
      <4>1. Clash(delayed[e.index], delayed[i], stray)
        BY <1>7, <1>9, <2>1 DEF Clash
      <4>2. e.index = i
        BY <1>0, <1>9, <4>1 DEF Distinct, Unique
      <4> QED BY <1>9, <2>3, <4>2
    <3> QED BY <1>4, <1>6, <1>7, <1>8, <3>1, <3>2, GoesOnThen DEF CarriesOn
  <2> QED BY <2>2, <2>3
<1> QED BY <1>10, <1>11 DEF Queued

LEMMA EraseMovesOn ==
  ASSUME Shape, Shape', DelayedOrigins, NEW m \in Mods, EraseActions(m),
         NEW id, born[id].mod # m, GoesOn(id)
  PROVE  GoesOn(id)'
<1>1. /\ delayed' = Without(delayed, m) /\ delayedPending' = Without(delayedPending, m)
      /\ UNCHANGED stack
  BY DEF EraseActions
<1>2. PICK a \in Queued : CarriesOn(a, id)
  BY GoesOnIs
<1>3. a.mod # m
  BY <1>2 DEF CarriesOn, DelayedOrigins, IsOrigin, Queued
<1>4. ASSUME NEW s \in Seq(DelayedIn), a \in ToSet(s)
      PROVE  a \in ToSet(Without(s, m))
  <2> DEFINE keep == {i \in DOMAIN s : s[i].mod # m}
  <2>1. PICK i \in DOMAIN s : s[i] = a
    BY <1>4 DEF ToSet
  <2>2. \E k \in DOMAIN Kept(s, keep) : Kept(s, keep)[k] = s[i]
    <3>1. i \in keep /\ keep \in SUBSET DOMAIN s
      BY <1>3, <2>1
    <3> HIDE DEF keep
    <3> QED BY <3>1, KeptEach
  <2> QED BY <2>1, <2>2 DEF Without, ToSet
<1>5. a \in Queued'
  BY <1>1, <1>4 DEF Shape, Queued
<1> QED BY <1>1, <1>2, <1>5, GoesOnThen DEF CarriesOn, Collected

(* The calls that only control what is queued.                              *)
LEMMA CallsControl ==
  ASSUME Shape, Bounded, Tick \/ \E m \in Mods : CreateCall(m) \/ ControlCall(m)
  PROVE  Controlling
<1>1. CASE Tick
  BY <1>1, TickControls
<1>2. ASSUME NEW m \in Mods, CreateCall(m)
      PROVE  Controlling
  <2>1. ASSUME NEW frames \in BOOLEAN, NEW looping \in BOOLEAN, NEW d \in Delays,
               Create(m, frames, looping, d)
        PROVE  Controlling
    BY <2>1, CreateMakes, GainControls
  <2>2. ASSUME NEW h \in Passed, NEW d \in Delays, ExecuteWithHandle(m, h, d)
        PROVE  Controlling
    BY <2>2, ExecuteWithHandleMakes, GainControls
  <2>3. ASSUME NEW h \in Passed, NEW d \in Delays, RetriggerExisting(m, h, d)
        PROVE  Controlling
    BY <2>3, ControlRevisesOne, OneRevisedControls
  <2> QED BY <1>2, <2>1, <2>2, <2>3 DEF CreateCall
<1>3. ASSUME NEW m \in Mods, ControlCall(m)
      PROVE  Controlling
  <2>1. CASE ClearAllDelayedActions(m)
    BY <2>1, ClearControls
  <2>2. ASSUME NEW h \in Passed,
               \/ ResetDelayedActionTimer(m, h) \/ CancelDelayedAction(m, h)
               \/ PauseDelayedAction(m, h) \/ UnpauseDelayedAction(m, h)
               \/ \E d \in Delays : SetDelayedActionTimer(m, h, d)
        PROVE  Controlling
    BY <2>2, ControlRevisesOne, OneRevisedControls
  <2> QED BY <1>3, <2>1, <2>2 DEF ControlCall
<1> QED BY <1>1, <1>2, <1>3

(* A step from a state where a loop goes on.                                *)
LEMMA KnownMovesOn ==
  ASSUME IInv, IInv', Origins, [Next]_vars, RetireReady => IndexesHold,
         NEW id \in Known, IsWanted(id)', GoesOn(id)
  PROVE  GoesOn(id)'
<1>1. Shape /\ Shape' /\ Bounded /\ DelayedOrigins
  BY DEF IInv, Origins
<1>2. /\ id \notin cancelled' /\ born[id].kind = "loop" /\ unload'[born[id].mod] = "loaded"
  <2>1. born'[id] = born[id]
    BY <1>1, BornStep DEF BornGrows
  <2> QED BY <2>1 DEF IsWanted, Unloading
<1>3. CASE UNCHANGED <<delayed, delayedPending, stack>>
  BY <1>1, <1>3, SameQueuedMovesOn DEF Collected
<1>4. CASE UNCHANGED vars
  BY <1>3, <1>4 DEF vars, queues
<1>5. CASE Next
  <2>1. CASE Tick \/ \E m \in Mods : CreateCall(m) \/ ControlCall(m)
    BY <1>1, <1>2, <2>1, CallsControl, MovesOn
  <2>2. CASE KeepsReady
    <3>1. UNCHANGED <<delayed, delayedPending>> /\ stack # <<>>
      BY <1>1, <2>2, KeepsReadySets
    <3>2. PICK d : SetTop(d) /\ d.ready = Top.ready
      BY <1>1, <2>2, KeepsReadySets
    <3> QED BY <1>1, <3>1, <3>2, SameReadyMovesOn
  <2>3. CASE TakeReady
    BY <1>1, <2>3, TakeReadyMovesOn
  <2>4. CASE RetireReady
    BY <1>1, <1>2, <2>4, RetireMovesOn
  <2>5. CASE MergePending
    BY <1>1, <2>5, MergeMovesOn
  <2>6. CASE \E q \in Methods : EnterDrain(q)
    BY <1>1, <2>6, EnterMovesOn
  <2>7. ASSUME NEW m \in Mods, EraseActions(m)
        PROVE  GoesOn(id)'
    <3>1. unload'[m] = "gone"
      BY <1>1, <2>7 DEF EraseActions, Shape
    <3> QED BY <1>1, <1>2, <2>7, <3>1, EraseMovesOn
  <2>8. CASE \/ ConstructElsewhere \/ EndUnload
             \/ \E m \in Mods : \/ BeginUnload(m) \/ DrainsSettled(m)
                               \/ QueueCall(m) \/ MakeActionHandle(m)
    BY <1>3, <2>8 DEF ConstructElsewhere, MakeActionHandle, ReadCounter, WriteCounter, EndUnload,
       BeginUnload, DrainsSettled, QueueCall, ExecuteInGameThread, queues
  <2> QED BY <1>5, <2>1, <2>2, <2>3, <2>4, <2>5, <2>6, <2>7, <2>8
          DEF Next, DrainStep, ActionReturns, UnloadStep, UnloadGoesOn, KeepsReady, SimpleStep, IdleStep
<1> QED BY <1>4, <1>5

(* A loop that is created is queued.                                        *)
LEMMA NewGoesOn ==
  ASSUME IInv, IInv', [Next]_vars, NEW id \in Known', id \notin Known, IsWanted(id)'
  PROVE  GoesOn(id)'
<1>1. Shape /\ Shape' /\ Bounded
  BY DEF IInv
<1>2. born' # born /\ born'[id].kind = "loop"
  BY DEF Known, IsWanted
<1>3. CASE UNCHANGED vars
  BY <1>2, <1>3 DEF vars, history
<1>4. CASE Next
  <2>1. CASE RevisingStep
    BY <1>2, <2>1 DEF RevisingStep, BothRevised, RestOfControl
  <2>2. CASE OtherStep
    BY <1>1, <1>2, <2>2, OtherBorn, QueuesBorn
  <2>3. CASE GainingStep
    <3>1. PICK n \in DelayedAction :
            /\ n.id = NewId /\ n.status = "Active"
            /\ born' = Append(born, [mod |-> n.mod, kind |-> IF n.looping THEN "loop" ELSE "once"])
            /\ \/ delayed' = Append(delayed, n) /\ UNCHANGED delayedPending
               \/ delayedPending' = Append(delayedPending, n) /\ UNCHANGED delayed
      BY <2>3 DEF GainingStep, CreationFacts, DelayedGains
    <3>2. id = NewId
      BY <1>1, <3>1, GainsBorn
    <3>3. delayed \in Seq(DelayedAction) /\ delayedPending \in Seq(DelayedAction)
      BY <1>1, SeqWider DEF Shape, DelayedIn
    <3>4. \A s \in Seq(DelayedAction) : n \in ToSet(Append(s, n))
      <4> SUFFICES ASSUME NEW s \in Seq(DelayedAction) PROVE n \in ToSet(Append(s, n))
        OBVIOUS
      <4>1. Len(s) + 1 \in DOMAIN Append(s, n) /\ Append(s, n)[Len(s) + 1] = n
        OBVIOUS
      <4> QED BY <4>1, AtIds
    <3>5. n \in Queued'
      BY <3>1, <3>3, <3>4 DEF Queued
    <3>6. ~Removed(n) /\ n.status # "Executing"
      BY <3>1 DEF Removed
    <3> QED BY <1>1, <3>1, <3>2, <3>5, <3>6, GoesOnThen
  <2> QED BY <1>1, <1>4, <2>1, <2>2, <2>3, NextIs
<1> QED BY <1>3, <1>4

(* A loop that is neither cancelled nor unloaded keeps its place from each  *)
(* step to the next, unless a drain retires by indexes that have moved.     *)
THEOREM LoopKeepsItsPlaceHolds == Spec => LoopKeepsItsPlace
<1> DEFINE I == IInv /\ Origins /\ Accounted
<1>1. I /\ I' /\ [Next]_vars =>
        \A id \in DOMAIN born' :
          (/\ IsWanted(id)' /\ (id \in DOMAIN born => GoesOn(id))
           /\ RetireReady => IndexesHold) => GoesOn(id)'
  <2> SUFFICES ASSUME I, I', [Next]_vars, NEW id \in DOMAIN born', IsWanted(id)',
                      id \in DOMAIN born => GoesOn(id), RetireReady => IndexesHold
               PROVE  GoesOn(id)'
    OBVIOUS
  <2>1. id \in Known' /\ (id \in Known => id \in DOMAIN born)
    BY DEF IInv, Shape, Known
  <2>2. CASE id \in Known
    BY <2>1, <2>2, KnownMovesOn
  <2>3. CASE id \notin Known
    BY <2>1, <2>3, NewGoesOn
  <2> QED BY <2>2, <2>3
<1>2. Spec => []I
  BY AccountedHolds
<1> HIDE DEF I
<1> QED BY <1>1, <1>2, PTL DEF Spec, LoopKeepsItsPlace
-----------------------------------------------------------------------------
(* The scheduler implements ActionService.  One drain at most is calling an *)
(* action, and the action is the head of what that drain has to do.         *)
Caller(k) == k \in DOMAIN stack /\ Calling(stack[k])
Calls == {Head(stack[k].todo) : k \in {i \in DOMAIN stack : Calling(stack[i])}}

(* What a step does to the call: nothing, start one or end one.             *)
SameCall == Calls' = Calls
StartsCall == Calls = {} /\ Calls' = {Head(Top.todo)}
EndsCall == Calls # {} /\ Calls' = {}

LEMMA InCallIs == InCall = {a.id : a \in Calls} /\ InCall' = {a.id : a \in Calls'}
BY DEF InCall, Calls

LEMMA CalledIn ==
  ASSUME Shape, NEW a \in Calls
  PROVE  a.id \in Known /\ a.mod \in Undrained
<1>1. PICK k \in DOMAIN stack : Calling(stack[k]) /\ a = Head(stack[k].todo)
  BY DEF Calls
<1>2. stack[k] \in DrainsIn
  BY SeqParts DEF Shape
<1> DEFINE d == stack[k]
<1>3. /\ d.pc \in RunsSimple => d.todo \in Seq(SimpleIn(Undrained))
      /\ d.pc \in RunsDelayed => d.todo \in Seq(ReadyIn)
      /\ d.todo # <<>> /\ (d.pc \in RunsSimple \/ d.pc \in RunsDelayed)
  BY <1>1, <1>2, DrainSets DEF Calling, RunsSimple, RunsDelayed
<1> HIDE DEF d
<1>4. Head(d.todo) \in SimpleIn(Undrained) \/ Head(d.todo) \in ReadyIn
  BY <1>3, TailIn
<1> QED BY <1>1, <1>4 DEF SimpleIn, ReadyIn, d

(* The same drains are calling, and call the same.                          *)
LEMMA SameCallers ==
  ASSUME \A k : Caller(k) => Caller(k)' /\ stack'[k] = stack[k],
         \A k : Caller(k)' => Caller(k)
  PROVE  SameCall
<1>1. {k \in DOMAIN stack : Calling(stack[k])} = {k \in DOMAIN stack' : Calling(stack'[k])}
  BY DEF Caller
<1>2. \A k \in {i \in DOMAIN stack : Calling(stack[i])} : stack'[k] = stack[k]
  BY DEF Caller
<1> QED BY <1>1, <1>2 DEF SameCall, Calls

(* What a change of the innermost drain leaves of the others.               *)
LEMMA TopChanges ==
  ASSUME Shape, stack # <<>>, NEW d, SetTop(d)
  PROVE  /\ DOMAIN stack' = DOMAIN stack /\ Len(stack) \in DOMAIN stack
         /\ Top = stack[Len(stack)] /\ stack'[Len(stack)] = d
         /\ \A k \in DOMAIN stack : k # Len(stack) => stack'[k] = stack[k]
<1>1. /\ Len(stack) \in Nat \ {0} /\ stack'[Len(stack)] = d /\ Top = stack[Len(stack)]
      /\ \A k \in 1..Len(stack) : k # Len(stack) => stack'[k] = stack[k]
  BY TopNow
<1>2. DOMAIN stack = 1..Len(stack) /\ DOMAIN stack' = 1..Len(stack)
  <2>1. stack \in Seq(DrainsIn) /\ stack' = [stack EXCEPT ![Len(stack)] = d]
    BY DEF Shape, SetTop
  <2> QED BY <2>1, SeqParts
<1>3. Len(stack) \in 1..Len(stack)
  BY <1>1
<1> QED BY <1>1, <1>2, <1>3

(* A step of a drain that neither calls nor returns.                        *)
QuietStep ==
  \/ TakeSimple \/ SkipSimple \/ DeferSimple \/ PutBackDeferred
  \/ TakeReady \/ SkipReady \/ RetireReady \/ IdleStep

LEMMA QuietMoves ==
  ASSUME Shape, QuietStep
  PROVE  stack # <<>> /\ ~Calling(Top) /\ \E d : SetTop(d) /\ ~Calling(d)
<1>1. CASE IdleStep
  BY <1>1, IdleMoves DEF Calling, RunsSimple, RunsDelayed
<1>2. ASSUME ~IdleStep
      PROVE  stack # <<>> /\ Top \in DrainsIn /\ ~Calling(Top)
  BY <1>2, TopIn DEF QuietStep, TakeSimple, SkipSimple, DeferSimple, PutBackDeferred, TakeReady,
     SkipReady, RetireReady, At, Calling
<1>3. CASE TakeSimple /\ ~IdleStep
  <2> DEFINE d == [Top EXCEPT !.pc = "runSimple", !.todo = simple[Top.method]]
  <2>1. SetTop(d) /\ ~Calling(d)
    BY <1>2, <1>3, DrainSets DEF TakeSimple, At, Calling
  <2> HIDE DEF d
  <2> QED BY <1>2, <1>3, <2>1
<1>4. CASE SkipSimple /\ ~IdleStep
  <2> DEFINE d == [Top EXCEPT !.todo = Tail(Top.todo)]
  <2>1. SetTop(d) /\ ~Calling(d)
    BY <1>2, <1>4, DrainSets DEF SkipSimple, At, Calling
  <2> HIDE DEF d
  <2> QED BY <1>2, <1>4, <2>1
<1>5. CASE DeferSimple /\ ~IdleStep
  <2> DEFINE d == [Top EXCEPT !.todo = Tail(Top.todo), !.deferred = Append(Top.deferred, Head(Top.todo))]
  <2>1. SetTop(d) /\ ~Calling(d)
    BY <1>2, <1>5, DrainSets DEF DeferSimple, At, Calling
  <2> HIDE DEF d
  <2> QED BY <1>2, <1>5, <2>1
<1>6. CASE PutBackDeferred /\ ~IdleStep
  <2> DEFINE d == [Top EXCEPT !.pc = "delayed", !.deferred = <<>>]
  <2>1. SetTop(d) /\ ~Calling(d)
    BY <1>2, <1>6, DrainSets DEF PutBackDeferred, At, Calling
  <2> HIDE DEF d
  <2> QED BY <1>2, <1>6, <2>1
<1>7. CASE SkipReady /\ ~IdleStep
  <2> DEFINE d == [Top EXCEPT !.todo = Tail(Top.todo)]
  <2>1. SetTop(d) /\ ~Calling(d)
    BY <1>2, <1>7, DrainSets DEF SkipReady, At, Calling
  <2> HIDE DEF d
  <2> QED BY <1>2, <1>7, <2>1
<1>8. CASE RetireReady /\ ~IdleStep
  <2> DEFINE d == [Top EXCEPT !.pc = "notify", !.ready = <<>>]
  <2>1. SetTop(d) /\ ~Calling(d)
    BY <1>2, <1>8, DrainSets DEF RetireReady, At, Calling
  <2> HIDE DEF d
  <2> QED BY <1>2, <1>8, <2>1
<1>9. CASE TakeReady /\ ~IdleStep
  <2>1. PICK ready : SetTop([Top EXCEPT !.pc = "runDelayed", !.todo = ready, !.ready = ready])
    BY <1>9 DEF TakeReady
  <2> DEFINE d == [Top EXCEPT !.pc = "runDelayed", !.todo = ready, !.ready = ready]
  <2>2. SetTop(d) /\ ~Calling(d)
    BY <1>2, <1>9, <2>1, DrainSets DEF Calling
  <2> HIDE DEF d
  <2> QED BY <1>2, <1>9, <2>2
<1> QED BY <1>1, <1>3, <1>4, <1>5, <1>6, <1>7, <1>8, <1>9 DEF QuietStep

LEMMA QuietCall ==
  ASSUME Shape, QuietStep
  PROVE  SameCall
<1>1. stack # <<>> /\ ~Calling(Top)
  BY QuietMoves
<1>2. PICK d : SetTop(d) /\ ~Calling(d)
  BY QuietMoves
<1>3. /\ DOMAIN stack' = DOMAIN stack
      /\ Top = stack[Len(stack)] /\ stack'[Len(stack)] = d
      /\ \A k \in DOMAIN stack : k # Len(stack) => stack'[k] = stack[k]
  BY <1>1, <1>2, TopChanges
<1>4. \A k \in DOMAIN stack : \/ stack'[k] = stack[k]
                              \/ ~Calling(stack[k]) /\ ~Calling(stack'[k])
  BY <1>1, <1>2, <1>3
<1> QED BY <1>3, <1>4, SameCallers DEF Caller, Calling

LEMMA EnterCall ==
  ASSUME Shape, NEW q \in Methods, EnterDrain(q)
  PROVE  SameCall
<1>1. /\ DOMAIN stack = 1..Len(stack) /\ DOMAIN stack' = 1..(Len(stack) + 1) /\ Len(stack) \in Nat
      /\ \A k \in DOMAIN stack : stack'[k] = stack[k]
      /\ stack'[Len(stack) + 1].pc = "simple"
  BY EnterParts
<1>2. /\ DOMAIN stack \subseteq DOMAIN stack'
      /\ \A k \in DOMAIN stack' : k \in DOMAIN stack \/ stack'[k].pc = "simple"
  BY <1>1
<1> QED BY <1>1, <1>2, SameCallers DEF Caller, Calling

LEMMA MergeCall ==
  ASSUME Shape, MergePending
  PROVE  SameCall
<1>1. /\ DOMAIN stack = 1..Len(stack) /\ DOMAIN stack' = 1..(Len(stack) - 1)
      /\ Len(stack) \in Nat \ {0} /\ Top = stack[Len(stack)] /\ Top.pc = "merge"
      /\ \A k \in DOMAIN stack' : k \in DOMAIN stack /\ stack'[k] = stack[k]
  BY MergeParts
<1>2. \A N \in Nat \ {0} : \A i \in 1..N : i = N \/ i \in 1..(N - 1)
  OBVIOUS
<1>3. \A k \in DOMAIN stack : k \in DOMAIN stack' \/ stack[k].pc = "merge"
  BY <1>1, <1>2
<1> QED BY <1>1, <1>3, SameCallers DEF Caller, Calling

LEMMA StartCall ==
  ASSUME Shape, Nesting, CallSimple \/ CallReady
  PROVE  StartsCall
<1>1. stack # <<>> /\ ~executing
  BY DEF CallSimple, CallReady, At
<1>2. PICK pc \in {"inSimple", "inDelayed"} : SetTop([Top EXCEPT !.pc = pc])
  BY DEF CallSimple, CallReady
<1> DEFINE d == [Top EXCEPT !.pc = pc]
<1>3. d.todo = Top.todo /\ Calling(d) /\ SetTop(d)
  BY <1>1, <1>2, TopIn, DrainSets DEF Calling
<1> HIDE DEF d
<1>4. \A k \in DOMAIN stack : ~Calling(stack[k])
  BY <1>1 DEF Nesting
<1>5. /\ DOMAIN stack' = DOMAIN stack /\ Len(stack) \in DOMAIN stack
      /\ stack'[Len(stack)] = d /\ \A k \in DOMAIN stack : k # Len(stack) => stack'[k] = stack[k]
  BY <1>1, <1>3, TopChanges
<1>6. {k \in DOMAIN stack' : Calling(stack'[k])} = {Len(stack)}
  BY <1>3, <1>4, <1>5
<1> QED BY <1>3, <1>4, <1>5, <1>6 DEF StartsCall, Calls

LEMMA EndCall ==
  ASSUME Shape, Nesting, SimpleReturns \/ ReadyReturns
  PROVE  EndsCall
<1>1. stack # <<>> /\ Calling(Top)
  BY DEF SimpleReturns, ReadyReturns, At, Calling
<1>2. PICK pc \in {"runSimple", "runDelayed"} : SetTop([Top EXCEPT !.pc = pc, !.todo = Tail(Top.todo)])
  BY DEF SimpleReturns, ReadyReturns
<1> DEFINE d == [Top EXCEPT !.pc = pc, !.todo = Tail(Top.todo)]
<1>3. ~Calling(d) /\ SetTop(d)
  BY <1>1, <1>2, TopIn, DrainSets DEF Calling
<1> HIDE DEF d
<1>4. /\ DOMAIN stack' = DOMAIN stack /\ Len(stack) \in DOMAIN stack /\ Top = stack[Len(stack)]
      /\ stack'[Len(stack)] = d /\ \A k \in DOMAIN stack : k # Len(stack) => stack'[k] = stack[k]
  BY <1>1, <1>3, TopChanges
<1>5. \A k \in DOMAIN stack : k # Len(stack) => ~Calling(stack[k])
  <2> SUFFICES ASSUME NEW k \in DOMAIN stack, k # Len(stack), Calling(stack[k]) PROVE FALSE
    OBVIOUS
  <2>1. k < Len(stack)
    BY SeqParts DEF Shape
  <2> QED BY <1>1, <1>4, <2>1 DEF Nesting
<1>6. Calls' = {}
  BY <1>3, <1>4, <1>5 DEF Calls
<1> QED BY <1>1, <1>4, <1>6 DEF EndsCall, Calls

(* The action in a call is one that was created for the mod it runs for.    *)
CallOrigin == \A a \in Calls : born[a.id].mod = a.mod

LEMMA HeadHeld ==
  ASSUME Shape, Nesting, Accounted, CallSimple \/ SkipSimple
  PROVE  /\ HeldLess(Head(Top.todo)) /\ Head(Top.todo) \in AllIn(Held)
         /\ Head(Top.todo).id \in Known /\ IsOrigin(Head(Top.todo).id, Head(Top.todo).mod, {"simple"})
<1>1. HeldLess(Head(Top.todo))
  BY CallSimpleAccounts, SkipSimpleAccounts
<1>2. Head(Top.todo) \in AllIn(Held)
  BY <1>1 DEF HeldLess
<1> QED BY <1>1, <1>2, HeldKnown DEF Accounted

LEMMA HeadReady ==
  ASSUME Shape, Origins, CallReady
  PROVE  Head(Top.todo).id \in Known /\ IsOrigin(Head(Top.todo).id, Head(Top.todo).mod, Timers)
<1>1. stack # <<>> /\ Top.pc = "runDelayed" /\ Top.todo \in Seq(ReadyIn) /\ Top.todo # <<>>
  BY AtTop DEF CallReady, RunsDelayed
<1>2. GoodReady(Top.todo)
  BY <1>1, TopGood DEF Origins, RunsDelayed
<1>3. Head(Top.todo) \in ReadyIn /\ IsOrigin(Head(Top.todo).id, Head(Top.todo).mod, Timers)
  BY <1>1, <1>2, TailGood, TailIn
<1> QED BY <1>3 DEF ReadyIn

LEMMA CallStep ==
  ASSUME Shape, Bounded, Nesting, [Next]_vars
  PROVE  SameCall \/ (StartsCall /\ (CallSimple \/ CallReady)) \/ EndsCall
<1>1. CASE UNCHANGED stack
  BY <1>1 DEF SameCall, Calls
<1>2. CASE UNCHANGED vars
  BY <1>1, <1>2 DEF vars
<1>3. CASE Next
  <2>1. CASE RevisingStep \/ GainingStep
    BY <1>1, <2>1 DEF RevisingStep, BothRevised, RestOfControl, GainingStep, CreationFacts
  <2>2. CASE \/ ConstructElsewhere \/ UnloadStep
             \/ \E m \in Mods : MakeActionHandle(m) \/ \E q \in Methods : ExecuteInGameThread(m, q)
    BY <1>1, <2>2 DEF ConstructElsewhere, MakeActionHandle, ReadCounter, WriteCounter, UnloadStep,
       UnloadGoesOn, ExecuteInGameThread, EndUnload, BeginUnload, DrainsSettled, EraseActions
  <2>3. CASE SimpleStep \/ ReadyStep \/ IdleStep
    BY <2>3, QuietCall, StartCall, EndCall DEF SimpleStep, ReadyStep, QuietStep
  <2>4. CASE MergePending \/ \E q \in Methods : EnterDrain(q)
    BY <2>4, MergeCall, EnterCall
  <2> QED BY <1>3, <2>1, <2>2, <2>3, <2>4, NextIs DEF OtherStep
<1> QED BY <1>2, <1>3

LEMMA CallOriginStep ==
  ASSUME IInv, Origins, Accounted, CallOrigin, [Next]_vars
  PROVE  CallOrigin'
<1>1. Shape /\ Bounded /\ Nesting
  BY DEF IInv
<1>2. CASE SameCall
  <2>1. BornGrows
    BY <1>1, BornStep
  <2>2. \A a \in Calls : a.id \in Known
    BY <1>1, CalledIn
  <2>3. \A a \in Calls' : born'[a.id].mod = a.mod
    BY <1>2, <2>1, <2>2 DEF SameCall, BornGrows, CallOrigin
  <2> QED BY <2>3 DEF CallOrigin
<1>3. CASE StartsCall /\ (CallSimple \/ CallReady)
  <2>1. UNCHANGED born
    BY <1>3 DEF CallSimple, CallReady, history
  <2>2. born[Head(Top.todo).id].mod = Head(Top.todo).mod
    BY <1>1, <1>3, HeadHeld, HeadReady DEF IsOrigin
  <2> QED BY <1>3, <2>1, <2>2 DEF StartsCall, CallOrigin
<1>4. CASE EndsCall
  BY <1>4 DEF EndsCall, CallOrigin
<1> QED BY <1>1, <1>2, <1>3, <1>4, CallStep

RInv == IInv /\ Origins /\ Accounted /\ CallOrigin

LEMMA RInvHolds == Spec => []RInv
<1>1. Init => CallOrigin
  BY DEF Init, CallOrigin, Calls
<1>2. IInv /\ Origins /\ Accounted /\ CallOrigin /\ [Next]_vars => CallOrigin'
  BY CallOriginStep
<1> QED BY <1>1, <1>2, AccountedHolds, PTL DEF Spec, RInv

-----------------------------------------------------------------------------
(* What ActionService sees of a state and of a step.                        *)
LEMMA WaitingIs == Waiting = {a.id : a \in AllIn(Held)} /\ Waiting' = {a.id : a \in AllIn(Held')}
BY DEF Waiting, AllIn

LEMMA SameWaiting ==
  ASSUME SameHeld
  PROVE  Waiting' = Waiting
BY WaitingIs DEF SameHeld

LEMMA LessWaiting ==
  ASSUME NEW x, HeldLess(x)
  PROVE  x.id \in Waiting /\ Waiting' = Waiting \ {x.id}
<1>1. AllIn(Held) = AllIn(Held') \cup {x} /\ \A a \in AllIn(Held') : a.id # x.id
  BY DEF HeldLess
<1> QED BY <1>1, WaitingIs

LEMMA PhaseIs ==
  ASSUME Shape, NEW m \in Mods
  PROVE  /\ Phase[m] = "gone" <=> Gone(m)
         /\ Phase[m] = "loaded" <=> ~Unloading(m)
         /\ Phase[m] = "unloading" <=> Unloading(m) /\ ~Gone(m)
BY DEF Shape, Phase, Gone, Unloading

LEMMA CallSeen ==
  /\ SameCall => InCall' = InCall
  /\ StartsCall => InCall = {} /\ InCall' = {Head(Top.todo).id}
  /\ EndsCall => InCall # {} /\ InCall' = {}
BY InCallIs DEF SameCall, StartsCall, EndsCall

LEMMA AskSeen ==
  ASSUME NEW m \in Mods, NEW kind \in Kinds, Shape, ~Gone(m),
         born' = Append(born, [mod |-> m, kind |-> kind]),
         Waiting' = IF kind = "simple" THEN Waiting \cup {NewId} ELSE Waiting,
         InCall' = InCall, Phase' = Phase
  PROVE  Service!Next
<1>1. Phase[m] # "gone"
  BY PhaseIs
<1>2. Service!Ask(m, kind)
  BY <1>1 DEF Service!Ask, NewId
<1> QED BY <1>2 DEF Service!Next, Kinds

LEMMA StillSeen ==
  ASSUME UNCHANGED <<born, unload>>, Waiting' = Waiting, InCall' = InCall
  PROVE  UNCHANGED Service!vars
BY DEF Service!vars, Phase

LEMMA DrainRefines ==
  ASSUME RInv, SimpleStep \/ ReadyStep \/ IdleStep \/ MergePending \/ \E q \in Methods : EnterDrain(q)
  PROVE  [Service!Next]_(Service!vars)
<1>1. Shape /\ Bounded /\ Nesting /\ Origins /\ Accounted
  BY DEF RInv, IInv
<1>2. UNCHANGED <<born, unload>>
  BY IdleUnchanged DEF SimpleStep, ReadyStep, MergePending, EnterDrain, TakeSimple, SkipSimple,
     DeferSimple, CallSimple, SimpleReturns, PutBackDeferred, TakeReady, SkipReady, CallReady,
     ReadyReturns, RetireReady, history, env
<1>3. UNCHANGED Phase
  BY <1>2 DEF Phase
<1>4. DOMAIN born = Known
  BY <1>1, SeqParts DEF Shape, Known
<1> DEFINE a == Head(Top.todo)
<1>5. CASE SkipSimple
  <2>1. HeldLess(a) /\ a.id \in Known /\ born[a.id].mod = a.mod /\ SameCall
    BY <1>1, <1>5, HeadHeld, QuietCall DEF IsOrigin, QuietStep
  <2>2. a.mod \in Undrained /\ Unloading(a.mod)
    <3>1. Top.todo \in Seq(SimpleIn(Undrained)) /\ Top.todo # <<>> /\ Unloading(a.mod)
      BY <1>1, <1>5, AtTop DEF SkipSimple, RunsSimple
    <3>2. a \in SimpleIn(Undrained)
      BY <3>1, TailIn
    <3> QED BY <3>1, <3>2 DEF SimpleIn
  <2>3. Phase[born[a.id].mod] = "unloading"
    BY <1>1, <2>1, <2>2, PhaseIs DEF Undrained, Gone
  <2>4. Waiting' = Waiting \ {a.id} /\ InCall' = InCall
    BY <2>1, LessWaiting, CallSeen
  <2> HIDE DEF a
  <2>5. Service!Drop(a.id)
    BY <1>2, <1>3, <2>3, <2>4 DEF Service!Drop
  <2> QED BY <1>4, <2>1, <2>5 DEF Service!Next
<1>6. CASE CallSimple \/ CallReady
  <2>1. InCall = {} /\ InCall' = {a.id}
    BY <1>1, <1>6, StartCall, CallSeen
  <2>2. /\ a.id \in Known /\ born[a.id].mod = a.mod /\ a.mod \in Mods
        /\ born[a.id].kind = "simple" => a.id \in Waiting
        /\ Waiting' = Waiting \ {a.id}
    <3>1. CASE CallSimple
      <4>1. HeldLess(a) /\ a.id \in Known /\ born[a.id].mod = a.mod /\ a \in AllIn(Held)
        BY <1>1, <3>1, HeadHeld DEF IsOrigin
      <4> QED BY <1>1, <4>1, HeldKnown, LessWaiting
    <3>2. CASE CallReady
      <4>1. a.id \in Known /\ born[a.id].mod = a.mod /\ born[a.id].kind \in Timers
        BY <1>1, <3>2, HeadReady DEF IsOrigin
      <4>2. Waiting' = Waiting
        BY <1>1, <3>2, ReadyStepAccounts, SameWaiting DEF ReadyStep
      <4>3. a.id \notin Waiting
        BY <4>1, WaitingIs DEF RInv, Accounted, IsOrigin, Timers
      <4>4. a.mod \in Mods
        <5>1. Top.todo \in Seq(ReadyIn) /\ Top.todo # <<>>
          BY <1>1, <3>2, AtTop DEF CallReady, RunsDelayed
        <5>2. a \in ReadyIn
          BY <5>1, TailIn
        <5> QED BY <5>2 DEF ReadyIn, Undrained
      <4> QED BY <4>1, <4>2, <4>3, <4>4 DEF Timers
    <3> QED BY <1>6, <3>1, <3>2
  <2>3. Phase[born[a.id].mod] = "loaded"
    BY <1>1, <1>6, <2>2, PhaseIs DEF CallSimple, CallReady
  <2> HIDE DEF a
  <2>4. Service!Start(a.id)
    BY <1>2, <1>3, <2>1, <2>2, <2>3 DEF Service!Start
  <2> QED BY <1>4, <2>2, <2>4 DEF Service!Next
<1>7. CASE SimpleReturns \/ ReadyReturns
  <2>1. InCall # {} /\ InCall' = {}
    BY <1>1, <1>7, EndCall, CallSeen
  <2>2. Waiting' = Waiting
    BY <1>1, <1>7, SimpleReturnsAccounts, ReadyStepAccounts, SameWaiting DEF ReadyStep
  <2>3. Service!Return
    BY <1>2, <1>3, <2>1, <2>2 DEF Service!Return
  <2> QED BY <2>3 DEF Service!Next
<1>8. CASE TakeSimple \/ DeferSimple \/ PutBackDeferred \/ MergePending \/ \E q \in Methods : EnterDrain(q)
  <2>1. SameHeld
    BY <1>1, <1>8, TakeSimpleAccounts, DeferSimpleAccounts, PutBackAccounts, MergeAccounts, EnterAccounts
  <2>2. SameCall
    BY <1>1, <1>8, QuietCall, MergeCall, EnterCall DEF QuietStep
  <2> QED BY <1>2, <2>1, <2>2, SameWaiting, CallSeen, StillSeen
<1>9. CASE TakeReady \/ SkipReady \/ RetireReady \/ IdleStep
  <2>1. SameHeld /\ SameCall
    BY <1>1, <1>9, ReadyStepAccounts, IdleStepAccounts, QuietCall DEF QuietStep, ReadyStep
  <2> QED BY <1>2, <2>1, SameWaiting, CallSeen, StillSeen
<1> QED BY <1>5, <1>6, <1>7, <1>8, <1>9 DEF SimpleStep, ReadyStep

LEMMA UnloadRefines ==
  ASSUME RInv, UnloadStep
  PROVE  [Service!Next]_(Service!vars)
<1>1. Shape /\ Nesting /\ Origins /\ Accounted
  BY DEF RInv, IInv
<1>2. UNCHANGED <<born, stack, executing, ran>>
  BY DEF UnloadStep, UnloadGoesOn, EndUnload, BeginUnload, DrainsSettled, EraseActions, history
<1>3. InCall' = InCall
  BY <1>2 DEF InCall
<1>4. UNCHANGED <<simple, simplePending>> => Waiting' = Waiting
  BY <1>1, <1>2, StillAccounts, SameWaiting DEF Known
<1>5. CASE EndUnload
  BY <1>2, <1>3, <1>4, <1>5, StillSeen DEF EndUnload, queues
<1>6. ASSUME NEW m \in Mods, BeginUnload(m) PROVE Service!Next
  <2>1. /\ Phase[m] = "loaded" /\ Phase' = [Phase EXCEPT ![m] = "unloading"]
    BY <1>1, <1>6 DEF BeginUnload, Phase, Shape
  <2>2. Service!BeginUnload(m)
    BY <1>2, <1>3, <1>4, <1>6, <2>1 DEF Service!BeginUnload, BeginUnload, queues
  <2> QED BY <2>2 DEF Service!Next
<1>7. ASSUME NEW m \in Mods, DrainsSettled(m) PROVE UNCHANGED Service!vars
  <2>1. Phase' = Phase
    BY <1>1, <1>7 DEF DrainsSettled, Phase, Shape
  <2> QED BY <1>2, <1>3, <1>4, <1>7, <2>1 DEF Service!vars, DrainsSettled, queues
<1>8. ASSUME NEW m \in Mods, EraseActions(m) PROVE Service!Next
  <2>1. Phase[m] = "unloading" /\ Phase' = [Phase EXCEPT ![m] = "gone"]
    BY <1>1, <1>8 DEF EraseActions, Phase, Shape
  <2>2. \A id \in InCall : born[id].mod # m
    <3>1. \A a \in Calls : born[a.id].mod = a.mod /\ a.mod \in Undrained
      BY <1>1, CalledIn DEF RInv, CallOrigin
    <3>2. m \notin Undrained
      BY <1>8 DEF EraseActions, Undrained
    <3> QED BY <3>1, <3>2, InCallIs
  <2>3. Waiting' = {id \in Waiting : born[id].mod # m}
    <3>1. AllIn(Held') = {x \in AllIn(Held) : x.mod # m}
      BY <1>1, <1>8, EraseAccounts
    <3>2. \A x \in AllIn(Held) : born[x.id].mod = x.mod
      BY <1>1 DEF Accounted, IsOrigin
    <3> QED BY <3>1, <3>2, WaitingIs
  <2>4. Service!Close(m)
    BY <1>2, <1>3, <2>1, <2>2, <2>3 DEF Service!Close
  <2> QED BY <2>4 DEF Service!Next
<1> QED BY <1>5, <1>6, <1>7, <1>8 DEF UnloadStep, UnloadGoesOn

LEMMA StepRefines ==
  ASSUME RInv, [Next]_vars
  PROVE  [Service!Next]_(Service!vars)
<1>1. Shape /\ Bounded /\ Nesting /\ Origins /\ Accounted
  BY DEF RInv, IInv
<1>2. CASE UNCHANGED <<simple, simplePending, stack, executing, born, ran, unload>>
  <2>1. Waiting' = Waiting
    BY <1>1, <1>2, StillAccounts, SameWaiting DEF Known
  <2>2. InCall' = InCall
    BY <1>2 DEF InCall
  <2> QED BY <1>2, <2>1, <2>2, StillSeen
<1>3. CASE UNCHANGED vars
  BY <1>2, <1>3 DEF vars, queues, history, env
<1>4. CASE Next
  <2>1. CASE RevisingStep
    BY <1>2, <2>1 DEF RevisingStep, BothRevised, RestOfControl, env
  <2>2. CASE GainingStep
    <3>1. PICK m \in Present, kind \in {"once", "loop"} : born' = Append(born, [mod |-> m, kind |-> kind])
      BY <2>2 DEF GainingStep, CreationFacts
    <3>2. UNCHANGED <<simple, simplePending, stack, executing, unload, ran>>
      BY <2>2 DEF GainingStep, CreationFacts, env
    <3>3. \A id \in Known' \ Known : born'[id].kind # "simple"
      BY <1>1, <2>2, GainsBorn DEF GainingStep, CreationFacts, DelayedGains
    <3>4. Waiting' = Waiting /\ InCall' = InCall /\ Phase' = Phase
      BY <1>1, <3>2, <3>3, StillAccounts, SameWaiting DEF InCall, Phase
    <3> QED BY <1>1, <3>1, <3>4, AskSeen DEF Present, Kinds
  <2>3. ASSUME NEW m \in Mods, NEW q \in Methods, ExecuteInGameThread(m, q)
        PROVE  Service!Next
    <3>1. /\ born' = Append(born, [mod |-> m, kind |-> "simple"]) /\ ~Gone(m)
          /\ UNCHANGED <<stack, executing, unload>>
      BY <2>3 DEF ExecuteInGameThread, MayCall, env
    <3>2. AllIn(Held') = AllIn(Held) \cup {[id |-> NewId, mod |-> m]}
      BY <1>1, <2>3, QueueAccounts
    <3>3. Waiting' = Waiting \cup {NewId}
      <4> DEFINE x == [id |-> NewId, mod |-> m]
      <4>1. AllIn(Held') = AllIn(Held) \cup {x} /\ x.id = NewId
        BY <3>2
      <4> HIDE DEF x
      <4> QED BY <4>1, WaitingIs
    <3>4. InCall' = InCall /\ Phase' = Phase
      BY <3>1 DEF InCall, Phase
    <3> QED BY <1>1, <3>1, <3>3, <3>4, AskSeen DEF Kinds
  <2>4. CASE ConstructElsewhere \/ \E m \in Mods : MakeActionHandle(m)
    BY <1>2, <2>4 DEF ConstructElsewhere, MakeActionHandle, ReadCounter, WriteCounter, queues, history, env
  <2>5. CASE OtherStep
    BY <2>3, <2>4, <2>5, DrainRefines, UnloadRefines DEF OtherStep
  <2> QED BY <1>1, <1>4, <2>1, <2>2, <2>5, NextIs
<1> QED BY <1>3, <1>4

(* The scheduler keeps what ActionService promises the mods: one action     *)
(* at a time, each immediate action started once, nothing started for a mod *)
(* whose unload began, nothing of it running or left when its state closes. *)
THEOREM ServiceHolds == Spec => ActionServiceSpec
<1>1. Init => Service!Init
  <2> SUFFICES ASSUME Init PROVE Service!Init
    OBVIOUS
  <2>1. Init => IInv /\ Accounted
    BY InitHolds, InitOrigins
  <2>2. born = <<>> /\ stack = <<>> /\ unload = [m \in Mods |-> "loaded"]
    BY DEF Init
  <2>3. Phase = [m \in Mods |-> "loaded"]
    BY <2>2 DEF Phase
  <2>4. InCall = {}
    BY <2>2 DEF InCall
  <2>5. Waiting = {}
    <3>1. Known = {}
      BY <2>2 DEF Known
    <3> QED BY <2>1, <3>1, HeldKnown, WaitingIs DEF IInv
  <2> QED BY <2>2, <2>3, <2>4, <2>5 DEF Service!Init
<1>2. RInv /\ [Next]_vars => [Service!Next]_(Service!vars)
  BY StepRefines
<1> QED BY <1>1, <1>2, RInvHolds, PTL DEF Spec, ActionServiceSpec, Service!Spec
=============================================================================
