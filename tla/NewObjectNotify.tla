------------------------- MODULE NewObjectNotify -------------------------
(* NotifyOnNewObject in src/UE4SS/src/Mod/LuaMod.cpp: the registrations,    *)
(* the StaticConstructObject callback that calls them at once on the game   *)
(* thread and queues them on any other thread, the phase of a drain that    *)
(* takes the queue, and the registry reference that keeps a mod's hook      *)
(* thread alive, which a cancelled registration releases.                   *)
(*                                                                          *)
(* m_thread_actions_mutex is recursive and held by the game thread from the *)
(* first to the last callback of an object or a batch, so `stack # <<>>'    *)
(* means that it is held.  NotifyOnNewObject itself does not take it.       *)
EXTENDS Integers, Sequences, FiniteSets

CONSTANTS
  Mods,        \* Lua mods
  Classes,     \* classes mods ask for and objects have
  Chain,       \* for each class, itself and its ancestors
  Slots,       \* indexes of the engine's object array
  NoSlot,      \* the slot of a frame that is about no single object
  MaxIds,      \* bound on registrations
  MaxObjects,  \* bound on objects constructed
  MaxNesting,  \* bound on nested constructions and drains on the game thread
  MaxRefs      \* bound on references that are no registration's

ASSUME ChainAssumption ==
  /\ Chain \in [Classes -> Seq(Classes)]
  /\ \A c \in Classes : \A i, j \in DOMAIN Chain[c] : Chain[c][i] = Chain[c][j] => i = j

ASSUME SlotsAssumption == NoSlot \notin Slots

ASSUME BoundsAssumption ==
  MaxIds \in Nat /\ MaxObjects \in Nat /\ MaxNesting \in Nat \ {0} /\ MaxRefs \in Nat

VARIABLES
  data,       \* per callback_id, its LuaCancellableCallbackData
  callbacks,  \* ids in m_static_construct_object_lua_callbacks
  pending,    \* m_pending_notify_on_new_object_callbacks
  slots,      \* the object array (external)
  made,       \* objects constructed so far (external)
  address,    \* where each of them was built (external)
  registry,   \* per mod, the references luaL_ref gave (external)
  hookThread, \* per mod, m_hook_lua's thread: none yet, there, or collected
  hooks,      \* per mod, the references its RegisterHook entries keep
  stack,      \* what the game thread is in
  called,     \* history: how often a callback was called for an object, up to 2
  cancelled,  \* history: ids whose callback returned true
  owed,       \* history: notifications of callbacks registered at a construction
  excused,    \* history: notifications an unload cleared or an error skipped
  spoiled     \* history: mods that a second cancellation or a moved reference met

hookVars == <<registry, hookThread, hooks, spoiled>>
regVars == <<data, callbacks>>
engineVars == <<slots, made, address>>
history == <<owed, called, cancelled, excused>>
vars == <<regVars, pending, engineVars, hookVars, stack, history>>

None == 0
Ids == 1..MaxIds
Objects == 1..MaxObjects
NoRef == 0      \* LUA_REFNIL: the thread was anchored by an earlier call

Cell == [kind : {"thread", "function", "free"}, value : Nat]
Registry == [cells : Seq(Cell), free : Nat]

HookRefs == [thread : Nat, function : Nat]

Data == [mod : Mods, class : Classes, thread : Nat, function : Nat]

Empty == [object |-> None, class |-> CHOOSE c \in Classes : TRUE, serial |-> 0]
Item == [object : Objects, class : Classes, serial : Nat] \cup {Empty}

(* `for' is the object whose construction queued the notification: the code *)
(* has only the slot and the serial number.                                 *)
Pending == [id : Ids, slot : Slots, serial : Nat, for : Objects]
Exec == [id : Ids, slot : Slots, serial : Nat, for : Objects, object : Objects]
NoExec == [id |-> None, slot |-> NoSlot, serial |-> 0,
           for |-> None, object |-> None]

Frame == [kind : {"direct", "batch"}, pc : {"climb", "next", "inside", "release"},
          slot : Slots \cup {NoSlot}, object : Objects \cup {None}, chain : Seq(Classes),
          todo : SUBSET Exec, now : Exec \cup {NoExec}, position : Nat, moved : BOOLEAN,
          remove : SUBSET Ids, release : Seq(Ids)]

Top == stack[Len(stack)]
At(kind, pc) == stack # <<>> /\ Top.kind = kind /\ Top.pc = pc
Outside == SubSeq(stack, 1, Len(stack) - 1)
SetTop(f) == stack' = [stack EXCEPT ![Len(stack)] = f]
MayEnter == stack # <<>> => Top.pc = "inside" /\ Len(stack) < MaxNesting

ModOf(id) == data[id].mod
Free(s) == slots[s] = Empty
Living == {slots[s].object : s \in {t \in Slots : ~Free(t)}}

-----------------------------------------------------------------------------
(* luaL_ref and luaL_unref: a free reference holds the next one.  An entry  *)
(* that is no number ends the list.  The value of an entry in use is the    *)
(* registration that took it, or 0.                                         *)

FreshRef(r) == IF r.free # 0 THEN r.free ELSE Len(r.cells) + 1

Ref(r, kind, value) ==
  LET cell == [kind |-> kind, value |-> value]
  IN IF r.free = 0
     THEN [cells |-> Append(r.cells, cell), free |-> 0]
     ELSE [cells |-> [r.cells EXCEPT ![r.free] = cell],
           free |-> IF r.cells[r.free].kind = "free" THEN r.cells[r.free].value ELSE 0]

Unref(r, ref) ==
  IF ref = NoRef THEN r
  ELSE [cells |-> [r.cells EXCEPT ![ref] = [kind |-> "free", value |-> r.free]],
        free |-> ref]

Anchored(m) == \E i \in DOMAIN registry[m].cells : registry[m].cells[i].kind = "thread"

Release(m, ref) == registry' = [registry EXCEPT ![m] = Unref(@, ref)]

-----------------------------------------------------------------------------
(* Lua functions that a mod calls.  The first one that needs it creates the *)
(* hook thread and gets the reference that anchors it.                      *)

Anchor(m, id) ==
  IF hookThread[m] = "none" THEN Ref(registry[m], "thread", id) ELSE registry[m]
(* Mutant: every registration is given the reference of the hook thread.    *)
ThreadRefShared(m) == IF hookThread[m] = "none" THEN FreshRef(registry[m]) ELSE 1

ThreadRef(m) ==
  IF hookThread[m] = "none" THEN FreshRef(registry[m]) ELSE NoRef

(* Mutant: the id is the counter after it was raised.                       *)
NotifyOnNewObjectRaised(m, c) ==
  LET id == Len(data) + 1
      r == Anchor(m, id)
  IN /\ Len(data) < MaxIds /\ hookThread[m] # "collected"
     /\ hookThread' = [hookThread EXCEPT ![m] = "there"]
     /\ registry' = [registry EXCEPT ![m] = Ref(r, "function", id)]
     /\ data' = Append(data, [mod |-> m, class |-> c, thread |-> ThreadRef(m),
                              function |-> FreshRef(r)])
     /\ callbacks' = callbacks \cup {id + 1}
     /\ UNCHANGED <<pending, engineVars, hooks, spoiled, stack, history>>

NotifyOnNewObject(m, c) ==
  LET id == Len(data) + 1
      r == Anchor(m, id)
  IN /\ Len(data) < MaxIds /\ hookThread[m] # "collected"
     /\ hookThread' = [hookThread EXCEPT ![m] = "there"]
     /\ registry' = [registry EXCEPT ![m] = Ref(r, "function", id)]
     /\ data' = Append(data, [mod |-> m, class |-> c, thread |-> ThreadRef(m),
                              function |-> FreshRef(r)])
     /\ callbacks' = callbacks \cup {id}
     /\ \E moves \in BOOLEAN :
          stack' = [k \in DOMAIN stack |-> [stack[k] EXCEPT !.moved = @ \/ moves]]
     /\ UNCHANGED <<pending, engineVars, hooks, spoiled, history>>

MayRefer(m) == Len(registry[m].cells) < MaxRefs

(* The class name is refused after the references were taken.               *)
NotifyRefused(m) ==
  /\ hookThread[m] # "collected" /\ MayRefer(m)
  /\ hookThread' = [hookThread EXCEPT ![m] = "there"]
  /\ registry' = [registry EXCEPT ![m] = Ref(Anchor(m, 0), "function", 0)]
  /\ UNCHANGED <<regVars, pending, engineVars, hooks, spoiled, stack, history>>

(* The other registrations take the thread without its reference: it stays. *)
get_hook_lua(m) ==
  /\ hookThread[m] = "none" /\ MayRefer(m)
  /\ hookThread' = [hookThread EXCEPT ![m] = "there"]
  /\ registry' = [registry EXCEPT ![m] = Anchor(m, 0)]
  /\ UNCHANGED <<regVars, pending, engineVars, hooks, spoiled, stack, history>>

(* RegisterHook keeps the thread reference until UnregisterHook's removal,  *)
(* with its functions' (one here).                                          *)
RegisterHook(m) ==
  LET r == Anchor(m, 0)
      refs == [thread |-> ThreadRef(m), function |-> FreshRef(r)]
  IN /\ hookThread[m] # "collected" /\ MayRefer(m)
     /\ hookThread' = [hookThread EXCEPT ![m] = "there"]
     /\ hooks' = [hooks EXCEPT ![m] = @ \cup {refs}]
     /\ registry' = [registry EXCEPT ![m] = Ref(r, "function", 0)]
     /\ UNCHANGED <<regVars, pending, engineVars, spoiled, stack, history>>

UnregisterHook(m) ==
  /\ \E refs \in hooks[m] :
       /\ registry' = [registry EXCEPT ![m] = Unref(Unref(@, refs.function), refs.thread)]
       /\ hooks' = [hooks EXCEPT ![m] = @ \ {refs}]
  /\ UNCHANGED <<regVars, pending, engineVars, hookThread, spoiled, stack, history>>

(* Lua's collector frees a thread nothing refers to, unless it runs.        *)
Collect(m) ==
  /\ hookThread[m] = "there" /\ ~Anchored(m)
  /\ \A k \in DOMAIN stack : stack[k].pc = "inside" => ModOf(stack[k].now.id) # m
  /\ hookThread' = [hookThread EXCEPT ![m] = "collected"]
  /\ UNCHANGED <<regVars, pending, engineVars, registry, hooks, spoiled, stack, history>>

-----------------------------------------------------------------------------
(* Objects.                                                                 *)

Matching(cs) == {id \in callbacks : data[id].class \in cs}
ChainSet(c) == {Chain[c][i] : i \in DOMAIN Chain[c]}

(* A new object may be built where one that is gone was.  An address is     *)
(* named by the first object that had it.                                   *)
Vacant == {address[o] : o \in 1..made} \ {address[o] : o \in Living}

Make(s, c, weak) ==
  /\ Free(s) /\ made < MaxObjects
  /\ made' = made + 1
  /\ \E a \in Vacant \cup {made + 1} : address' = [address EXCEPT ![made + 1] = a]
  /\ slots' = [slots EXCEPT ![s] =
       [object |-> made + 1, class |-> c, serial |-> IF weak THEN made + 1 ELSE 0]]
  /\ owed' = owed \cup {<<id, made + 1>> : id \in Matching(ChainSet(c))}

(* On a thread that is not the game thread: what matches is queued.         *)
QueueNotifications(s, c, weak) ==
  /\ stack = <<>>
  /\ Make(s, c, weak)
  /\ pending' = pending \cup
       {[id |-> id, slot |-> s, serial |-> slots'[s].serial, for |-> made + 1] :
          id \in Matching(ChainSet(c))}
  /\ UNCHANGED <<regVars, hookVars, stack, called, cancelled, excused>>

(* On the game thread, also from inside a callback.                         *)
EnterDirect(s, c) ==
  /\ MayEnter
  /\ Make(s, c, FALSE)
  /\ stack' = Append(stack,
       [kind |-> "direct", pc |-> "climb", slot |-> s, object |-> made + 1,
        chain |-> Chain[c], todo |-> {}, now |-> NoExec, position |-> 0, moved |-> FALSE,
        remove |-> {}, release |-> <<>>])
  /\ UNCHANGED <<regVars, pending, hookVars, called, cancelled, excused>>

(* A weak pointer gives an object its serial number; the collector frees    *)
(* the slot, not under an object whose callbacks run.                       *)
TakeWeakPointer(s) ==
  /\ ~Free(s) /\ slots[s].serial = 0
  /\ slots' = [slots EXCEPT ![s].serial = slots[s].object]
  /\ UNCHANGED <<regVars, pending, made, address, hookVars, stack, history>>

Destroy(s) ==
  /\ ~Free(s)
  /\ stack # <<>> => Top.pc = "inside"
  /\ \A k \in DOMAIN stack : stack[k].object # slots[s].object
  /\ slots' = [slots EXCEPT ![s] = Empty]
  /\ UNCHANGED <<regVars, pending, made, address, hookVars, stack, history>>

-----------------------------------------------------------------------------
(* The direct path: for each class of the chain collect the ids, then look  *)
(* each one up again and call it.                                           *)

ForObject(f, id) ==
  [id |-> id, slot |-> f.slot, serial |-> 0, for |-> f.object, object |-> f.object]

Climb ==
  /\ At("direct", "climb") /\ Top.chain # <<>>
  /\ SetTop([Top EXCEPT !.pc = "next", !.remove = {},
                        !.todo = {ForObject(Top, id) : id \in Matching({Head(Top.chain)})}])
  /\ UNCHANGED <<regVars, pending, engineVars, hookVars, history>>

EndDirect ==
  /\ At("direct", "climb") /\ Top.chain = <<>>
  /\ stack' = Outside
  /\ UNCHANGED <<regVars, pending, engineVars, hookVars, history>>

SkipCall(e) ==
  /\ SetTop([Top EXCEPT !.todo = @ \ {e}])
  /\ UNCHANGED <<regVars, pending, engineVars, hookVars, history>>

(* callback_data stays a reference to the element at its position.          *)
Position(id) == Cardinality({i \in callbacks : i < id})

Call(e, object) ==
  /\ hookThread[ModOf(e.id)] # "collected"
  /\ SetTop([Top EXCEPT !.pc = "inside", !.todo = @ \ {e},
                        !.now = [e EXCEPT !.object = object],
                        !.position = Position(e.id), !.moved = FALSE])
  /\ called' = [called EXCEPT ![<<e.id, e.for>>] = IF @ < 2 THEN @ + 1 ELSE @]
  /\ UNCHANGED <<regVars, pending, engineVars, hookVars, owed, cancelled, excused>>

First(todo) == {e \in todo : \A g \in todo : e.id <= g.id}

NextDirect ==
  /\ At("direct", "next")
  /\ \E e \in First(Top.todo) : IF e.id \in callbacks THEN Call(e, e.object) ELSE SkipCall(e)

EndLevel ==
  /\ At("direct", "next") /\ Top.todo = {}
  /\ callbacks' = callbacks \ Top.remove
  /\ SetTop([Top EXCEPT !.pc = "climb", !.chain = Tail(@)])
  /\ UNCHANGED <<data, pending, engineVars, hookVars, history>>

(* What callback_data refers to when the callback has returned: another     *)
(* registration if an inner frame erased one before it, no element if it    *)
(* erased the last ones or the vector moved.                                *)
Referred == IF Top.moved THEN {} ELSE {i \in callbacks : Position(i) = Top.position}

Back == [Top EXCEPT !.pc = "next", !.now = NoExec, !.position = 0, !.moved = FALSE]

(* The callback returned `true' or something else.  It is read through      *)
(* callback_data: from the stack of another mod if it is not its own, and   *)
(* whatever is read from memory that is no element is possible, its old     *)
(* content too.                                                             *)
ReadsTrue(returned) ==
  IF \E i \in Referred : ModOf(i) = ModOf(Top.now.id) THEN {returned} ELSE BOOLEAN

Again(returned) ==
  IF returned /\ Top.now.id \in cancelled THEN spoiled \cup {ModOf(Top.now.id)} ELSE spoiled

ReturnDirect(returned) ==
  /\ At("direct", "inside")
  /\ cancelled' = IF returned THEN cancelled \cup {Top.now.id} ELSE cancelled
  /\ \E cancel \in ReadsTrue(returned) :
       /\ SetTop([Back EXCEPT !.remove = IF cancel THEN @ \cup {Top.now.id} ELSE @])
       /\ \/ /\ cancel
             /\ \E i \in IF Referred = {} THEN {Top.now.id} ELSE Referred :
                  Release(ModOf(i), data[i].thread)
          \/ (cancel => Referred = {}) /\ UNCHANGED registry
       /\ spoiled' = IF Referred = {Top.now.id} THEN Again(returned) ELSE Mods
  /\ UNCHANGED <<regVars, pending, engineVars, hookThread, hooks, owed, called, excused>>

(* A callback with an error: TRY is around the whole loop, so the rest of   *)
(* the object's callbacks and the removals are skipped.                     *)
Ahead(f) == {f.chain[i] : i \in {j \in DOMAIN f.chain : j = 1 => f.pc = "climb"}}
Skipped(f) == {<<e.id, e.for>> : e \in f.todo}
        \cup {<<id, f.object>> : id \in Matching(Ahead(f))}

ThrowDirect ==
  /\ At("direct", "inside")
  /\ stack' = Outside
  /\ excused' = excused \cup Skipped(Top)
  /\ UNCHANGED <<regVars, pending, engineVars, hookVars, owed, called, cancelled>>

-----------------------------------------------------------------------------
(* process_pending_notify_on_new_object_callbacks: take the queue, resolve  *)
(* all of it, call, release the thread references, remove.  The order of a  *)
(* batch is left open.                                                      *)

Resolved(p) == [id |-> p.id, slot |-> p.slot, serial |-> p.serial, for |-> p.for,
                object |-> slots[p.slot].object]

(* Mutants: the serial number is not compared; or it always is.             *)
StillThereAnySerial(p) == ~Free(p.slot) /\ p.id \in callbacks
StillThereSameSerial(p) ==
  ~Free(p.slot) /\ slots[p.slot].serial = p.serial /\ p.id \in callbacks

StillThere(p) ==
  /\ ~Free(p.slot)
  /\ p.serial # 0 => slots[p.slot].serial = p.serial
  /\ p.id \in callbacks

BatchFrame ==
  [kind |-> "batch", pc |-> "next", slot |-> NoSlot, object |-> None,
   chain |-> <<>>, todo |-> {Resolved(p) : p \in {q \in pending : StillThere(q)}},
   now |-> NoExec, position |-> 0, moved |-> FALSE, remove |-> {}, release |-> <<>>]

(* Mutant: the queue is copied and not cleared.                             *)
CopyBatch ==
  /\ MayEnter /\ pending # {}
  /\ stack' = Append(stack, BatchFrame)
  /\ UNCHANGED <<regVars, pending, engineVars, hookVars, history>>

TakeBatch ==
  /\ MayEnter /\ pending # {}
  /\ stack' = Append(stack, BatchFrame)
  /\ pending' = {}
  /\ UNCHANGED <<regVars, engineVars, hookVars, history>>

(* The recheck before each call compares the address the batch resolved      *)
(* with that of the object the slot has now, and the callback gets what is   *)
(* at that address.                                                         *)
Occupant(e) == slots[e.slot].object
StillAt(e) == ~Free(e.slot) /\ address[Occupant(e)] = address[e.object]

NextInBatch ==
  /\ At("batch", "next")
  /\ \E e \in Top.todo :
       IF StillAt(e) THEN Call(e, Occupant(e)) ELSE SkipCall(e)

ReturnInBatch(returned) ==
  /\ At("batch", "inside")
  /\ cancelled' = IF returned THEN cancelled \cup {Top.now.id} ELSE cancelled
  /\ SetTop(IF returned
            THEN [Back EXCEPT !.remove = @ \cup {Top.now.id},
                              !.release = Append(@, Top.now.id)]
            ELSE Back)
  /\ spoiled' = Again(returned)
  /\ UNCHANGED <<regVars, pending, engineVars, registry, hookThread, hooks,
                 owed, called, excused>>

ThrowInBatch ==
  /\ At("batch", "inside")
  /\ SetTop(Back)
  /\ UNCHANGED <<regVars, pending, engineVars, hookVars, history>>

CallsDone ==
  /\ At("batch", "next") /\ Top.todo = {}
  /\ SetTop([Top EXCEPT !.pc = "release"])
  /\ UNCHANGED <<regVars, pending, engineVars, hookVars, history>>

ReleaseNext ==
  /\ At("batch", "release") /\ Top.release # <<>>
  /\ LET id == Head(Top.release) IN Release(ModOf(id), data[id].thread)
  /\ SetTop([Top EXCEPT !.release = Tail(@)])
  /\ UNCHANGED <<regVars, pending, engineVars, hookThread, hooks, spoiled, history>>

EndBatch ==
  /\ At("batch", "release") /\ Top.release = <<>>
  /\ callbacks' = callbacks \ Top.remove
  /\ stack' = Outside
  /\ UNCHANGED <<data, pending, engineVars, hookVars, history>>

-----------------------------------------------------------------------------
(* The part of uninstall that concerns the registrations, and the start of  *)
(* the mod with a new Lua state.  The queue is cleared as a whole.          *)
Restart(m) ==
  /\ stack = <<>>
  /\ callbacks' = {id \in callbacks : ModOf(id) # m}
  /\ pending' = {}
  /\ excused' = excused \cup {<<p.id, p.for>> : p \in pending}
  /\ registry' = [registry EXCEPT ![m] = [cells |-> <<>>, free |-> 0]]
  /\ hookThread' = [hookThread EXCEPT ![m] = "none"]
  /\ hooks' = [hooks EXCEPT ![m] = {}]
  /\ spoiled' = spoiled \ {m}
  /\ UNCHANGED <<data, engineVars, stack, owed, called, cancelled>>

-----------------------------------------------------------------------------
Init ==
  /\ data = <<>> /\ callbacks = {} /\ pending = {}
  /\ slots = [s \in Slots |-> Empty] /\ made = 0 /\ address = [o \in Objects |-> None]
  /\ registry = [m \in Mods |-> [cells |-> <<>>, free |-> 0]]
  /\ hookThread = [m \in Mods |-> "none"] /\ hooks = [m \in Mods |-> {}]
  /\ stack = <<>> /\ called = [e \in Ids \X Objects |-> 0]
  /\ owed = {} /\ cancelled = {} /\ excused = {} /\ spoiled = {}

ModStep(m) ==
  \/ \E c \in Classes : NotifyOnNewObject(m, c)
  \/ NotifyRefused(m) \/ get_hook_lua(m) \/ RegisterHook(m) \/ UnregisterHook(m)
  \/ Collect(m) \/ Restart(m)

ObjectStep(s) ==
  \/ \E c \in Classes, weak \in BOOLEAN : QueueNotifications(s, c, weak)
  \/ \E c \in Classes : EnterDirect(s, c)
  \/ TakeWeakPointer(s) \/ Destroy(s)

DirectStep == Climb \/ EndDirect \/ NextDirect \/ EndLevel \/ ThrowDirect
              \/ \E returned \in BOOLEAN : ReturnDirect(returned)

BatchStep == TakeBatch \/ NextInBatch \/ ThrowInBatch \/ CallsDone \/ ReleaseNext \/ EndBatch
             \/ \E returned \in BOOLEAN : ReturnInBatch(returned)

Next == \/ \E m \in Mods : ModStep(m)
        \/ \E s \in Slots : ObjectStep(s)
        \/ DirectStep \/ BatchStep

Spec == Init /\ [][Next]_vars

-----------------------------------------------------------------------------
(* Properties.                                                              *)

TypeOK ==
  /\ data \in Seq(Data) /\ Len(data) <= MaxIds /\ callbacks \subseteq DOMAIN data
  /\ pending \subseteq Pending
  /\ slots \in [Slots -> Item] /\ made \in 0..MaxObjects
  /\ address \in [Objects -> Objects \cup {None}]
  /\ registry \in [Mods -> Registry]
  /\ hookThread \in [Mods -> {"none", "there", "collected"}]
  /\ hooks \in [Mods -> SUBSET HookRefs]
  /\ stack \in Seq(Frame) /\ Len(stack) <= MaxNesting
  /\ called \in [Ids \X Objects -> 0..2]
  /\ owed \cup excused \subseteq Ids \X Objects
  /\ cancelled \subseteq Ids /\ spoiled \subseteq Mods

(* A callback is called once at most for the construction of an object, by  *)
(* the game thread or by another one, however constructions, drains and     *)
(* callbacks nest, and whichever class of the object's chain asked.         *)
OncePerConstruction == \A e \in Ids \X Objects : called[e] <= 1

(* A batch resolves a notification with a serial number to the object it was *)
(* promised for, never to one that took over the slot, and the callback gets *)
(* that object; or, if it was destroyed while the batch ran, one built since *)
(* in its slot and at its address, which is all the recheck compares.  On   *)
(* the game thread a callback always gets the object that was built.        *)
Promised(f, e) == f.kind = "direct" \/ e.serial # 0 => e.object = e.for
BuiltOver(p, o) == p > o /\ address[p] = address[o]
GetsItsObject ==
  \A k \in DOMAIN stack :
    /\ \A e \in stack[k].todo : Promised(stack[k], e)
    /\ stack[k].pc = "inside" =>
         \/ Promised(stack[k], stack[k].now)
         \/ stack[k].kind = "batch" /\ BuiltOver(stack[k].now.object, stack[k].now.for)

(* A notification that was promised and not yet given is in the queue, in a *)
(* batch or still ahead of the object's frame, unless its callback or its   *)
(* object is gone, an unload cleared the queue or an error cut a frame off. *)
Coming(id, o) ==
  \/ \E p \in pending : p.id = id /\ p.for = o
  \/ \E k \in DOMAIN stack :
       \/ \E e \in stack[k].todo : e.id = id /\ e.for = o
       \/ stack[k].object = o /\ data[id].class \in Ahead(stack[k])

NothingLost ==
  \A e \in owed :
    \/ called[e] > 0 \/ e \in excused \/ Coming(e[1], e[2])
    \/ e[1] \notin callbacks \/ \A s \in Slots : slots[s].object # e[2]

(* The reference of a registered callback is its own function, whatever     *)
(* registrations and releases its mod's registry saw, unless a callback was *)
(* cancelled twice or its element moved under the reference to it.          *)
RefIsOwn ==
  \A id \in callbacks : ModOf(id) \notin spoiled =>
    registry[ModOf(id)].cells[data[id].function] = [kind |-> "function", value |-> id]

(* What the documents and comments say, and the code does not keep.         *)

(* docs/lua-api/global-functions/notifyonnewobject.md: a callback that      *)
(* returned true is not called again.                                       *)
NotCalledAfterCancel ==
  [][\A id \in cancelled : \A o \in Objects : called'[<<id, o>>] = called[<<id, o>>]]_vars

(* LuaMod.cpp 889: a hook thread that exists is anchored.                   *)
HookThreadAnchored == \A m \in Mods : hookThread[m] = "there" => Anchored(m)

(* LuaMod.cpp 7673: no reference into the vector is invalidated while the   *)
(* callbacks of an object run.                                              *)
ReferenceHolds == At("direct", "inside") => Top.now.id \in Referred

-----------------------------------------------------------------------------
(* The inductive invariant.                                                 *)

(* A frame is one the code can be in.                                       *)
Shape(f) ==
  /\ f.kind = "direct" => f.slot \in Slots /\ f.object \in Objects /\ f.pc # "release"
  /\ f.kind = "direct" /\ f.pc # "climb" => f.chain # <<>>
  /\ f.kind = "batch" => f.object = None /\ f.chain = <<>> /\ f.pc # "climb"
  /\ f.pc \in {"climb", "release"} => f.todo = {}
  /\ f.pc = "inside" => f.now \in Exec
  /\ \A e \in f.todo : Promised(f, e) /\ (f.kind = "direct" => e.for = f.object)
  /\ \A e, g \in f.todo : e.id = g.id /\ e.for = g.for => e = g
  /\ \A i, j \in DOMAIN f.chain : f.chain[i] = f.chain[j] => i = j

(* What a frame is still to call was registered, constructed and not called.*)
Fresh(k) ==
  /\ stack[k].object <= made
  /\ stack[k].pc = "inside" => stack[k].now.id \in DOMAIN data /\ stack[k].now.for <= made
  /\ \A e \in stack[k].todo :
       /\ e.id \in DOMAIN data /\ e.for <= made /\ called[<<e.id, e.for>>] = 0
       /\ stack[k].kind = "direct" => data[e.id].class = stack[k].chain[1]
  /\ stack[k].kind = "direct" => \A id \in DOMAIN data :
       data[id].class \in Ahead(stack[k]) => called[<<id, stack[k].object>>] = 0

(* The references that releases will give back exist.                       *)
Held(id) == data[id].thread \in 0..Len(registry[ModOf(id)].cells)
HeldBy(m, refs) ==
  refs.thread \in 0..Len(registry[m].cells) /\ refs.function \in 0..Len(registry[m].cells)
Holds(k) ==
  /\ \A e \in stack[k].todo : Held(e.id)
  /\ stack[k].pc = "inside" => Held(stack[k].now.id)
  /\ \A i \in DOMAIN stack[k].release :
       stack[k].release[i] \in DOMAIN data /\ Held(stack[k].release[i])

(* An object that is still there is where the frame looks for it.           *)
Located(k) ==
  stack[k].kind = "batch" =>
    \A e \in stack[k].todo : \A s \in Slots :
      slots[s].object = e.for => s = e.slot /\ e.object = e.for

Concerns(f, o) == f.object = o \/ \E e \in f.todo : e.for = o

FramesGood == \A k \in DOMAIN stack : Shape(stack[k]) /\ Fresh(k) /\ Holds(k) /\ Located(k)

(* No two frames, and no frame and the queue, have an object in common.     *)
Apart == \A o \in Objects : \A k \in DOMAIN stack : Concerns(stack[k], o) =>
  /\ \A l \in DOMAIN stack : Concerns(stack[l], o) => l = k
  /\ \A p \in pending : p.for # o

PendingGood ==
  /\ \A p \in pending :
       /\ p.id \in DOMAIN data /\ p.for <= made /\ p.serial \in {0, p.for}
       /\ called[<<p.id, p.for>>] = 0
       /\ \A s \in Slots : slots[s].object = p.for =>
            s = p.slot /\ (p.serial # 0 => slots[s].serial = p.serial)
  /\ \A p, q \in pending : p.for = q.for => p.slot = q.slot /\ p.serial = q.serial

SlotsGood ==
  /\ \A s \in Slots : slots[s].object <= made /\ slots[s].serial \in {0, slots[s].object}
  /\ \A s, t \in Slots : slots[s].object = slots[t].object /\ ~Free(s) => s = t

InRange(r) ==
  /\ r.free \in 0..Len(r.cells)
  /\ \A i \in DOMAIN r.cells : r.cells[i].kind = "free" => r.cells[i].value \in 0..Len(r.cells)

RegistryGood ==
  /\ \A m \in Mods : InRange(registry[m]) /\ \A refs \in hooks[m] : HeldBy(m, refs)
  /\ \A id \in callbacks : Held(id)

HistoryGood ==
  /\ \A id \in Ids, o \in Objects : called[<<id, o>>] # 0 => id \in DOMAIN data /\ o <= made
  /\ \A e \in owed : e[1] \in DOMAIN data /\ e[2] <= made

(* Of the registry of a mod that is not spoiled.                            *)

(* The free list is a chain of free entries without a branch.               *)
FreeListGood(r) ==
  /\ r.free # 0 => r.cells[r.free].kind = "free"
  /\ \A i \in DOMAIN r.cells : r.cells[i].kind = "free" /\ r.cells[i].value # 0 =>
       /\ r.cells[i].value # r.free /\ r.cells[r.cells[i].value].kind = "free"
       /\ \A j \in DOMAIN r.cells :
            r.cells[j].kind = "free" /\ r.cells[j].value = r.cells[i].value => j = i

Entry(m, ref, kind, value) ==
  ref \in DOMAIN registry[m].cells /\ registry[m].cells[ref] = [kind |-> kind, value |-> value]

OwnThread(id) ==
  data[id].thread # NoRef => Entry(ModOf(id), data[id].thread, "thread", id)

(* Nothing but its cancellation gives back the thread a registration took.  *)
OwnRefs(id) ==
  /\ Entry(ModOf(id), data[id].function, "function", id)
  /\ id \notin cancelled => OwnThread(id)

OwnHooks(m) ==
  /\ \A refs \in hooks[m] : /\ Entry(m, refs.function, "function", 0)
                            /\ refs.thread # NoRef => Entry(m, refs.thread, "thread", 0)
  /\ \A a, b \in hooks[m] :
       a.function = b.function \/ (a.thread = b.thread /\ a.thread # NoRef) => a = b

(* A batch gives back the thread of each callback it cancelled once.        *)
OwnReleases(m) ==
  \A k \in DOMAIN stack : \A i \in DOMAIN stack[k].release :
    ModOf(stack[k].release[i]) = m =>
      /\ stack[k].release[i] \in cancelled /\ OwnThread(stack[k].release[i])
      /\ \A l \in DOMAIN stack : \A j \in DOMAIN stack[l].release :
           stack[l].release[j] = stack[k].release[i] => l = k /\ j = i

(* What a frame has yet to call or erase is registered or cancelled.        *)
Known(m, id) == ModOf(id) = m => id \in callbacks \cup cancelled
Accounted(m, f) ==
  /\ \A e \in f.todo : Known(m, e.id)
  /\ f.pc = "inside" => Known(m, f.now.id)
  /\ \A id \in f.remove : id \in DOMAIN data /\ (ModOf(id) = m => id \in cancelled)

ModRefsGood(m) == /\ FreeListGood(registry[m])
                  /\ \A id \in callbacks : ModOf(id) = m => OwnRefs(id)
                  /\ OwnHooks(m) /\ OwnReleases(m)
                  /\ \A k \in DOMAIN stack : Accounted(m, stack[k])

RefsGood == cancelled \subseteq DOMAIN data /\ \A m \in Mods \ spoiled : ModRefsGood(m)

(* An address is named by an object that had it, and what lives was built   *)
(* after everything that had its address before.                            *)
AddressGood ==
  /\ \A o \in 1..made : address[o] \in 1..made
  /\ \A p \in Living, o \in 1..made : o > p => address[o] # address[p]

IInv == /\ TypeOK /\ FramesGood /\ Apart /\ PendingGood /\ SlotsGood /\ RegistryGood
        /\ HistoryGood /\ OncePerConstruction /\ NothingLost

=============================================================================
