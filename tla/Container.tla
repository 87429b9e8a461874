------------------------------ MODULE Container ------------------------------
(***************************************************************************)
(* The dependency-injection container of @celerity-sdk/core                *)
(* (packages/core/src/di/container.ts).                                    *)
(*                                                                         *)
(* JavaScript runs one piece of synchronous code at a time.  A call of an  *)
(* async method runs synchronously until its first await and then gives    *)
(* control back to its caller; it is resumed by the event loop when the    *)
(* promise it waits for has settled.  Every call of resolve, resolveClass  *)
(* or constructClass is a FRAME; `stack` holds the frames whose synchronous*)
(* code has not returned yet (innermost first), so an action whose guard   *)
(* is OnTop(f) is synchronous code, and one whose guard is Resumed(f) is a *)
(* continuation run by the event loop, possible only when no synchronous   *)
(* code is running.                                                        *)
(***************************************************************************)
EXTENDS Integers, Sequences, FiniteSets

CONSTANTS
  Token,         \* the injection tokens
  ClassToken,    \* the tokens that are constructors (typeof token === "function")
  Dependencies,  \* class token -> sequence of its constructor dependency tokens
  Injectable,    \* the classes decorated with @Injectable()
  HasClose,      \* sources whose objects have one of CLOSE_METHODS
  Fallible,      \* classes and factories whose constructor or body may throw
  Wiring,        \* token -> provider registered before the first resolution
  Late,          \* <<token, provider>> pairs that code may register afterwards
  LateValue,     \* tokens that code may registerValue afterwards
  Direct,        \* classes that code asks for with resolveClass
  MaxFrames,     \* bound: frames ever started
  MaxCalls,      \* bound: calls of resolve/resolveClass from outside
  MaxLate,       \* bound: registrations after the first resolution
  MaxClose       \* bound: calls of closeAll

(* The classes of the wiring are class tokens, and what is injected is a    *)
(* token: TypeScript's InjectionToken and Type.                            *)
ASSUME WiringAssumption ==
  /\ ClassToken \subseteq Token
  /\ Token # {}
  /\ "none" \notin ClassToken
  /\ Dependencies \in [ClassToken -> Seq(Token)]
  /\ Wiring \in [Token ->
       [kind: {"none", "class", "factory"}, useClass: ClassToken \cup {"none"},
        inject: Seq(Token), onClose: BOOLEAN, value: {0}]]
  /\ Late \subseteq Token \X
       [kind: {"class", "factory", "value"}, useClass: ClassToken \cup {"none"},
        inject: Seq(Token), onClose: BOOLEAN, value: {0}]
  /\ \A t \in Token : Wiring[t].kind = "class" => Wiring[t].useClass \in ClassToken
  /\ \A r \in Late : r[2].kind = "class" => r[2].useClass \in ClassToken
  /\ LateValue \subseteq Token
  /\ Direct \subseteq ClassToken
  /\ MaxFrames \in Nat \ {0}

ASSUME LateAssumption == MaxLate \in Nat

None == 0                         \* "no object" and "no frame"
FrameId == 1..MaxFrames

NoProvider == [kind |-> "none", useClass |-> "none", inject |-> <<>>,
               onClose |-> FALSE, value |-> None]

Kind == {"none", "class", "factory", "value"}
Provider == [kind: Kind, useClass: ClassToken \cup {"none"}, inject: Seq(Token),
             onClose: BOOLEAN, value: Nat]

VARIABLES
  providers,     \* token -> the provider registered for it
  instances,     \* token -> the object cached for it, or None
  resolving,     \* tokens being resolved: the cycle detector's set
  edges,         \* token -> the tokens it was recorded to depend on
  closeStack,    \* close entries in the order they were tracked
  tracked,       \* tokens that have a close entry
  heap,          \* every object made so far: its source and what it was given
  frames,        \* frame id -> the call it stands for
  calls,         \* how many frames have been started
  stack,         \* the frames on the JavaScript call stack, innermost first
  closing,       \* the closeAll in progress: entries it has yet to close
  late, closes   \* how many late registrations and closeAll calls were made

vars == <<providers, instances, resolving, edges, closeStack, tracked, heap,
          frames, calls, stack, closing, late, closes>>
store == <<providers, instances, resolving, edges, closeStack, tracked, heap>>
rest == <<closing, late, closes>>

Entry == [token: Token, obj: Nat, hook: BOOLEAN]

Fn == {"resolve", "resolveClass", "constructClass"}
HoldingPc == {"early", "store", "class", "inject", "awaitAll", "producing"}
Pc == HoldingPc \cup {"idle", "enter", "adopt", "deps", "ok", "failed"}
Reason == {"none", "circular", "missing", "notInjectable", "thrown"}
Frame == [fn: Fn, token: Token, parent: FrameId \cup {None}, pc: Pc,
          kids: Seq(FrameId), provider: Provider, val: Nat, err: Reason]

NewFrame(fn, t, p) ==
  [fn |-> fn, token |-> t, parent |-> p, pc |-> "enter", kids |-> <<>>,
   provider |-> NoProvider, val |-> None, err |-> "none"]

-----------------------------------------------------------------------------
(* The JavaScript machine.                                                 *)

OnTop(f) == stack # <<>> /\ Head(stack) = f
Idle == stack = <<>>
Settled(f) == frames[f].pc \in {"ok", "failed"}
LastKid(f) == frames[f].kids[Len(frames[f].kids)]

(* The frame that ends with object o, or fails with reason e.              *)
Ok(f, o) == [frames[f] EXCEPT !.pc = "ok", !.val = o]
Failed(f, e) == [frames[f] EXCEPT !.pc = "failed", !.err = e]

(* f, now fr, calls fn(t); the callee runs on top of the frames `below`.   *)
Invoke(f, fr, fn, t, below) ==
  /\ calls < MaxFrames
  /\ calls' = calls + 1
  /\ frames' = [frames EXCEPT
       ![f] = [fr EXCEPT !.kids = Append(@, calls + 1)],
       ![calls + 1] = NewFrame(fn, t, f)]
  /\ stack' = <<calls + 1>> \o below

(* f becomes fr and gives control back to its caller, or to the event loop.*)
Return(f, fr) ==
  /\ frames' = [frames EXCEPT ![f] = fr]
  /\ stack' = Tail(stack)
  /\ UNCHANGED calls

(* f becomes fr in a continuation run by the event loop.                   *)
Continue(f, fr) ==
  /\ frames' = [frames EXCEPT ![f] = fr]
  /\ UNCHANGED <<stack, calls>>

Holding(f) == frames[f].pc \in HoldingPc

Entering(f, fns) ==
  /\ OnTop(f)
  /\ frames[f].pc = "enter"
  /\ frames[f].fn \in fns

Resumed(f, pcs) == Idle /\ frames[f].pc \in pcs

-----------------------------------------------------------------------------
(* Shared effects.                                                         *)

(* Seeded fault: no trackedTokens check.                                   *)
TrackAgain(t, o, src, onClose) ==
  IF onClose \/ src \in HasClose
  THEN /\ closeStack' = Append(closeStack, [token |-> t, obj |-> o, hook |-> onClose])
       /\ tracked' = tracked \cup {t}
  ELSE UNCHANGED <<closeStack, tracked>>

(* trackCloseable: the first closer tracked for a token wins.  A provider's*)
(* onClose is preferred to a close method found on the object.             *)
Track(t, o, src, onClose) ==
  IF t \notin tracked /\ (onClose \/ src \in HasClose)
  THEN /\ closeStack' = Append(closeStack, [token |-> t, obj |-> o, hook |-> onClose])
       /\ tracked' = tracked \cup {t}
  ELSE UNCHANGED <<closeStack, tracked>>

RecordEdges(t, deps) ==
  edges' = [edges EXCEPT ![t] = @ \cup {deps[i] : i \in DOMAIN deps}]

NewObject(src, uses) == heap' = Append(heap, [src |-> src, uses |-> uses])
NextObject == Len(heap) + 1

Given(f) == {frames[frames[f].kids[i]].val : i \in DOMAIN frames[f].kids}

Acquire(f) == resolving' = resolving \cup {frames[f].token}
Release(f) == resolving' = resolving \ {frames[f].token}

-----------------------------------------------------------------------------
(* register, registerValue and calls from outside, made while no           *)
(* synchronous code of the container runs.                                 *)

Init ==
  /\ providers = Wiring
  /\ instances = [t \in Token |-> None]
  /\ resolving = {}
  /\ edges = [t \in Token |-> {}]
  /\ closeStack = <<>>
  /\ tracked = {}
  /\ heap = <<>>
  /\ frames = [f \in FrameId |->
                 [NewFrame("resolve", CHOOSE t \in Token : TRUE, None)
                    EXCEPT !.pc = "idle"]]
  /\ calls = 0
  /\ stack = <<>>
  /\ closing = [active |-> FALSE, left |-> <<>>]
  /\ late = 0
  /\ closes = 0

Register(t, p) ==
  /\ Idle
  /\ late < MaxLate
  /\ late' = late + 1
  /\ IF p.kind = "value"
     THEN /\ providers' = [providers EXCEPT ![t] = [p EXCEPT !.value = NextObject]]
          /\ NewObject(t, {})
          /\ Track(t, NextObject, t, p.onClose)
     ELSE /\ providers' = [providers EXCEPT ![t] = p]
          /\ UNCHANGED <<heap, closeStack, tracked>>
  /\ UNCHANGED <<instances, resolving, edges, frames, calls, stack, closing, closes>>

RegisterValue(t) ==
  /\ Idle
  /\ late < MaxLate
  /\ late' = late + 1
  /\ instances' = [instances EXCEPT ![t] = NextObject]
  /\ NewObject(t, {})
  /\ Track(t, NextObject, t, FALSE)
  /\ UNCHANGED <<providers, resolving, edges, frames, calls, stack, closing, closes>>

Roots == {f \in 1..calls : frames[f].parent = None}

Call(fn, t) ==
  /\ Idle
  /\ Cardinality(Roots) < MaxCalls
  /\ calls < MaxFrames
  /\ calls' = calls + 1
  /\ frames' = [frames EXCEPT ![calls + 1] = NewFrame(fn, t, None)]
  /\ stack' = <<calls + 1>>
  /\ UNCHANGED <<store, rest>>

-----------------------------------------------------------------------------
(* resolve and resolveClass.                                               *)

(* All three methods first look for a cached instance.                     *)
EnterCached(f) ==
  /\ Entering(f, Fn)
  /\ instances[frames[f].token] # None
  /\ Return(f, Ok(f, instances[frames[f].token]))
  /\ UNCHANGED <<store, rest>>

Uncached(f, fns) == Entering(f, fns) /\ instances[frames[f].token] = None

(* Seeded fault: wait for the resolution in progress instead of failing.   *)
EnterCircularWaits(f) ==
  /\ Uncached(f, {"resolve", "resolveClass"})
  /\ frames[f].token \in resolving
  /\ \E g \in FrameId :
       /\ Holding(g) /\ frames[g].token = frames[f].token
       /\ Return(f, [frames[f] EXCEPT !.pc = "adopt", !.kids = <<g>>])
  /\ UNCHANGED <<store, rest>>

EnterCircular(f) ==
  /\ Uncached(f, {"resolve", "resolveClass"})
  /\ frames[f].token \in resolving
  /\ Return(f, Failed(f, "circular"))
  /\ UNCHANGED <<store, rest>>

(* Seeded fault: no check of `resolving`.                                  *)
FreshUnlocked(f, fns) == Uncached(f, fns)

Fresh(f, fns) == Uncached(f, fns) /\ frames[f].token \notin resolving
ProviderOf(f) == providers[frames[f].token]

(* No provider for a string or symbol token: added to and deleted from     *)
(* `resolving` in one synchronous step.                                    *)
EnterMissing(f) ==
  /\ Fresh(f, {"resolve"})
  /\ ProviderOf(f).kind = "none"
  /\ frames[f].token \notin ClassToken
  /\ Return(f, Failed(f, "missing"))
  /\ UNCHANGED <<store, rest>>

(* An unregistered class in resolve, or any class in resolveClass:         *)
(* `return this.constructClass(...)` without await inside try/finally.     *)
EnterUnregistered(f) ==
  /\ Fresh(f, {"resolve", "resolveClass"})
  /\ \/ frames[f].fn = "resolveClass"
     \/ ProviderOf(f).kind = "none" /\ frames[f].token \in ClassToken
  /\ Acquire(f)
  /\ Invoke(f, [frames[f] EXCEPT !.pc = "early"],
            "constructClass", frames[f].token, stack)
  /\ UNCHANGED <<providers, instances, edges, closeStack, tracked, heap, rest>>

(* The finally block runs as soon as constructClass gives control back.    *)
ReleaseEarly(f) ==
  /\ OnTop(f)
  /\ frames[f].pc = "early"
  /\ Release(f)
  /\ Return(f, [frames[f] EXCEPT !.pc = "adopt"])
  /\ UNCHANGED <<providers, instances, edges, closeStack, tracked, heap, rest>>

(* The promise resolve returned takes the outcome of constructClass's.     *)
Adopt(f) ==
  /\ Resumed(f, {"adopt"})
  /\ Settled(LastKid(f))
  /\ LET kid == frames[LastKid(f)] IN
     Continue(f, [frames[f] EXCEPT !.pc = kid.pc, !.val = kid.val, !.err = kid.err])
  /\ UNCHANGED <<store, rest>>

EnterValue(f) ==
  /\ Fresh(f, {"resolve"})
  /\ ProviderOf(f).kind = "value"
  /\ Acquire(f)
  /\ Return(f, [frames[f] EXCEPT !.pc = "store", !.provider = ProviderOf(f)])
  /\ UNCHANGED <<providers, instances, edges, closeStack, tracked, heap, rest>>

StoreValue(f) ==
  /\ Resumed(f, {"store"})
  /\ instances' = [instances EXCEPT ![frames[f].token] = frames[f].provider.value]
  /\ Release(f)
  /\ Continue(f, Ok(f, frames[f].provider.value))
  /\ UNCHANGED <<providers, edges, closeStack, tracked, heap, rest>>

(* Seeded fault: the token is not in `resolving` while its class is built. *)
EnterClassUnguarded(f) ==
  /\ Fresh(f, {"resolve"})
  /\ ProviderOf(f).kind = "class"
  /\ Invoke(f, [frames[f] EXCEPT !.pc = "class", !.provider = ProviderOf(f)],
            "constructClass", ProviderOf(f).useClass, Tail(stack))
  /\ UNCHANGED <<store, rest>>

EnterClass(f) ==
  /\ Fresh(f, {"resolve"})
  /\ ProviderOf(f).kind = "class"
  /\ Acquire(f)
  /\ Invoke(f, [frames[f] EXCEPT !.pc = "class", !.provider = ProviderOf(f)],
            "constructClass", ProviderOf(f).useClass, Tail(stack))
  /\ UNCHANGED <<providers, instances, edges, closeStack, tracked, heap, rest>>

StoreClass(f) ==
  /\ Resumed(f, {"class"})
  /\ frames[LastKid(f)].pc = "ok"
  /\ LET o == frames[LastKid(f)].val IN
     /\ instances' = [instances EXCEPT ![frames[f].token] = o]
     /\ Track(frames[f].token, o, heap[o].src, frames[f].provider.onClose)
     /\ Continue(f, Ok(f, o))
  /\ Release(f)
  /\ UNCHANGED <<providers, edges, heap, rest>>

(* createFromProvider with a factory.  Its injected tokens are resolved by *)
(* Promise.all(inject.map(...)): every resolve call starts in one          *)
(* synchronous step.  Without inject the factory is called at once.        *)
EnterFactory(f) ==
  /\ Fresh(f, {"resolve"})
  /\ ProviderOf(f).kind = "factory"
  /\ Acquire(f)
  /\ RecordEdges(frames[f].token, ProviderOf(f).inject)
  /\ IF ProviderOf(f).inject = <<>>
     THEN Return(f, [frames[f] EXCEPT !.pc = "producing", !.provider = ProviderOf(f)])
     ELSE Continue(f, [frames[f] EXCEPT !.pc = "inject", !.provider = ProviderOf(f)])
  /\ UNCHANGED <<providers, instances, closeStack, tracked, heap, rest>>

InjectNext(f) ==
  /\ OnTop(f)
  /\ frames[f].pc = "inject"
  /\ Len(frames[f].kids) < Len(frames[f].provider.inject)
  /\ Invoke(f, frames[f], "resolve",
            frames[f].provider.inject[Len(frames[f].kids) + 1], stack)
  /\ UNCHANGED <<store, rest>>

InjectAll(f) ==
  /\ OnTop(f)
  /\ frames[f].pc = "inject"
  /\ Len(frames[f].kids) = Len(frames[f].provider.inject)
  /\ Return(f, [frames[f] EXCEPT !.pc = "awaitAll"])
  /\ UNCHANGED <<store, rest>>

Produce(f) ==
  /\ Resumed(f, {"awaitAll"})
  /\ \A i \in DOMAIN frames[f].kids : frames[frames[f].kids[i]].pc = "ok"
  /\ Continue(f, [frames[f] EXCEPT !.pc = "producing"])
  /\ UNCHANGED <<store, rest>>

FactoryReturns(f) ==
  /\ Resumed(f, {"producing"})
  /\ NewObject(frames[f].token, Given(f))
  /\ instances' = [instances EXCEPT ![frames[f].token] = NextObject]
  /\ Track(frames[f].token, NextObject, frames[f].token, frames[f].provider.onClose)
  /\ Release(f)
  /\ Continue(f, Ok(f, NextObject))
  /\ UNCHANGED <<providers, edges, rest>>

FactoryThrows(f) ==
  /\ Resumed(f, {"producing"})
  /\ frames[f].token \in Fallible
  /\ Release(f)
  /\ Continue(f, Failed(f, "thrown"))
  /\ UNCHANGED <<providers, instances, edges, closeStack, tracked, heap, rest>>

(* Seeded fault: the finally block is missing.                             *)
RejectKeepsToken(f) ==
  /\ Resumed(f, {"class", "awaitAll"})
  /\ \E i \in DOMAIN frames[f].kids :
       /\ frames[frames[f].kids[i]].pc = "failed"
       /\ Continue(f, Failed(f, frames[frames[f].kids[i]].err))
  /\ UNCHANGED <<store, rest>>

(* Seeded fault: the state of the settled promise is taken for its reason. *)
RejectMixedUp(f) ==
  /\ Resumed(f, {"class", "awaitAll"})
  /\ \E i \in DOMAIN frames[f].kids :
       /\ frames[frames[f].kids[i]].pc = "failed"
       /\ Continue(f, Failed(f, frames[frames[f].kids[i]].pc))
  /\ Release(f)
  /\ UNCHANGED <<providers, instances, edges, closeStack, tracked, heap, rest>>

(* The awaited promise rejects: Promise.all rejects with its first failure *)
(* while the other injected resolutions go on.                             *)
Reject(f) ==
  /\ Resumed(f, {"class", "awaitAll"})
  /\ \E i \in DOMAIN frames[f].kids :
       /\ frames[frames[f].kids[i]].pc = "failed"
       /\ Continue(f, Failed(f, frames[frames[f].kids[i]].err))
  /\ Release(f)
  /\ UNCHANGED <<providers, instances, edges, closeStack, tracked, heap, rest>>

-----------------------------------------------------------------------------
(* constructClass.                                                         *)

DepsOf(f) == Dependencies[frames[f].token]
Constructible(f) == frames[f].token \in Injectable \/ DepsOf(f) = <<>>

ConstructRefused(f) ==
  /\ Uncached(f, {"constructClass"})
  /\ ~Constructible(f)
  /\ Return(f, Failed(f, "notInjectable"))
  /\ UNCHANGED <<store, rest>>

(* new target(...deps), cached and tracked under the class itself.         *)
Instantiate(f) ==
  /\ NewObject(frames[f].token, Given(f))
  /\ instances' = [instances EXCEPT ![frames[f].token] = NextObject]
  /\ Track(frames[f].token, NextObject, frames[f].token, FALSE)

ConstructLeaf(f) ==
  /\ Uncached(f, {"constructClass"})
  /\ DepsOf(f) = <<>>
  /\ Instantiate(f)
  /\ Return(f, Ok(f, NextObject))
  /\ UNCHANGED <<providers, resolving, edges, rest>>

ConstructLeafThrows(f) ==
  /\ Uncached(f, {"constructClass"})
  /\ DepsOf(f) = <<>>
  /\ frames[f].token \in Fallible
  /\ Return(f, Failed(f, "thrown"))
  /\ UNCHANGED <<store, rest>>

ConstructBegin(f) ==
  /\ Uncached(f, {"constructClass"})
  /\ Constructible(f)
  /\ DepsOf(f) # <<>>
  /\ RecordEdges(frames[f].token, DepsOf(f))
  /\ Invoke(f, [frames[f] EXCEPT !.pc = "deps"], "resolve", DepsOf(f)[1], Tail(stack))
  /\ UNCHANGED <<providers, instances, resolving, closeStack, tracked, heap, rest>>

DepReady(f) == Resumed(f, {"deps"}) /\ frames[LastKid(f)].pc = "ok"

ConstructNext(f) ==
  /\ DepReady(f)
  /\ Len(frames[f].kids) < Len(DepsOf(f))
  /\ Invoke(f, frames[f], "resolve", DepsOf(f)[Len(frames[f].kids) + 1], <<>>)
  /\ UNCHANGED <<store, rest>>

ConstructFinish(f) ==
  /\ DepReady(f)
  /\ Len(frames[f].kids) = Len(DepsOf(f))
  /\ Instantiate(f)
  /\ Continue(f, Ok(f, NextObject))
  /\ UNCHANGED <<providers, resolving, edges, rest>>

ConstructThrows(f) ==
  /\ DepReady(f)
  /\ Len(frames[f].kids) = Len(DepsOf(f))
  /\ frames[f].token \in Fallible
  /\ Continue(f, Failed(f, "thrown"))
  /\ UNCHANGED <<store, rest>>

ConstructReject(f) ==
  /\ Resumed(f, {"deps"})
  /\ frames[LastKid(f)].pc = "failed"
  /\ Continue(f, Failed(f, frames[LastKid(f)].err))
  /\ UNCHANGED <<store, rest>>

-----------------------------------------------------------------------------
(* closeAll: a snapshot of the stack is closed newest first, one await per *)
(* entry, errors swallowed; then the whole stack is dropped.               *)

(* Seeded fault: oldest first.                                             *)
CloseAllForward ==
  /\ Idle
  /\ ~closing.active
  /\ closes < MaxClose
  /\ closes' = closes + 1
  /\ closing' = [active |-> TRUE, left |-> closeStack]
  /\ UNCHANGED <<store, frames, calls, stack, late>>

CloseAll ==
  /\ Idle
  /\ ~closing.active
  /\ closes < MaxClose
  /\ closes' = closes + 1
  /\ closing' = [active |-> TRUE,
                 left |-> [i \in 1..Len(closeStack) |->
                             closeStack[Len(closeStack) + 1 - i]]]
  /\ UNCHANGED <<store, frames, calls, stack, late>>

CloseOne ==
  /\ Idle
  /\ closing.active
  /\ closing.left # <<>>
  /\ closing' = [closing EXCEPT !.left = Tail(@)]
  /\ UNCHANGED <<store, frames, calls, stack, late, closes>>

CloseDone ==
  /\ Idle
  /\ closing.active
  /\ closing.left = <<>>
  /\ closing' = [closing EXCEPT !.active = FALSE]
  /\ closeStack' = <<>>
  /\ tracked' = {}
  /\ UNCHANGED <<providers, instances, resolving, edges, heap, frames, calls,
                 stack, late, closes>>

-----------------------------------------------------------------------------
Synchronous(f) ==
  \/ EnterCached(f) \/ EnterCircular(f) \/ EnterMissing(f)
  \/ EnterUnregistered(f) \/ ReleaseEarly(f)
  \/ EnterValue(f) \/ EnterClass(f)
  \/ EnterFactory(f) \/ InjectNext(f) \/ InjectAll(f)
  \/ ConstructRefused(f) \/ ConstructLeaf(f) \/ ConstructLeafThrows(f)
  \/ ConstructBegin(f)

Continuation(f) ==
  \/ Adopt(f) \/ StoreValue(f) \/ StoreClass(f) \/ Produce(f) \/ Reject(f)
  \/ FactoryReturns(f) \/ FactoryThrows(f)
  \/ ConstructNext(f) \/ ConstructFinish(f) \/ ConstructThrows(f)
  \/ ConstructReject(f)

Environment ==
  \/ \E t \in Token : Call("resolve", t)
  \/ \E t \in Direct : Call("resolveClass", t)
  \/ \E r \in Late : Register(r[1], r[2])
  \/ \E t \in LateValue : RegisterValue(t)
  \/ CloseAll

System ==
  \/ \E f \in FrameId : Synchronous(f) \/ Continuation(f)
  \/ CloseOne \/ CloseDone

Next == System \/ Environment

Spec == Init /\ [][Next]_vars

(* Synchronous code runs to completion, the event loop keeps running        *)
(* continuations whose promise has settled, and factories and close hooks  *)
(* settle; the environment never has to do anything.                       *)
FairSpec == Spec /\ WF_vars(System)

-----------------------------------------------------------------------------
(* Properties.                                                             *)

(* Every part of the state has its shape, the call stack names started     *)
(* frames, and a frame waits for frames started after it.                  *)
TypeOK ==
  /\ providers \in [Token -> Provider]
  /\ instances \in [Token -> Nat]
  /\ resolving \subseteq Token
  /\ edges \in [Token -> SUBSET Token]
  /\ closeStack \in Seq(Entry)
  /\ tracked \subseteq Token
  /\ heap \in Seq([src: Token, uses: SUBSET Nat])
  /\ calls \in 0..MaxFrames
  /\ frames \in [FrameId -> Frame]
  /\ stack \in Seq(1..calls)
  /\ closing \in [active: BOOLEAN, left: Seq(Entry)]
  /\ late \in Nat
  /\ closes \in Nat

(* The cycle detector's set (container.ts:62, the finally blocks at 131 and*)
(* 149) is exact: a token is in `resolving` precisely while one call, and  *)
(* only one, is inside the try block for it, however calls interleave and  *)
(* whichever of them fail.  A token left behind would make every later     *)
(* resolution of it fail as circular.                                      *)
LockDiscipline ==
  /\ resolving = {frames[f].token : f \in {g \in FrameId : Holding(g)}}
  /\ \A f, g \in FrameId :
       Holding(f) /\ Holding(g) /\ frames[f].token = frames[g].token => f = g

(* The close stack and `trackedTokens` (container.ts:290) agree: a token   *)
(* has one entry exactly while it is tracked, so closeAll calls at most one*)
(* closer per token.                                                       *)
OneCloserPerToken ==
  /\ tracked = {closeStack[i].token : i \in DOMAIN closeStack}
  /\ \A i, j \in DOMAIN closeStack :
       closeStack[i].token = closeStack[j].token => i = j

(* closeAll (container.ts:164) closes a service before the services it was *)
(* constructed with: nothing still to be closed was given an object that   *)
(* is closed before it.                                                    *)
DependentsCloseFirst ==
  \A i, j \in DOMAIN closing.left :
    i < j => closing.left[i].obj \notin heap[closing.left[j].obj].uses

(* Every call of the container settles: it never hangs waiting for itself  *)
(* or for another call, whatever fails and in whatever order promises      *)
(* settle.  (A call stays settled, and calls are bounded: time and again   *)
(* every call made so far has settled.)                                    *)
EveryCallSettles == []<>(\A f \in 1..calls : Settled(f))

(* A wiring as bootstrap leaves it: every class has a provider, a provider *)
(* by class is for that class itself, and what is supplied later has no    *)
(* other provider.                                                         *)
Bootstrapped ==
  /\ \A t \in Token : Wiring[t].kind = "class" => Wiring[t].useClass = t
  /\ \A t \in ClassToken : Wiring[t].kind # "none"
  /\ \A t \in LateValue : Wiring[t].kind = "none"
  /\ Late = {} /\ Direct = {}

(* A token's object is built once and given to every caller (ServiceStore).*)
Store == INSTANCE ServiceStore WITH
  Caller <- FrameId,
  Object <- 1..(MaxFrames + MaxLate),
  Supplied <- LateValue,
  store <- instances,
  answer <- [f \in FrameId |->
               IF frames[f].pc = "ok"
               THEN [token |-> frames[f].token, obj |-> frames[f].val]
               ELSE [token |-> "none", obj |-> None]]
ImplementsStore == Store!Spec

(* The tokens a token's resolution may reach through the wiring.           *)
NeedsOf(t) ==
  CASE Wiring[t].kind = "factory" -> Wiring[t].inject
    [] Wiring[t].kind = "class"   -> Dependencies[Wiring[t].useClass]
    [] Wiring[t].kind = "none" /\ t \in ClassToken -> Dependencies[t]
    [] OTHER                      -> <<>>
Needs(T) == UNION {{NeedsOf(t)[i] : i \in DOMAIN NeedsOf(t)} : t \in T}
Reach[n \in 0..Cardinality(Token), t \in Token] ==
  IF n = 0 THEN {t} ELSE Reach[n - 1, t] \cup Needs(Reach[n - 1, t])
Cyclic == {t \in Token : t \in Needs(Reach[Cardinality(Token), t])}

(* "Circular dependency detected" (container.ts:101) is only said of tokens*)
(* whose dependencies form a cycle; container.test.ts:414 "does not throw  *)
(* for diamond dependencies".                                              *)
CircularMeansCycle ==
  \A f \in FrameId :
    frames[f].err = "circular" =>
      Reach[Cardinality(Token), frames[f].token] \cap Cyclic # {}

Ancestors[f \in 0..MaxFrames] ==
  IF f = None THEN {} ELSE {f} \cup Ancestors[frames[f].parent]

(* The container detects circular dependencies (core README.md:183): no    *)
(* call constructs a class while a call it is part of is constructing the  *)
(* same class.                                                             *)
CyclesDetected ==
  \A f, g \in 1..calls :
    g \in Ancestors[f] \ {f} =>
      ~ /\ frames[f].fn = "constructClass" /\ frames[g].fn = "constructClass"
        /\ frames[f].token = frames[g].token
        /\ frames[f].pc = "deps" /\ frames[g].pc = "deps"
=============================================================================
