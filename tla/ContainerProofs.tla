--------------------------- MODULE ContainerProofs ---------------------------
(***************************************************************************)
(* Proofs about the container, for every bound: its types, its cycle       *)
(* detector and its closers for every wiring, the refinement of            *)
(* ServiceStore, the cycles and the order of closeAll for the wirings      *)
(* bootstrap leaves; again for every wiring, that calls are never stuck    *)
(* and always advance; and when a "circular" error is true.                *)
(***************************************************************************)
EXTENDS Container, FiniteSetTheorems, WellFoundedInduction, TLAPS

(* What TypeOK needs to be inductive: frames are started in order, a frame *)
(* that waits for one call has started it, and whatever is constructed is  *)
(* a class.                                                                *)
FrameOK(f) ==
  /\ frames[f].pc = "idle" <=> f > calls
  /\ frames[f].pc \in {"early", "adopt", "class", "deps"} => frames[f].kids # <<>>
  /\ frames[f].fn \in {"resolveClass", "constructClass"} => frames[f].token \in ClassToken
  /\ frames[f].pc = "deps" => frames[f].token \in ClassToken

ProvidersOK ==
  \A t \in Token : providers[t].kind = "class" => providers[t].useClass \in ClassToken

IInv ==
  /\ TypeOK
  /\ \A f \in FrameId : FrameOK(f)
  /\ ProvidersOK

LEMMA FrameType ==
  ASSUME NEW fr \in Frame
  PROVE  /\ fr.fn \in Fn /\ fr.token \in Token /\ fr.parent \in FrameId \cup {None}
         /\ fr.pc \in Pc /\ fr.kids \in Seq(FrameId) /\ fr.provider \in Provider
         /\ fr.val \in Nat /\ fr.err \in Reason
  BY DEF Frame

LEMMA NewFrameType ==
  ASSUME NEW fn \in Fn, NEW t \in Token, NEW p \in FrameId \cup {None}
  PROVE  NewFrame(fn, t, p) \in Frame
  BY DEF NewFrame, Frame, NoProvider, Provider, Kind, Reason, Pc, HoldingPc, None

THEOREM InitIInv == Init => IInv
  <1> SUFFICES ASSUME Init PROVE IInv
    OBVIOUS
  <1> USE WiringAssumption
  <1>1. (CHOOSE t \in Token : TRUE) \in Token
    OBVIOUS
  <1>2. frames \in [FrameId -> Frame]
    BY <1>1, NewFrameType DEF Init, Frame, Fn, None, Pc, HoldingPc, NewFrame
  <1>3. providers \in [Token -> Provider]
    BY DEF Init, Provider, Kind
  <1>4. TypeOK
    BY <1>2, <1>3 DEF Init, TypeOK, None
  <1>5. ASSUME NEW f \in FrameId PROVE FrameOK(f)
    <2>1. frames[f].pc = "idle" /\ frames[f].fn = "resolve"
      BY DEF Init, NewFrame
    <2>2. calls = 0 /\ f > calls
      BY DEF Init, FrameId
    <2> QED
      BY <2>1, <2>2 DEF FrameOK
  <1>6. ProvidersOK
    BY DEF Init, ProvidersOK
  <1> QED
    BY <1>4, <1>5, <1>6 DEF IInv

-----------------------------------------------------------------------------
(* What the steps of the machine do to the frames.                         *)

(* The part of IInv about frames and the call stack.                       *)
MachineOK ==
  /\ calls \in 0..MaxFrames
  /\ frames \in [FrameId -> Frame]
  /\ stack \in Seq(1..calls)
  /\ \A f \in FrameId : FrameOK(f)

(* A frame that f may become without breaking FrameOK.                     *)
Legal(f, fr) ==
  /\ fr \in Frame
  /\ fr.pc # "idle"
  /\ fr.fn = frames[f].fn /\ fr.token = frames[f].token
  /\ fr.pc = "deps" => fr.token \in ClassToken

Waits(fr) == fr.pc \in {"early", "adopt", "class", "deps"} => fr.kids # <<>>

LEMMA SetFrame ==
  ASSUME MachineOK, NEW f \in FrameId, f <= calls, NEW fr, Legal(f, fr), Waits(fr),
         frames' = [frames EXCEPT ![f] = fr], calls' = calls, stack' \in Seq(1..calls)
  PROVE  MachineOK'
  <1>1. frames' \in [FrameId -> Frame]
    BY DEF MachineOK, Legal
  <1>2. ASSUME NEW g \in FrameId PROVE FrameOK(g)'
    <2>1. CASE g = f
      BY <2>1 DEF MachineOK, Legal, Waits, FrameOK, FrameId
    <2>2. CASE g # f
      BY <2>2 DEF MachineOK, FrameOK
    <2> QED
      BY <2>1, <2>2
  <1> QED
    BY <1>1, <1>2 DEF MachineOK

LEMMA ContinueOK ==
  ASSUME MachineOK, NEW f \in FrameId, f <= calls, NEW fr, Legal(f, fr), Waits(fr),
         Continue(f, fr)
  PROVE  MachineOK'
  BY SetFrame DEF Continue, MachineOK

LEMMA ReturnOK ==
  ASSUME MachineOK, NEW f \in FrameId, f <= calls, NEW fr, Legal(f, fr), Waits(fr),
         stack # <<>>, Return(f, fr)
  PROVE  MachineOK'
  <1>1. Tail(stack) \in Seq(1..calls)
    BY DEF MachineOK
  <1> QED
    BY <1>1, SetFrame DEF Return

LEMMA InvokeOK ==
  ASSUME MachineOK, NEW f \in FrameId, f <= calls, NEW fr, Legal(f, fr),
         NEW fn \in Fn, NEW t \in Token,
         fn = "constructClass" => t \in ClassToken, fn # "resolveClass",
         NEW below \in Seq(1..calls), Invoke(f, fr, fn, t, below)
  PROVE  MachineOK'
  <1> DEFINE n == calls + 1
  <1> DEFINE fk == [fr EXCEPT !.kids = Append(@, n)]
  <1>1. n \in FrameId /\ f # n /\ f \in FrameId /\ calls' = n /\ calls' \in 0..MaxFrames
    BY WiringAssumption DEF MachineOK, Invoke, FrameId
  <1>2. fk \in Frame /\ fk.kids # <<>>
    <2>1. fr.kids \in Seq(FrameId)
      BY DEF Legal, Frame
    <2>2. Append(fr.kids, n) \in Seq(FrameId) /\ Append(fr.kids, n) # <<>>
      BY <1>1, <2>1
    <2> QED
      BY <2>2 DEF Legal, Frame
  <1>3. NewFrame(fn, t, f) \in Frame
    BY NewFrameType
  <1>4. frames' = [frames EXCEPT ![f] = fk, ![n] = NewFrame(fn, t, f)]
    BY DEF Invoke
  <1>5. frames' \in [FrameId -> Frame]
    BY <1>2, <1>3, <1>4 DEF MachineOK
  <1>6. stack' \in Seq(1..calls')
    <2>1. below \in Seq(1..n) /\ <<n>> \in Seq(1..n)
      BY <1>1 DEF MachineOK, FrameId
    <2>2. <<n>> \o below \in Seq(1..n)
      BY <2>1
    <2> QED
      BY <1>1, <2>2 DEF Invoke
  <1>7. ASSUME NEW g \in FrameId PROVE FrameOK(g)'
    <2>1. CASE g = f
      <3>1. frames'[f] = fk
        BY <1>1, <1>4 DEF MachineOK
      <3>2. fk.pc = fr.pc /\ fk.fn = fr.fn /\ fk.token = fr.token
        BY DEF Legal, Frame
      <3> QED
        BY <2>1, <3>1, <3>2, <1>1, <1>2 DEF MachineOK, Legal, FrameOK, FrameId
    <2>2. CASE g = n
      <3>1. frames'[n] = NewFrame(fn, t, f)
        BY <1>1, <1>4 DEF MachineOK
      <3> QED
        BY <2>2, <3>1, <1>1 DEF NewFrame, FrameOK, FrameId
    <2>3. CASE g # f /\ g # n
      <3>1. frames'[g] = frames[g]
        BY <2>3, <1>4 DEF MachineOK
      <3>2. FrameOK(g) /\ (g > calls <=> g > calls')
        BY <2>3, <1>1 DEF MachineOK, FrameId
      <3> QED
        BY <3>1, <3>2 DEF FrameOK
    <2> QED
      BY <2>1, <2>2, <2>3
  <1> QED
    BY <1>1, <1>5, <1>6, <1>7 DEF MachineOK

-----------------------------------------------------------------------------
(* What the shared effects do to the rest of the state.                    *)

(* The part of IInv about everything else.                                 *)
StoreOK ==
  /\ providers \in [Token -> Provider]
  /\ instances \in [Token -> Nat]
  /\ resolving \subseteq Token
  /\ edges \in [Token -> SUBSET Token]
  /\ closeStack \in Seq(Entry)
  /\ tracked \subseteq Token
  /\ heap \in Seq([src: Token, uses: SUBSET Nat])
  /\ ProvidersOK

RestOK ==
  /\ closing \in [active: BOOLEAN, left: Seq(Entry)]
  /\ late \in Nat
  /\ closes \in Nat

LEMMA Parts == IInv <=> MachineOK /\ StoreOK /\ RestOK
  BY DEF IInv, TypeOK, MachineOK, StoreOK, RestOK

LEMMA PartsNext == MachineOK' /\ StoreOK' /\ RestOK' => IInv'
  BY DEF IInv, TypeOK, MachineOK, StoreOK, RestOK

LEMMA TrackOK ==
  ASSUME closeStack \in Seq(Entry), tracked \subseteq Token,
         NEW t \in Token, NEW o \in Nat, NEW src, NEW hook \in BOOLEAN,
         Track(t, o, src, hook)
  PROVE  closeStack' \in Seq(Entry) /\ tracked' \subseteq Token
  <1>1. [token |-> t, obj |-> o, hook |-> hook] \in Entry
    BY DEF Entry
  <1> QED
    BY <1>1 DEF Track

LEMMA NewObjectOK ==
  ASSUME heap \in Seq([src: Token, uses: SUBSET Nat]),
         NEW t \in Token, NEW uses \in SUBSET Nat, NewObject(t, uses)
  PROVE  heap' \in Seq([src: Token, uses: SUBSET Nat]) /\ NextObject \in Nat
  BY DEF NewObject, NextObject

LEMMA GivenOK ==
  ASSUME MachineOK, NEW f \in FrameId
  PROVE  Given(f) \in SUBSET Nat
  <1> SUFFICES ASSUME NEW i \in DOMAIN frames[f].kids
               PROVE  frames[frames[f].kids[i]].val \in Nat
    BY DEF Given
  <1>1. frames[f].kids \in Seq(FrameId)
    BY DEF MachineOK, Frame
  <1>2. frames[f].kids[i] \in FrameId
    BY <1>1
  <1> QED
    BY <1>2 DEF MachineOK, Frame

LEMMA EdgesOK ==
  ASSUME edges \in [Token -> SUBSET Token], NEW t \in Token, NEW deps \in Seq(Token),
         RecordEdges(t, deps)
  PROVE  edges' \in [Token -> SUBSET Token]
  BY DEF RecordEdges

LEMMA KidOK ==
  ASSUME MachineOK, NEW f \in FrameId, frames[f].pc \in {"early", "adopt", "class", "deps"}
  PROVE  LastKid(f) \in FrameId
  <1>1. frames[f].kids \in Seq(FrameId) /\ frames[f].kids # <<>>
    BY DEF MachineOK, Frame, FrameOK
  <1> QED
    BY <1>1 DEF LastKid

(* A frame that runs has been started.                                     *)
LEMMA Running ==
  ASSUME MachineOK, NEW f \in FrameId,
         OnTop(f) \/ frames[f].pc # "idle"
  PROVE  f <= calls
  <1>1. CASE OnTop(f)
    <2>1. Head(stack) \in 1..calls
      BY <1>1 DEF OnTop, MachineOK
    <2> QED
      BY <1>1, <2>1 DEF OnTop, MachineOK
  <1>2. CASE frames[f].pc # "idle"
    BY <1>2 DEF MachineOK, FrameOK, FrameId
  <1> QED
    BY <1>1, <1>2

(* The frames an action may leave behind.                                  *)
LEMMA OkLegal ==
  ASSUME MachineOK, NEW f \in FrameId, NEW o \in Nat
  PROVE  Legal(f, Ok(f, o)) /\ Waits(Ok(f, o))
  BY DEF MachineOK, Legal, Waits, Ok, Frame, Pc, HoldingPc

LEMMA FailedLegal ==
  ASSUME MachineOK, NEW f \in FrameId, NEW e \in Reason
  PROVE  Legal(f, Failed(f, e)) /\ Waits(Failed(f, e))
  BY DEF MachineOK, Legal, Waits, Failed, Frame, Pc, HoldingPc

-----------------------------------------------------------------------------
(* Every step preserves IInv, action by action.                            *)

LEMMA ReasonFacts ==
  /\ {"none", "circular", "missing", "notInjectable", "thrown"} \subseteq Reason
  /\ {"resolve", "resolveClass", "constructClass"} \subseteq Fn
  BY DEF Reason, Fn

LEMMA SynchronousIInv ==
  ASSUME IInv, NEW f \in FrameId, Synchronous(f)
  PROVE  IInv'
  <1> USE WiringAssumption
  <1>0. MachineOK /\ StoreOK /\ RestOK
    BY Parts
  <1>1. frames[f] \in Frame /\ frames[f].token \in Token /\ frames[f].fn \in Fn
        /\ frames[f].provider \in Provider /\ frames[f].kids \in Seq(FrameId)
    BY <1>0 DEF MachineOK, Frame
  <1>2. OnTop(f) /\ stack # <<>> /\ f <= calls /\ Tail(stack) \in Seq(1..calls)
    <2>1. OnTop(f)
      BY DEF Synchronous, EnterCached, EnterCircular, EnterMissing, EnterUnregistered,
             ReleaseEarly, EnterValue, EnterClass, EnterFactory, InjectNext, InjectAll,
             ConstructRefused, ConstructLeaf, ConstructLeafThrows, ConstructBegin,
             Fresh, Uncached, Entering
    <2> QED
      BY <1>0, <2>1, Running DEF OnTop, MachineOK
  <1>3. ProviderOf(f) \in Provider
        /\ (ProviderOf(f).kind = "class" => ProviderOf(f).useClass \in ClassToken)
    BY <1>0, <1>1 DEF StoreOK, ProvidersOK, ProviderOf
  <1>4. ASSUME UNCHANGED rest PROVE RestOK'
    BY <1>0, <1>4 DEF rest, RestOK
  <1>5. ASSUME UNCHANGED store PROVE StoreOK'
    BY <1>0, <1>5 DEF store, StoreOK, ProvidersOK
  <1>6. ASSUME UNCHANGED <<providers, instances, edges, closeStack, tracked, heap>>,
               resolving' \subseteq Token
        PROVE  StoreOK'
    BY <1>0, <1>6 DEF StoreOK, ProvidersOK
  <1>EnterCached. CASE EnterCached(f)
    <2>1. instances[frames[f].token] \in Nat
      BY <1>0, <1>1 DEF StoreOK
    <2>2. MachineOK'
      BY <1>0, <1>2, <1>EnterCached, <2>1, OkLegal, ReturnOK DEF EnterCached
    <2> QED
      BY <2>2, <1>4, <1>5, <1>EnterCached, PartsNext DEF EnterCached
  <1>EnterCircular. CASE EnterCircular(f)
    <2>1. Legal(f, Failed(f, "circular")) /\ Waits(Failed(f, "circular"))
      BY <1>0, FailedLegal DEF Reason
    <2>2. MachineOK'
      BY <1>0, <1>2, <1>EnterCircular, <2>1, ReturnOK DEF EnterCircular
    <2> QED
      BY <2>2, <1>4, <1>5, <1>EnterCircular, PartsNext DEF EnterCircular
  <1>EnterMissing. CASE EnterMissing(f)
    <2>1. Legal(f, Failed(f, "missing")) /\ Waits(Failed(f, "missing"))
      BY <1>0, FailedLegal DEF Reason
    <2>2. MachineOK'
      BY <1>0, <1>2, <1>EnterMissing, <2>1, ReturnOK DEF EnterMissing
    <2> QED
      BY <2>2, <1>4, <1>5, <1>EnterMissing, PartsNext DEF EnterMissing
  <1>EnterUnregistered. CASE EnterUnregistered(f)
    <2> DEFINE fr == [frames[f] EXCEPT !.pc = "early"]
    <2>1. Legal(f, fr)
      BY <1>1 DEF Legal, Frame, Pc, HoldingPc
    <2>2. frames[f].token \in ClassToken
      BY <1>0, <1>EnterUnregistered DEF EnterUnregistered, MachineOK, FrameOK
    <2>3. Invoke(f, fr, "constructClass", frames[f].token, stack)
      BY <1>EnterUnregistered DEF EnterUnregistered
    <2>4. MachineOK'
      BY <1>0, <1>1, <1>2, <2>1, <2>2, <2>3, InvokeOK, ReasonFacts DEF MachineOK
    <2>5. resolving' \subseteq Token
      BY <1>0, <1>1, <1>EnterUnregistered DEF EnterUnregistered, Acquire, StoreOK
    <2> QED
      BY <2>4, <2>5, <1>4, <1>6, <1>EnterUnregistered, PartsNext DEF EnterUnregistered
  <1>ReleaseEarly. CASE ReleaseEarly(f)
    <2> DEFINE fr == [frames[f] EXCEPT !.pc = "adopt"]
    <2>1. Legal(f, fr) /\ Waits(fr)
      BY <1>0, <1>1, <1>ReleaseEarly
      DEF ReleaseEarly, Legal, Waits, Frame, Pc, HoldingPc, MachineOK, FrameOK
    <2>2. MachineOK'
      BY <1>0, <1>2, <1>ReleaseEarly, <2>1, ReturnOK DEF ReleaseEarly
    <2>3. resolving' \subseteq Token
      BY <1>0, <1>ReleaseEarly DEF ReleaseEarly, Release, StoreOK
    <2> QED
      BY <2>2, <2>3, <1>4, <1>6, <1>ReleaseEarly, PartsNext DEF ReleaseEarly
  <1>EnterValue. CASE EnterValue(f)
    <2> DEFINE fr == [frames[f] EXCEPT !.pc = "store", !.provider = ProviderOf(f)]
    <2>1. Legal(f, fr) /\ Waits(fr)
      BY <1>1, <1>3 DEF Legal, Waits, Frame, Pc, HoldingPc
    <2>2. MachineOK'
      BY <1>0, <1>2, <1>EnterValue, <2>1, ReturnOK DEF EnterValue
    <2>3. resolving' \subseteq Token
      BY <1>0, <1>1, <1>EnterValue DEF EnterValue, Acquire, StoreOK
    <2> QED
      BY <2>2, <2>3, <1>4, <1>6, <1>EnterValue, PartsNext DEF EnterValue
  <1>EnterClass. CASE EnterClass(f)
    <2> DEFINE fr == [frames[f] EXCEPT !.pc = "class", !.provider = ProviderOf(f)]
    <2>1. Legal(f, fr)
      BY <1>1, <1>3 DEF Legal, Frame, Pc, HoldingPc
    <2>2. ProviderOf(f).useClass \in ClassToken
      BY <1>3, <1>EnterClass DEF EnterClass
    <2>3. Invoke(f, fr, "constructClass", ProviderOf(f).useClass, Tail(stack))
      BY <1>EnterClass DEF EnterClass
    <2>4. MachineOK'
      BY <1>0, <1>2, <2>1, <2>2, <2>3, InvokeOK, ReasonFacts
    <2>5. resolving' \subseteq Token
      BY <1>0, <1>1, <1>EnterClass DEF EnterClass, Acquire, StoreOK
    <2> QED
      BY <2>4, <2>5, <1>4, <1>6, <1>EnterClass, PartsNext DEF EnterClass
  <1>EnterFactory. CASE EnterFactory(f)
    <2> DEFINE fr(pc) == [frames[f] EXCEPT !.pc = pc, !.provider = ProviderOf(f)]
    <2>1. \A pc \in {"producing", "inject"} : Legal(f, fr(pc)) /\ Waits(fr(pc))
      BY <1>1, <1>3 DEF Legal, Waits, Frame, Pc, HoldingPc
    <2>2. MachineOK'
      BY <1>0, <1>2, <1>EnterFactory, <2>1, ReturnOK, ContinueOK DEF EnterFactory
    <2>3. resolving' \subseteq Token
      BY <1>0, <1>1, <1>EnterFactory DEF EnterFactory, Acquire, StoreOK
    <2>4. edges' \in [Token -> SUBSET Token]
      <3>1. ProviderOf(f).inject \in Seq(Token)
        BY <1>3 DEF Provider
      <3> QED
        BY <1>0, <1>1, <1>EnterFactory, <3>1, EdgesOK DEF EnterFactory, StoreOK
    <2>5. StoreOK'
      BY <1>0, <2>3, <2>4, <1>EnterFactory DEF EnterFactory, StoreOK, ProvidersOK
    <2> QED
      BY <2>2, <2>5, <1>4, <1>EnterFactory, PartsNext DEF EnterFactory
  <1>InjectNext. CASE InjectNext(f)
    <2> DEFINE t == frames[f].provider.inject[Len(frames[f].kids) + 1]
    <2>1. Legal(f, frames[f])
      BY <1>1, <1>InjectNext DEF InjectNext, Legal
    <2>2. t \in Token
      <3>1. frames[f].provider.inject \in Seq(Token)
        BY <1>1 DEF Provider
      <3> QED
        BY <1>1, <3>1, <1>InjectNext DEF InjectNext
    <2>3. Invoke(f, frames[f], "resolve", t, stack)
      BY <1>InjectNext DEF InjectNext
    <2>4. MachineOK'
      BY <1>0, <1>2, <2>1, <2>2, <2>3, InvokeOK, ReasonFacts DEF MachineOK
    <2> QED
      BY <2>4, <1>4, <1>5, <1>InjectNext, PartsNext DEF InjectNext
  <1>InjectAll. CASE InjectAll(f)
    <2> DEFINE fr == [frames[f] EXCEPT !.pc = "awaitAll"]
    <2>1. Legal(f, fr) /\ Waits(fr)
      BY <1>1 DEF Legal, Waits, Frame, Pc, HoldingPc
    <2>2. MachineOK'
      BY <1>0, <1>2, <1>InjectAll, <2>1, ReturnOK DEF InjectAll
    <2> QED
      BY <2>2, <1>4, <1>5, <1>InjectAll, PartsNext DEF InjectAll
  <1>ConstructRefused. CASE ConstructRefused(f)
    <2>1. Legal(f, Failed(f, "notInjectable")) /\ Waits(Failed(f, "notInjectable"))
      BY <1>0, FailedLegal DEF Reason
    <2>2. MachineOK'
      BY <1>0, <1>2, <1>ConstructRefused, <2>1, ReturnOK DEF ConstructRefused
    <2> QED
      BY <2>2, <1>4, <1>5, <1>ConstructRefused, PartsNext DEF ConstructRefused
  <1>ConstructLeaf. CASE ConstructLeaf(f)
    <2>1. Given(f) \in SUBSET Nat
      BY <1>0, GivenOK
    <2>2. heap' \in Seq([src: Token, uses: SUBSET Nat]) /\ NextObject \in Nat
      BY <1>0, <1>1, <2>1, <1>ConstructLeaf, NewObjectOK DEF ConstructLeaf, Instantiate, StoreOK
    <2>3. MachineOK'
      BY <1>0, <1>2, <1>ConstructLeaf, <2>2, OkLegal, ReturnOK DEF ConstructLeaf
    <2>4. closeStack' \in Seq(Entry) /\ tracked' \subseteq Token
      BY <1>0, <1>1, <2>2, <1>ConstructLeaf, TrackOK DEF ConstructLeaf, Instantiate, StoreOK
    <2>5. StoreOK'
      BY <1>0, <2>2, <2>4, <1>ConstructLeaf DEF ConstructLeaf, Instantiate, StoreOK, ProvidersOK
    <2> QED
      BY <2>3, <2>5, <1>4, <1>ConstructLeaf, PartsNext DEF ConstructLeaf
  <1>ConstructLeafThrows. CASE ConstructLeafThrows(f)
    <2>1. Legal(f, Failed(f, "thrown")) /\ Waits(Failed(f, "thrown"))
      BY <1>0, FailedLegal DEF Reason
    <2>2. MachineOK'
      BY <1>0, <1>2, <1>ConstructLeafThrows, <2>1, ReturnOK DEF ConstructLeafThrows
    <2> QED
      BY <2>2, <1>4, <1>5, <1>ConstructLeafThrows, PartsNext DEF ConstructLeafThrows
  <1>ConstructBegin. CASE ConstructBegin(f)
    <2> DEFINE fr == [frames[f] EXCEPT !.pc = "deps"]
    <2>2. frames[f].token \in ClassToken
      BY <1>0, <1>ConstructBegin DEF ConstructBegin, Uncached, Entering, MachineOK, FrameOK
    <2>1. Legal(f, fr)
      BY <1>1, <2>2 DEF Legal, Frame, Pc, HoldingPc
    <2>3. DepsOf(f) \in Seq(Token) /\ DepsOf(f) # <<>>
      BY <2>2, <1>ConstructBegin DEF ConstructBegin, DepsOf
    <2>4. MachineOK'
      <3>1. DepsOf(f)[1] \in Token
        BY <2>3
      <3>2. Invoke(f, fr, "resolve", DepsOf(f)[1], Tail(stack))
        BY <1>ConstructBegin DEF ConstructBegin
      <3> QED
        BY <1>0, <1>2, <2>1, <3>1, <3>2, InvokeOK, ReasonFacts
    <2>5. edges' \in [Token -> SUBSET Token]
      BY <1>0, <1>1, <2>3, <1>ConstructBegin, EdgesOK DEF ConstructBegin, StoreOK
    <2>6. StoreOK'
      BY <1>0, <2>5, <1>ConstructBegin DEF ConstructBegin, StoreOK, ProvidersOK
    <2> QED
      BY <2>4, <2>6, <1>4, <1>ConstructBegin, PartsNext DEF ConstructBegin
  <1> QED
    BY <1>EnterCached, <1>EnterCircular, <1>EnterMissing, <1>EnterUnregistered,
       <1>ReleaseEarly, <1>EnterValue, <1>EnterClass, <1>EnterFactory, <1>InjectNext,
       <1>InjectAll, <1>ConstructRefused, <1>ConstructLeaf, <1>ConstructLeafThrows,
       <1>ConstructBegin DEF Synchronous

LEMMA ContinuationIInv ==
  ASSUME IInv, NEW f \in FrameId, Continuation(f)
  PROVE  IInv'
  <1> USE WiringAssumption
  <1>0. MachineOK /\ StoreOK /\ RestOK
    BY Parts
  <1>1. frames[f] \in Frame /\ frames[f].token \in Token /\ frames[f].fn \in Fn
        /\ frames[f].provider \in Provider /\ frames[f].kids \in Seq(FrameId)
        /\ frames[f].provider.value \in Nat /\ frames[f].provider.onClose \in BOOLEAN
    BY <1>0 DEF MachineOK, Frame, Provider
  <1>2. frames[f].pc # "idle" /\ f <= calls
    <2>1. frames[f].pc # "idle"
      BY DEF Continuation, Adopt, StoreValue, StoreClass, Produce, Reject, FactoryReturns,
             FactoryThrows, ConstructNext, ConstructFinish, ConstructThrows,
             ConstructReject, DepReady, Resumed
    <2> QED
      BY <1>0, <2>1, Running
  <1>3. ASSUME UNCHANGED rest PROVE RestOK'
    BY <1>0, <1>3 DEF rest, RestOK
  <1>4. ASSUME UNCHANGED store PROVE StoreOK'
    BY <1>0, <1>4 DEF store, StoreOK, ProvidersOK
  <1>5. ASSUME UNCHANGED <<providers, instances, edges, closeStack, tracked, heap>>,
               Release(f)
        PROVE  StoreOK'
    BY <1>0, <1>5 DEF StoreOK, ProvidersOK, Release
  <1>6. ASSUME NEW k \in FrameId
        PROVE  /\ frames[k].pc \in Pc /\ frames[k].val \in Nat /\ frames[k].err \in Reason
    BY <1>0 DEF MachineOK, Frame
  <1>7. NextObject \in Nat /\ Given(f) \in SUBSET Nat
    BY <1>0, GivenOK DEF NextObject, StoreOK
  <1>Adopt. CASE Adopt(f)
    <2> DEFINE k == LastKid(f)
               fr == [frames[f] EXCEPT !.pc = frames[k].pc, !.val = frames[k].val,
                                       !.err = frames[k].err]
    <2>1. k \in FrameId /\ frames[k].pc \in {"ok", "failed"}
      BY <1>0, <1>Adopt, KidOK DEF Adopt, Resumed, Settled
    <2>2. Legal(f, fr) /\ Waits(fr)
      BY <1>1, <2>1, <1>6 DEF Legal, Waits, Frame
    <2>3. MachineOK'
      BY <1>0, <1>2, <1>Adopt, <2>2, ContinueOK DEF Adopt
    <2> QED
      BY <2>3, <1>3, <1>4, <1>Adopt, PartsNext DEF Adopt
  <1>StoreValue. CASE StoreValue(f)
    <2>1. MachineOK'
      BY <1>0, <1>1, <1>2, <1>StoreValue, OkLegal, ContinueOK DEF StoreValue
    <2>2. StoreOK'
      BY <1>0, <1>1, <1>StoreValue DEF StoreValue, StoreOK, ProvidersOK, Release
    <2> QED
      BY <2>1, <2>2, <1>3, <1>StoreValue, PartsNext DEF StoreValue
  <1>StoreClass. CASE StoreClass(f)
    <2> DEFINE o == frames[LastKid(f)].val
    <2>1. o \in Nat
      BY <1>0, <1>6, <1>StoreClass, KidOK DEF StoreClass, Resumed
    <2>2. MachineOK'
      BY <1>0, <1>2, <1>StoreClass, <2>1, OkLegal, ContinueOK DEF StoreClass
    <2>3. closeStack' \in Seq(Entry) /\ tracked' \subseteq Token
      BY <1>0, <1>1, <2>1, <1>StoreClass, TrackOK DEF StoreClass, StoreOK
    <2>4. StoreOK'
      BY <1>0, <1>1, <2>1, <2>3, <1>StoreClass DEF StoreClass, StoreOK, ProvidersOK, Release
    <2> QED
      BY <2>2, <2>4, <1>3, <1>StoreClass, PartsNext DEF StoreClass
  <1>Produce. CASE Produce(f)
    <2> DEFINE fr == [frames[f] EXCEPT !.pc = "producing"]
    <2>1. Legal(f, fr) /\ Waits(fr)
      BY <1>1 DEF Legal, Waits, Frame, Pc, HoldingPc
    <2>2. MachineOK'
      BY <1>0, <1>2, <1>Produce, <2>1, ContinueOK DEF Produce
    <2> QED
      BY <2>2, <1>3, <1>4, <1>Produce, PartsNext DEF Produce
  <1>Reject. CASE Reject(f)
    <2>1. PICK i \in DOMAIN frames[f].kids :
             Continue(f, Failed(f, frames[frames[f].kids[i]].err))
      BY <1>Reject DEF Reject
    <2>2. frames[f].kids[i] \in FrameId
      BY <1>1
    <2>3. frames[frames[f].kids[i]].err \in Reason
      BY <2>2, <1>6
    <2>4. MachineOK'
      BY <1>0, <1>2, <2>1, <2>3, FailedLegal, ContinueOK
    <2> QED
      BY <2>4, <1>3, <1>5, <1>Reject, PartsNext DEF Reject
  <1>FactoryReturns. CASE FactoryReturns(f)
    <2>1. MachineOK'
      BY <1>0, <1>2, <1>7, <1>FactoryReturns, OkLegal, ContinueOK DEF FactoryReturns
    <2>2. heap' \in Seq([src: Token, uses: SUBSET Nat])
      BY <1>0, <1>1, <1>7, <1>FactoryReturns, NewObjectOK DEF FactoryReturns, StoreOK
    <2>3. closeStack' \in Seq(Entry) /\ tracked' \subseteq Token
      BY <1>0, <1>1, <1>7, <1>FactoryReturns, TrackOK DEF FactoryReturns, StoreOK
    <2>4. StoreOK'
      BY <1>0, <1>1, <1>7, <2>2, <2>3, <1>FactoryReturns
      DEF FactoryReturns, StoreOK, ProvidersOK, Release
    <2> QED
      BY <2>1, <2>4, <1>3, <1>FactoryReturns, PartsNext DEF FactoryReturns
  <1>FactoryThrows. CASE FactoryThrows(f)
    <2>1. MachineOK'
      BY <1>0, <1>2, <1>FactoryThrows, FailedLegal, ContinueOK, ReasonFacts DEF FactoryThrows
    <2> QED
      BY <2>1, <1>3, <1>5, <1>FactoryThrows, PartsNext DEF FactoryThrows
  <1>ConstructNext. CASE ConstructNext(f)
    <2> DEFINE t == DepsOf(f)[Len(frames[f].kids) + 1]
    <2>0. frames[f].token \in ClassToken
      BY <1>0, <1>ConstructNext DEF ConstructNext, DepReady, Resumed, MachineOK, FrameOK
    <2>1. Legal(f, frames[f])
      BY <1>1, <1>2, <2>0 DEF Legal
    <2>2. DepsOf(f) \in Seq(Token)
      BY <2>0 DEF DepsOf
    <2>3. t \in Token
      BY <1>1, <2>2, <1>ConstructNext DEF ConstructNext
    <2>4. Invoke(f, frames[f], "resolve", t, <<>>)
      BY <1>ConstructNext DEF ConstructNext
    <2>5. <<>> \in Seq(1..calls)
      OBVIOUS
    <2>6. MachineOK'
      BY <1>0, <1>2, <2>1, <2>3, <2>4, <2>5, InvokeOK, ReasonFacts
    <2> QED
      BY <2>6, <1>3, <1>4, <1>ConstructNext, PartsNext DEF ConstructNext
  <1>ConstructFinish. CASE ConstructFinish(f)
    <2>1. MachineOK'
      BY <1>0, <1>2, <1>7, <1>ConstructFinish, OkLegal, ContinueOK DEF ConstructFinish
    <2>2. heap' \in Seq([src: Token, uses: SUBSET Nat])
      BY <1>0, <1>1, <1>7, <1>ConstructFinish, NewObjectOK
      DEF ConstructFinish, Instantiate, StoreOK
    <2>3. closeStack' \in Seq(Entry) /\ tracked' \subseteq Token
      BY <1>0, <1>1, <1>7, <1>ConstructFinish, TrackOK
      DEF ConstructFinish, Instantiate, StoreOK
    <2>4. StoreOK'
      BY <1>0, <1>1, <1>7, <2>2, <2>3, <1>ConstructFinish
      DEF ConstructFinish, Instantiate, StoreOK, ProvidersOK
    <2> QED
      BY <2>1, <2>4, <1>3, <1>ConstructFinish, PartsNext DEF ConstructFinish
  <1>ConstructThrows. CASE ConstructThrows(f)
    <2>1. MachineOK'
      BY <1>0, <1>2, <1>ConstructThrows, FailedLegal, ContinueOK, ReasonFacts
      DEF ConstructThrows
    <2> QED
      BY <2>1, <1>3, <1>4, <1>ConstructThrows, PartsNext DEF ConstructThrows
  <1>ConstructReject. CASE ConstructReject(f)
    <2>1. LastKid(f) \in FrameId
      BY <1>0, <1>ConstructReject, KidOK DEF ConstructReject, Resumed
    <2>2. MachineOK'
      BY <1>0, <1>2, <1>6, <2>1, <1>ConstructReject, FailedLegal, ContinueOK
      DEF ConstructReject
    <2> QED
      BY <2>2, <1>3, <1>4, <1>ConstructReject, PartsNext DEF ConstructReject
  <1> QED
    BY <1>Adopt, <1>StoreValue, <1>StoreClass, <1>Produce, <1>Reject, <1>FactoryReturns,
       <1>FactoryThrows, <1>ConstructNext, <1>ConstructFinish, <1>ConstructThrows,
       <1>ConstructReject DEF Continuation

LEMMA EnvironmentIInv ==
  ASSUME IInv, CloseOne \/ CloseDone \/ Environment
  PROVE  IInv'
  <1> USE WiringAssumption
  <1>0. MachineOK /\ StoreOK /\ RestOK
    BY Parts
  <1>1. ASSUME UNCHANGED <<frames, calls, stack>> PROVE MachineOK'
    BY <1>0, <1>1 DEF MachineOK, FrameOK
  <1>2. ASSUME UNCHANGED store PROVE StoreOK'
    BY <1>0, <1>2 DEF store, StoreOK, ProvidersOK
  <1>3. NextObject \in Nat
    BY <1>0 DEF NextObject, StoreOK
  <1>Call. ASSUME NEW fn \in Fn, NEW t \in Token, Call(fn, t),
                  fn # "resolve" => t \in ClassToken
           PROVE  IInv'
    <2> DEFINE n == calls + 1
    <2>1. n \in FrameId /\ calls' = n /\ calls' \in 0..MaxFrames
      BY <1>0, <1>Call DEF MachineOK, Call, FrameId
    <2>2. NewFrame(fn, t, None) \in Frame
      BY NewFrameType
    <2>3. frames' = [frames EXCEPT ![n] = NewFrame(fn, t, None)]
      BY <1>Call DEF Call
    <2>4. frames' \in [FrameId -> Frame]
      BY <1>0, <2>2, <2>3 DEF MachineOK
    <2>5. stack' \in Seq(1..calls')
      <3>1. <<n>> \in Seq(1..n)
        BY <2>1 DEF FrameId
      <3> QED
        BY <3>1, <2>1, <1>Call DEF Call
    <2>6. ASSUME NEW g \in FrameId PROVE FrameOK(g)'
      <3>1. CASE g = n
        <4>1. frames'[n] = NewFrame(fn, t, None)
          BY <1>0, <2>1, <2>3 DEF MachineOK
        <4> QED
          BY <3>1, <4>1, <2>1, <1>Call DEF NewFrame, FrameOK, FrameId, Fn
      <3>2. CASE g # n
        <4>1. frames'[g] = frames[g]
          BY <1>0, <3>2, <2>3 DEF MachineOK
        <4> QED
          BY <1>0, <3>2, <4>1, <2>1 DEF MachineOK, FrameOK, FrameId
      <3> QED
        BY <3>1, <3>2
    <2>7. MachineOK'
      BY <2>1, <2>4, <2>5, <2>6 DEF MachineOK
    <2>8. StoreOK' /\ RestOK'
      BY <1>0, <1>2, <1>Call DEF Call, rest, RestOK
    <2> QED
      BY <2>7, <2>8, PartsNext
  <1>Register. ASSUME NEW r \in Late, Register(r[1], r[2])
               PROVE  IInv'
    <2> DEFINE t == r[1]
               p == r[2]
    <2>1. /\ t \in Token
          /\ p \in [kind: {"class", "factory", "value"}, useClass: ClassToken \cup {"none"},
                    inject: Seq(Token), onClose: BOOLEAN, value: {0}]
          /\ p.kind = "class" => p.useClass \in ClassToken
      OBVIOUS
    <2>2. p \in Provider
      BY <2>1 DEF Provider, Kind
    <2>2a. [p EXCEPT !.value = NextObject] \in Provider
      BY <1>3, <2>2 DEF Provider
    <2>3. providers' \in [Token -> Provider] /\ ProvidersOK'
      <3>1. CASE p.kind = "value"
        <4>1. providers' = [providers EXCEPT ![t] = [p EXCEPT !.value = NextObject]]
          BY <3>1, <1>Register DEF Register
        <4> QED
          BY <1>0, <3>1, <4>1, <2>1, <2>2, <2>2a DEF StoreOK, ProvidersOK
      <3>2. CASE p.kind # "value"
        <4>1. providers' = [providers EXCEPT ![t] = p]
          BY <3>2, <1>Register DEF Register
        <4> QED
          BY <1>0, <3>2, <4>1, <2>1, <2>2 DEF StoreOK, ProvidersOK
      <3> QED
        BY <3>1, <3>2
    <2>4. heap' \in Seq([src: Token, uses: SUBSET Nat])
      <3>1. heap' = heap \/ NewObject(t, {})
        BY <1>Register DEF Register
      <3>2. heap \in Seq([src: Token, uses: SUBSET Nat]) /\ {} \in SUBSET Nat
        BY <1>0 DEF StoreOK
      <3> QED
        BY <2>1, <3>1, <3>2, NewObjectOK
    <2>5. closeStack' \in Seq(Entry) /\ tracked' \subseteq Token
      <3>1. p.onClose \in BOOLEAN
        BY <2>1
      <3> QED
        BY <1>0, <1>3, <2>1, <3>1, <1>Register, TrackOK DEF Register, StoreOK
    <2>6. StoreOK' /\ RestOK'
      BY SMTT(30), <1>0, <2>3, <2>4, <2>5, <1>Register DEF Register, StoreOK, RestOK
    <2> QED
      BY <2>6, <1>1, <1>Register, PartsNext DEF Register
  <1>RegisterValue. ASSUME NEW t \in LateValue, RegisterValue(t)
                    PROVE  IInv'
    <2>1. t \in Token
      OBVIOUS
    <2>2. heap' \in Seq([src: Token, uses: SUBSET Nat])
      BY <1>0, <2>1, <1>RegisterValue, NewObjectOK DEF RegisterValue, StoreOK
    <2>3. closeStack' \in Seq(Entry) /\ tracked' \subseteq Token
      BY <1>0, <1>3, <2>1, <1>RegisterValue, TrackOK DEF RegisterValue, StoreOK
    <2>4. StoreOK' /\ RestOK'
      BY <1>0, <1>3, <2>1, <2>2, <2>3, <1>RegisterValue
      DEF RegisterValue, StoreOK, ProvidersOK, RestOK
    <2> QED
      BY <2>4, <1>1, <1>RegisterValue, PartsNext DEF RegisterValue
  <1>CloseAll. CASE CloseAll
    <2>1. closing'.left \in Seq(Entry)
      <3>1. /\ Len(closeStack) \in Nat
            /\ \A i \in 1..Len(closeStack) :
                 closeStack[Len(closeStack) + 1 - i] \in Entry
        BY <1>0 DEF StoreOK
      <3> QED
        BY <3>1, <1>CloseAll DEF CloseAll
    <2>2. RestOK'
      BY <1>0, <2>1, <1>CloseAll DEF CloseAll, RestOK
    <2> QED
      BY <2>2, <1>1, <1>2, <1>CloseAll, PartsNext DEF CloseAll
  <1>CloseOne. CASE CloseOne
    <2>1. RestOK'
      <3>1. closing.left \in Seq(Entry) /\ closing.left # <<>>
        BY <1>0, <1>CloseOne DEF CloseOne, RestOK
      <3>2. Tail(closing.left) \in Seq(Entry)
        BY <3>1
      <3> QED
        BY <1>0, <3>2, <1>CloseOne DEF CloseOne, RestOK
    <2> QED
      BY <2>1, <1>1, <1>2, <1>CloseOne, PartsNext DEF CloseOne
  <1>CloseDone. CASE CloseDone
    <2>1. RestOK' /\ StoreOK'
      BY <1>0, <1>CloseDone DEF CloseDone, RestOK, StoreOK, ProvidersOK
    <2> QED
      BY <2>1, <1>1, <1>CloseDone, PartsNext DEF CloseDone
  <1> QED
    BY <1>Call, <1>Register, <1>RegisterValue, <1>CloseAll, <1>CloseOne, <1>CloseDone
    DEF Environment, Fn

THEOREM IInvStep == IInv /\ [Next]_vars => IInv'
  <1> SUFFICES ASSUME IInv, [Next]_vars PROVE IInv'
    OBVIOUS
  <1>1. CASE System
    BY <1>1, SynchronousIInv, ContinuationIInv, EnvironmentIInv DEF System
  <1>2. CASE Environment
    BY <1>2, EnvironmentIInv
  <1>3. CASE UNCHANGED vars
    BY <1>3 DEF vars, IInv, TypeOK, FrameOK, ProvidersOK
  <1> QED
    BY <1>1, <1>2, <1>3 DEF Next

(* Every reachable state has the shape TypeOK gives it.                    *)
THEOREM TypeCorrect == Spec => []TypeOK
  <1>1. IInv => TypeOK
    BY DEF IInv
  <1> QED
    BY InitIInv, IInvStep, <1>1, PTL DEF Spec

-----------------------------------------------------------------------------
(* `resolving` is exact.                                                   *)

(* A step moves frame f to pc and lets no other frame take or drop a token.*)
Effect(f, pc) ==
  /\ frames'[f].pc = pc
  /\ frames'[f].token = frames[f].token
  /\ \A g \in FrameId \ {f} :
       /\ frames'[g].pc \in HoldingPc <=> frames[g].pc \in HoldingPc
       /\ frames[g].pc \in HoldingPc => frames'[g].token = frames[g].token

LEMMA SetEffect ==
  ASSUME MachineOK, NEW f \in FrameId, NEW fr, fr.token = frames[f].token,
         frames' = [frames EXCEPT ![f] = fr]
  PROVE  Effect(f, fr.pc)
  BY DEF Effect, MachineOK

LEMMA InvokeEffect ==
  ASSUME MachineOK, NEW f \in FrameId, f <= calls, NEW fr \in Frame,
         fr.token = frames[f].token, NEW fn, NEW t, NEW below,
         Invoke(f, fr, fn, t, below)
  PROVE  Effect(f, fr.pc)
  <1> DEFINE n == calls + 1
             fk == [fr EXCEPT !.kids = Append(@, n)]
  <1>1. n \in FrameId /\ n # f /\ frames[n].pc = "idle"
    BY WiringAssumption DEF MachineOK, Invoke, FrameId, FrameOK
  <1>2. frames' = [frames EXCEPT ![f] = fk, ![n] = NewFrame(fn, t, f)]
    BY DEF Invoke
  <1>3. fk.pc = fr.pc /\ fk.token = fr.token
    BY DEF Frame
  <1>4. frames'[f] = fk /\ frames'[n] = NewFrame(fn, t, f)
    BY <1>1, <1>2 DEF MachineOK
  <1>5. frames'[n].pc \notin HoldingPc /\ frames[n].pc \notin HoldingPc
    BY <1>1, <1>4 DEF NewFrame, HoldingPc
  <1>6. \A g \in FrameId \ {f, n} : frames'[g] = frames[g]
    BY <1>1, <1>2 DEF MachineOK
  <1> QED
    BY <1>3, <1>4, <1>5, <1>6 DEF Effect

LEMMA Quiet ==
  ASSUME LockDiscipline, NEW f \in FrameId, NEW pc, Effect(f, pc),
         pc \in HoldingPc <=> Holding(f), UNCHANGED resolving
  PROVE  LockDiscipline'
  BY DEF LockDiscipline, Effect, Holding

LEMMA Takes ==
  ASSUME LockDiscipline, NEW f \in FrameId, NEW pc \in HoldingPc, Effect(f, pc),
         ~Holding(f), frames[f].token \notin resolving, Acquire(f)
  PROVE  LockDiscipline'
  <1>1. \A g \in FrameId : Holding(g)' <=> Holding(g) \/ g = f
    BY DEF Effect, Holding
  <1>2. \A g \in FrameId : Holding(g)' => frames'[g].token = frames[g].token
    BY DEF Effect, Holding
  <1>3. \A g \in FrameId : Holding(g) => frames[g].token # frames[f].token
    BY DEF LockDiscipline
  <1>4. resolving' = {frames'[g].token : g \in {h \in FrameId : Holding(h)'}}
    BY <1>1, <1>2 DEF LockDiscipline, Acquire
  <1> QED
    BY <1>1, <1>2, <1>3, <1>4 DEF LockDiscipline

LEMMA Drops ==
  ASSUME LockDiscipline, NEW f \in FrameId, NEW pc, pc \notin HoldingPc, Effect(f, pc),
         Holding(f), Release(f)
  PROVE  LockDiscipline'
  <1>1. \A g \in FrameId : Holding(g)' <=> Holding(g) /\ g # f
    BY DEF Effect, Holding
  <1>2. \A g \in FrameId : Holding(g)' => frames'[g].token = frames[g].token
    BY DEF Effect, Holding
  <1>3. \A g \in FrameId : Holding(g) /\ g # f => frames[g].token # frames[f].token
    BY DEF LockDiscipline
  <1>4. resolving' = {frames'[g].token : g \in {h \in FrameId : Holding(h)'}}
    BY <1>1, <1>2, <1>3 DEF LockDiscipline, Release
  <1> QED
    BY <1>1, <1>2, <1>4 DEF LockDiscipline

(* The frames an action may leave behind, as far as Effect is concerned.   *)
LEMMA EndFacts ==
  ASSUME MachineOK, NEW f \in FrameId, NEW o, NEW e
  PROVE  /\ Ok(f, o).pc = "ok" /\ Ok(f, o).token = frames[f].token
         /\ Failed(f, e).pc = "failed" /\ Failed(f, e).token = frames[f].token
  BY DEF MachineOK, Frame, Ok, Failed

LEMMA MovedFacts ==
  ASSUME MachineOK, NEW f \in FrameId, NEW pc \in Pc
  PROVE  LET fr == [frames[f] EXCEPT !.pc = pc] IN
         fr \in Frame /\ fr.pc = pc /\ fr.token = frames[f].token
  BY DEF MachineOK, Frame

LEMMA SynchronousLock ==
  ASSUME IInv, LockDiscipline, NEW f \in FrameId, Synchronous(f)
  PROVE  LockDiscipline'
  <1>0. MachineOK /\ StoreOK
    BY Parts
  <1>1. frames[f] \in Frame /\ ProviderOf(f) \in Provider
    BY <1>0 DEF MachineOK, Frame, StoreOK, ProviderOf
  <1>2. ASSUME OnTop(f) PROVE f <= calls
    BY <1>0, <1>2, Running
  <1>EnterCached. CASE EnterCached(f)
    <2>1. Effect(f, "ok")
      BY <1>0, <1>EnterCached, EndFacts, SetEffect DEF EnterCached, Return
    <2>2. ~Holding(f) /\ "ok" \notin HoldingPc /\ UNCHANGED resolving
      BY <1>EnterCached DEF EnterCached, Entering, Holding, HoldingPc, store
    <2> QED
      BY <2>1, <2>2, Quiet
  <1>EnterCircular. CASE EnterCircular(f)
    <2>1. Effect(f, "failed")
      BY <1>0, <1>EnterCircular, EndFacts, SetEffect DEF EnterCircular, Return
    <2>2. ~Holding(f) /\ "failed" \notin HoldingPc /\ UNCHANGED resolving
      BY <1>EnterCircular DEF EnterCircular, Uncached, Entering, Holding, HoldingPc, store
    <2> QED
      BY <2>1, <2>2, Quiet
  <1>EnterMissing. CASE EnterMissing(f)
    <2>1. Effect(f, "failed")
      BY <1>0, <1>EnterMissing, EndFacts, SetEffect DEF EnterMissing, Return
    <2>2. ~Holding(f) /\ "failed" \notin HoldingPc /\ UNCHANGED resolving
      BY <1>EnterMissing DEF EnterMissing, Fresh, Uncached, Entering, Holding, HoldingPc, store
    <2> QED
      BY <2>1, <2>2, Quiet
  <1>EnterUnregistered. CASE EnterUnregistered(f)
    <2>1. Effect(f, "early")
      <3> DEFINE fr == [frames[f] EXCEPT !.pc = "early"]
      <3>1. fr \in Frame /\ fr.pc = "early" /\ fr.token = frames[f].token
        BY <1>0, MovedFacts DEF Pc, HoldingPc
      <3>2. Invoke(f, fr, "constructClass", frames[f].token, stack) /\ f <= calls
        BY <1>2, <1>EnterUnregistered DEF EnterUnregistered, Fresh, Uncached, Entering
      <3> QED
        BY <1>0, <3>1, <3>2, InvokeEffect
    <2>2. ~Holding(f) /\ frames[f].token \notin resolving /\ Acquire(f)
      BY <1>EnterUnregistered DEF EnterUnregistered, Fresh, Uncached, Entering, Holding, HoldingPc
    <2> QED
      BY <2>1, <2>2, Takes DEF HoldingPc
  <1>ReleaseEarly. CASE ReleaseEarly(f)
    <2>1. Effect(f, "adopt")
      BY <1>0, <1>ReleaseEarly, MovedFacts, SetEffect DEF ReleaseEarly, Return, Pc
    <2>2. Holding(f) /\ "adopt" \notin HoldingPc /\ Release(f)
      BY <1>ReleaseEarly DEF ReleaseEarly, Holding, HoldingPc
    <2> QED
      BY <2>1, <2>2, Drops
  <1>EnterValue. CASE EnterValue(f)
    <2>1. Effect(f, "store")
      <3> DEFINE fr == [frames[f] EXCEPT !.pc = "store", !.provider = ProviderOf(f)]
      <3>1. fr.pc = "store" /\ fr.token = frames[f].token
        BY <1>1 DEF Frame
      <3>2. frames' = [frames EXCEPT ![f] = fr]
        BY <1>EnterValue DEF EnterValue, Return
      <3> QED
        BY <1>0, <3>1, <3>2, SetEffect
    <2>2. ~Holding(f) /\ frames[f].token \notin resolving /\ Acquire(f)
      BY <1>EnterValue DEF EnterValue, Fresh, Uncached, Entering, Holding, HoldingPc
    <2> QED
      BY <2>1, <2>2, Takes DEF HoldingPc
  <1>EnterClass. CASE EnterClass(f)
    <2>1. Effect(f, "class")
      <3> DEFINE fr == [frames[f] EXCEPT !.pc = "class", !.provider = ProviderOf(f)]
      <3>1. fr \in Frame /\ fr.pc = "class" /\ fr.token = frames[f].token
        BY <1>1 DEF Frame, Pc, HoldingPc
      <3>2. Invoke(f, fr, "constructClass", ProviderOf(f).useClass, Tail(stack)) /\ f <= calls
        BY <1>2, <1>EnterClass DEF EnterClass, Fresh, Uncached, Entering
      <3> QED
        BY <1>0, <3>1, <3>2, InvokeEffect
    <2>2. ~Holding(f) /\ frames[f].token \notin resolving /\ Acquire(f)
      BY <1>EnterClass DEF EnterClass, Fresh, Uncached, Entering, Holding, HoldingPc
    <2> QED
      BY <2>1, <2>2, Takes DEF HoldingPc
  <1>EnterFactory. CASE EnterFactory(f)
    <2>1. PICK pc \in {"producing", "inject"} : Effect(f, pc)
      <3> DEFINE fr(pc) == [frames[f] EXCEPT !.pc = pc, !.provider = ProviderOf(f)]
      <3>1. \A pc : fr(pc).pc = pc /\ fr(pc).token = frames[f].token
        BY <1>1 DEF Frame
      <3>2. PICK pc \in {"producing", "inject"} : frames' = [frames EXCEPT ![f] = fr(pc)]
        BY <1>EnterFactory DEF EnterFactory, Return, Continue
      <3>3. Effect(f, fr(pc).pc)
        BY <1>0, <3>1, <3>2, SetEffect
      <3> QED
        BY <3>1, <3>3
    <2>2. ~Holding(f) /\ frames[f].token \notin resolving /\ Acquire(f)
      BY <1>EnterFactory DEF EnterFactory, Fresh, Uncached, Entering, Holding, HoldingPc
    <2> QED
      BY <2>1, <2>2, Takes DEF HoldingPc
  <1>InjectNext. CASE InjectNext(f)
    <2>1. PICK t : Invoke(f, frames[f], "resolve", t, stack)
      BY <1>InjectNext DEF InjectNext
    <2>2. Effect(f, frames[f].pc)
      BY <1>0, <1>1, <1>2, <2>1, <1>InjectNext, InvokeEffect DEF InjectNext
    <2> QED
      BY <2>2, <1>InjectNext, Quiet DEF InjectNext, Holding, store
  <1>InjectAll. CASE InjectAll(f)
    <2>1. Effect(f, "awaitAll")
      BY <1>0, <1>InjectAll, MovedFacts, SetEffect DEF InjectAll, Return, Pc, HoldingPc
    <2> QED
      BY <2>1, <1>InjectAll, Quiet DEF InjectAll, Holding, HoldingPc, store
  <1>ConstructRefused. CASE ConstructRefused(f)
    <2>1. Effect(f, "failed")
      BY <1>0, <1>ConstructRefused, EndFacts, SetEffect DEF ConstructRefused, Return
    <2>2. ~Holding(f) /\ "failed" \notin HoldingPc /\ UNCHANGED resolving
      BY <1>ConstructRefused DEF ConstructRefused, Uncached, Entering, Holding, HoldingPc, store
    <2> QED
      BY <2>1, <2>2, Quiet
  <1>ConstructLeaf. CASE ConstructLeaf(f)
    <2>1. Effect(f, "ok")
      BY <1>0, <1>ConstructLeaf, EndFacts, SetEffect DEF ConstructLeaf, Return
    <2>2. ~Holding(f) /\ "ok" \notin HoldingPc /\ UNCHANGED resolving
      BY <1>ConstructLeaf DEF ConstructLeaf, Uncached, Entering, Holding, HoldingPc, store, Instantiate
    <2> QED
      BY <2>1, <2>2, Quiet
  <1>ConstructLeafThrows. CASE ConstructLeafThrows(f)
    <2>1. Effect(f, "failed")
      BY <1>0, <1>ConstructLeafThrows, EndFacts, SetEffect DEF ConstructLeafThrows, Return
    <2>2. ~Holding(f) /\ "failed" \notin HoldingPc /\ UNCHANGED resolving
      BY <1>ConstructLeafThrows DEF ConstructLeafThrows, Uncached, Entering, Holding, HoldingPc, store
    <2> QED
      BY <2>1, <2>2, Quiet
  <1>ConstructBegin. CASE ConstructBegin(f)
    <2>1. Effect(f, "deps")
      <3> DEFINE fr == [frames[f] EXCEPT !.pc = "deps"]
      <3>1. fr \in Frame /\ fr.pc = "deps" /\ fr.token = frames[f].token
        BY <1>0, MovedFacts DEF Pc
      <3>2. Invoke(f, fr, "resolve", DepsOf(f)[1], Tail(stack)) /\ f <= calls
        BY <1>2, <1>ConstructBegin DEF ConstructBegin, Uncached, Entering
      <3> QED
        BY <1>0, <3>1, <3>2, InvokeEffect
    <2> QED
      BY <2>1, <1>ConstructBegin, Quiet
      DEF ConstructBegin, Uncached, Entering, Holding, HoldingPc
  <1> QED
    BY <1>EnterCached, <1>EnterCircular, <1>EnterMissing, <1>EnterUnregistered,
       <1>ReleaseEarly, <1>EnterValue, <1>EnterClass, <1>EnterFactory, <1>InjectNext,
       <1>InjectAll, <1>ConstructRefused, <1>ConstructLeaf, <1>ConstructLeafThrows,
       <1>ConstructBegin DEF Synchronous

LEMMA ContinuationLock ==
  ASSUME IInv, LockDiscipline, NEW f \in FrameId, Continuation(f)
  PROVE  LockDiscipline'
  <1>0. MachineOK /\ StoreOK
    BY Parts
  <1>1. frames[f] \in Frame
    BY <1>0 DEF MachineOK
  <1>Adopt. CASE Adopt(f)
    <2> DEFINE k == LastKid(f)
               fr == [frames[f] EXCEPT !.pc = frames[k].pc, !.val = frames[k].val,
                                       !.err = frames[k].err]
    <2>1. fr.pc = frames[k].pc /\ fr.token = frames[f].token
      BY <1>1 DEF Frame
    <2>2. frames[k].pc \in {"ok", "failed"}
      BY <1>Adopt DEF Adopt, Settled
    <2>3. frames' = [frames EXCEPT ![f] = fr]
      BY <1>Adopt DEF Adopt, Continue
    <2>4. Effect(f, fr.pc)
      BY <1>0, <2>1, <2>3, SetEffect
    <2>5. fr.pc \notin HoldingPc /\ ~Holding(f) /\ UNCHANGED resolving
      BY <2>1, <2>2, <1>Adopt DEF Adopt, Resumed, Holding, HoldingPc, store
    <2> QED
      BY <2>4, <2>5, Quiet
  <1>StoreValue. CASE StoreValue(f)
    <2>1. Effect(f, "ok")
      BY <1>0, <1>StoreValue, EndFacts, SetEffect DEF StoreValue, Continue
    <2>2. Holding(f) /\ "ok" \notin HoldingPc /\ Release(f)
      BY <1>StoreValue DEF StoreValue, Resumed, Holding, HoldingPc
    <2> QED
      BY <2>1, <2>2, Drops
  <1>StoreClass. CASE StoreClass(f)
    <2>1. Effect(f, "ok")
      BY <1>0, <1>StoreClass, EndFacts, SetEffect DEF StoreClass, Continue
    <2>2. Holding(f) /\ "ok" \notin HoldingPc /\ Release(f)
      BY <1>StoreClass DEF StoreClass, Resumed, Holding, HoldingPc
    <2> QED
      BY <2>1, <2>2, Drops
  <1>Produce. CASE Produce(f)
    <2>1. Effect(f, "producing")
      BY <1>0, <1>Produce, MovedFacts, SetEffect DEF Produce, Continue, Pc, HoldingPc
    <2> QED
      BY <2>1, <1>Produce, Quiet DEF Produce, Resumed, Holding, HoldingPc, store
  <1>Reject. CASE Reject(f)
    <2>1. Effect(f, "failed")
      <3>1. PICK e : frames' = [frames EXCEPT ![f] = Failed(f, e)]
        BY <1>Reject DEF Reject, Continue
      <3> QED
        BY <1>0, <3>1, EndFacts, SetEffect
    <2>2. Holding(f) /\ "failed" \notin HoldingPc /\ Release(f)
      BY <1>Reject DEF Reject, Resumed, Holding, HoldingPc
    <2> QED
      BY <2>1, <2>2, Drops
  <1>FactoryReturns. CASE FactoryReturns(f)
    <2>1. Effect(f, "ok")
      BY <1>0, <1>FactoryReturns, EndFacts, SetEffect DEF FactoryReturns, Continue
    <2>2. Holding(f) /\ "ok" \notin HoldingPc /\ Release(f)
      BY <1>FactoryReturns DEF FactoryReturns, Resumed, Holding, HoldingPc
    <2> QED
      BY <2>1, <2>2, Drops
  <1>FactoryThrows. CASE FactoryThrows(f)
    <2>1. Effect(f, "failed")
      BY <1>0, <1>FactoryThrows, EndFacts, SetEffect DEF FactoryThrows, Continue
    <2>2. Holding(f) /\ "failed" \notin HoldingPc /\ Release(f)
      BY <1>FactoryThrows DEF FactoryThrows, Resumed, Holding, HoldingPc
    <2> QED
      BY <2>1, <2>2, Drops
  <1>ConstructNext. CASE ConstructNext(f)
    <2>1. PICK t : Invoke(f, frames[f], "resolve", t, <<>>)
      BY <1>ConstructNext DEF ConstructNext
    <2>2. frames[f].pc = "deps" /\ f <= calls
      BY <1>0, <1>ConstructNext, Running DEF ConstructNext, DepReady, Resumed
    <2>3. Effect(f, frames[f].pc)
      BY <1>0, <1>1, <2>1, <2>2, InvokeEffect
    <2> QED
      BY <2>3, <1>ConstructNext, Quiet DEF ConstructNext, Holding, store
  <1>ConstructFinish. CASE ConstructFinish(f)
    <2>1. Effect(f, "ok")
      BY <1>0, <1>ConstructFinish, EndFacts, SetEffect DEF ConstructFinish, Continue
    <2>2. ~Holding(f) /\ "ok" \notin HoldingPc /\ UNCHANGED resolving
      BY <1>ConstructFinish DEF ConstructFinish, DepReady, Resumed, Holding, HoldingPc, store, Instantiate
    <2> QED
      BY <2>1, <2>2, Quiet
  <1>ConstructThrows. CASE ConstructThrows(f)
    <2>1. Effect(f, "failed")
      BY <1>0, <1>ConstructThrows, EndFacts, SetEffect DEF ConstructThrows, Continue
    <2>2. ~Holding(f) /\ "failed" \notin HoldingPc /\ UNCHANGED resolving
      BY <1>ConstructThrows DEF ConstructThrows, DepReady, Resumed, Holding, HoldingPc, store
    <2> QED
      BY <2>1, <2>2, Quiet
  <1>ConstructReject. CASE ConstructReject(f)
    <2>1. Effect(f, "failed")
      BY <1>0, <1>ConstructReject, EndFacts, SetEffect DEF ConstructReject, Continue
    <2>2. ~Holding(f) /\ "failed" \notin HoldingPc /\ UNCHANGED resolving
      BY <1>ConstructReject DEF ConstructReject, Resumed, Holding, HoldingPc, store
    <2> QED
      BY <2>1, <2>2, Quiet
  <1> QED
    BY <1>Adopt, <1>StoreValue, <1>StoreClass, <1>Produce, <1>Reject, <1>FactoryReturns,
       <1>FactoryThrows, <1>ConstructNext, <1>ConstructFinish, <1>ConstructThrows,
       <1>ConstructReject DEF Continuation

LEMMA EnvironmentLock ==
  ASSUME IInv, LockDiscipline, CloseOne \/ CloseDone \/ Environment
  PROVE  LockDiscipline'
  <1>0. MachineOK
    BY Parts
  <1>1. ASSUME NEW fn, NEW t, Call(fn, t) PROVE LockDiscipline'
    <2> DEFINE n == calls + 1
    <2>1. n \in FrameId /\ frames[n].pc = "idle"
      BY <1>0, <1>1, WiringAssumption DEF MachineOK, Call, FrameId, FrameOK
    <2>2. frames' = [frames EXCEPT ![n] = NewFrame(fn, t, None)] /\ UNCHANGED resolving
      BY <1>1 DEF Call, store
    <2>3. frames'[n].pc = "enter" /\ \A g \in FrameId \ {n} : frames'[g] = frames[g]
      BY <1>0, <2>1, <2>2 DEF MachineOK, NewFrame
    <2>4. frames[n].pc \notin HoldingPc /\ frames'[n].pc \notin HoldingPc
      BY <2>1, <2>3 DEF HoldingPc
    <2>5. ASSUME NEW g \in FrameId
          PROVE  /\ frames'[g].pc \in HoldingPc <=> frames[g].pc \in HoldingPc
                 /\ frames[g].pc \in HoldingPc => frames'[g].token = frames[g].token
      BY <2>3, <2>4
    <2> QED
      BY <2>2, <2>5 DEF LockDiscipline, Holding
  <1>2. ASSUME UNCHANGED <<frames, resolving>> PROVE LockDiscipline'
    BY <1>2 DEF LockDiscipline, Holding
  <1>3. CASE \E fn, t : Call(fn, t)
    BY <1>1, <1>3
  <1>4. CASE ~ \E fn, t : Call(fn, t)
    BY <1>2, <1>4 DEF CloseOne, CloseDone, Environment, Register, RegisterValue, CloseAll, store
  <1> QED
    BY <1>3, <1>4

LEMMA InitLock == Init => LockDiscipline
  BY DEF Init, LockDiscipline, Holding, NewFrame, HoldingPc

LEMMA LockStep == IInv /\ LockDiscipline /\ [Next]_vars => LockDiscipline'
  <1> SUFFICES ASSUME IInv, LockDiscipline, [Next]_vars PROVE LockDiscipline'
    OBVIOUS
  <1>1. CASE System
    BY <1>1, SynchronousLock, ContinuationLock, EnvironmentLock DEF System
  <1>2. CASE Environment
    BY <1>2, EnvironmentLock
  <1>3. CASE UNCHANGED vars
    BY <1>3 DEF vars, LockDiscipline, Holding
  <1> QED
    BY <1>1, <1>2, <1>3 DEF Next

(* The cycle detector never holds a token nobody is resolving, never lets a*)
(* token be resolved twice at once, and so never blocks a token for good.  *)
THEOREM LockCorrect == Spec => []LockDiscipline
  BY InitIInv, IInvStep, InitLock, LockStep, PTL DEF Spec

-----------------------------------------------------------------------------
(* trackedTokens and the close stack agree.                                *)

LEMMA TrackOne ==
  ASSUME OneCloserPerToken, closeStack \in Seq(Entry),
         NEW t \in Token, NEW o \in Nat, NEW src, NEW hook \in BOOLEAN,
         Track(t, o, src, hook)
  PROVE  OneCloserPerToken'
  <1> DEFINE e == [token |-> t, obj |-> o, hook |-> hook]
  <1>1. CASE UNCHANGED <<closeStack, tracked>>
    BY <1>1 DEF OneCloserPerToken
  <1>2. CASE t \notin tracked /\ closeStack' = Append(closeStack, e)
                             /\ tracked' = tracked \cup {t}
    <2>1. e \in Entry /\ e.token = t
      BY DEF Entry
    <2>2. /\ DOMAIN closeStack' = DOMAIN closeStack \cup {Len(closeStack) + 1}
          /\ \A i \in DOMAIN closeStack : closeStack'[i] = closeStack[i]
          /\ closeStack'[Len(closeStack) + 1] = e
      BY <1>2, <2>1
    <2>3. \A i \in DOMAIN closeStack : closeStack[i].token # t
      BY <1>2 DEF OneCloserPerToken
    <2>4. tracked' = {closeStack'[i].token : i \in DOMAIN closeStack'}
      BY <1>2, <2>1, <2>2 DEF OneCloserPerToken
    <2>5. \A i, j \in DOMAIN closeStack' :
            closeStack'[i].token = closeStack'[j].token => i = j
      BY <2>1, <2>2, <2>3 DEF OneCloserPerToken
    <2> QED
      BY <2>4, <2>5 DEF OneCloserPerToken
  <1> QED
    BY <1>1, <1>2 DEF Track

(* closeAll is given at most one closer for a token, whoever registers or  *)
(* resolves it how often.                                                  *)
THEOREM CloserCorrect == Spec => []OneCloserPerToken
  <1>1. Init => OneCloserPerToken
    BY DEF Init, OneCloserPerToken
  <1>2. IInv /\ OneCloserPerToken /\ [Next]_vars => OneCloserPerToken'
    <2> SUFFICES ASSUME IInv, OneCloserPerToken, [Next]_vars PROVE OneCloserPerToken'
      OBVIOUS
    <2> USE WiringAssumption
    <2>0. MachineOK /\ StoreOK /\ closeStack \in Seq(Entry) /\ NextObject \in Nat
      BY Parts DEF StoreOK, NextObject
    <2>1. ASSUME UNCHANGED <<closeStack, tracked>> PROVE OneCloserPerToken'
      BY <2>1 DEF OneCloserPerToken
    <2>2. ASSUME NEW f \in FrameId
          PROVE  /\ frames[f].token \in Token /\ frames[f].val \in Nat
                 /\ frames[f].provider.onClose \in BOOLEAN
      BY <2>0 DEF MachineOK, Frame, Provider
    <2>3. ASSUME NEW f \in FrameId, Synchronous(f) PROVE OneCloserPerToken'
      <3>1. CASE ConstructLeaf(f)
        BY <2>0, <2>2, <3>1, TrackOne DEF ConstructLeaf, Instantiate
      <3>2. CASE ~ConstructLeaf(f)
        BY <2>1, <2>3, <3>2
        DEF Synchronous, EnterCached, EnterCircular, EnterMissing, EnterUnregistered,
            ReleaseEarly, EnterValue, EnterClass, EnterFactory, InjectNext, InjectAll,
            ConstructRefused, ConstructLeafThrows, ConstructBegin, store
      <3> QED
        BY <3>1, <3>2
    <2>4. ASSUME NEW f \in FrameId, Continuation(f) PROVE OneCloserPerToken'
      <3>1. CASE StoreClass(f)
        <4>1. LastKid(f) \in FrameId
          BY <2>0, <3>1, KidOK DEF StoreClass, Resumed
        <4> QED
          BY <2>0, <2>2, <3>1, <4>1, TrackOne DEF StoreClass
      <3>2. CASE FactoryReturns(f)
        BY <2>0, <2>2, <3>2, TrackOne DEF FactoryReturns
      <3>3. CASE ConstructFinish(f)
        BY <2>0, <2>2, <3>3, TrackOne DEF ConstructFinish, Instantiate
      <3>4. CASE ~StoreClass(f) /\ ~FactoryReturns(f) /\ ~ConstructFinish(f)
        BY <2>1, <2>4, <3>4
        DEF Continuation, Adopt, StoreValue, Produce, Reject, FactoryThrows,
            ConstructNext, ConstructThrows, ConstructReject, store
      <3> QED
        BY <3>1, <3>2, <3>3, <3>4
    <2>5. ASSUME CloseOne \/ CloseDone \/ Environment PROVE OneCloserPerToken'
      <3>1. ASSUME NEW r \in Late, Register(r[1], r[2]) PROVE OneCloserPerToken'
        <4>1. r[1] \in Token /\ r[2].onClose \in BOOLEAN
          OBVIOUS
        <4> QED
          BY <2>0, <2>1, <3>1, <4>1, TrackOne DEF Register
      <3>2. ASSUME NEW t \in LateValue, RegisterValue(t) PROVE OneCloserPerToken'
        <4>1. t \in Token
          OBVIOUS
        <4> QED
          BY <2>0, <3>2, <4>1, TrackOne DEF RegisterValue
      <3>3. CASE CloseDone
        BY <3>3 DEF CloseDone, OneCloserPerToken
      <3>4. ASSUME NEW fn, NEW t, Call(fn, t) PROVE OneCloserPerToken'
        BY <2>1, <3>4 DEF Call, store
      <3>5. CASE CloseOne \/ CloseAll
        BY <2>1, <3>5 DEF CloseOne, CloseAll, store
      <3> QED
        BY <2>5, <3>1, <3>2, <3>3, <3>4, <3>5 DEF Environment
    <2>6. CASE UNCHANGED vars
      BY <2>1, <2>6 DEF vars
    <2> QED
      BY <2>3, <2>4, <2>5, <2>6 DEF Next, System
  <1> QED
    BY InitIInv, IInvStep, <1>1, <1>2, PTL DEF Spec

-----------------------------------------------------------------------------
(* A bootstrapped container: what its steps do, in a few shapes.           *)

(* Its providers never change, and no frame runs code that only a class    *)
(* without a provider or a registered value reaches.                       *)
Plain ==
  /\ providers = Wiring
  /\ \A f \in FrameId : /\ frames[f].pc \notin {"early", "adopt", "store"}
                        /\ frames[f].fn # "resolveClass"

(* Frame f moves to pc with value o, and no other frame changes.           *)
Turned(f, pc, o) ==
  /\ frames'[f].fn = frames[f].fn /\ frames'[f].token = frames[f].token
  /\ frames'[f].parent = frames[f].parent /\ frames'[f].kids = frames[f].kids
  /\ frames'[f].pc = pc /\ frames'[f].val = o
  /\ \A g \in FrameId \ {f} : frames'[g] = frames[g]
  /\ calls' = calls

(* Frame n is started for fn(t), as a call of p.                           *)
Started(n, fn, t, p) ==
  /\ n = calls + 1 /\ n \in FrameId
  /\ frames[n].pc = "idle" /\ frames'[n] = NewFrame(fn, t, p)
  /\ calls' = n

(* Frame f moves to pc and calls fn(t).                                    *)
Invoked(f, pc, fn, t) ==
  /\ frames'[f].fn = frames[f].fn /\ frames'[f].token = frames[f].token
  /\ frames'[f].parent = frames[f].parent
  /\ frames'[f].kids = Append(frames[f].kids, calls + 1)
  /\ frames'[f].pc = pc /\ frames'[f].val = frames[f].val
  /\ f # calls + 1 /\ Started(calls + 1, fn, t, f)
  /\ \A g \in FrameId \ {f, calls + 1} : frames'[g] = frames[g]

Kept == UNCHANGED <<instances, heap>>

Stays == Kept /\ UNCHANGED <<frames, calls>>

Supplies(t) ==
  /\ late < MaxLate
  /\ instances' = [instances EXCEPT ![t] = NextObject]
  /\ NewObject(t, {})
  /\ UNCHANGED <<frames, calls>>

Starts(t) ==
  /\ Started(calls + 1, "resolve", t, None)
  /\ \A g \in FrameId \ {calls + 1} : frames'[g] = frames[g]
  /\ Kept

Fails(f) ==
  /\ frames[f].pc \in {"enter", "class", "awaitAll", "producing", "deps"}
  /\ frames[f].pc = "class" =>
       \E i \in DOMAIN frames[f].kids : frames[frames[f].kids[i]].pc = "failed"
  /\ Turned(f, "failed", frames[f].val)
  /\ Kept

Answered(f) ==
  /\ frames[f].pc = "enter"
  /\ instances[frames[f].token] # None
  /\ Turned(f, "ok", instances[frames[f].token])
  /\ Kept

Enters(f) ==
  /\ frames[f].pc = "enter" /\ frames[f].fn = "resolve"
  /\ instances[frames[f].token] = None
  /\ Wiring[frames[f].token].kind = "class"
  /\ frames[f].token \notin resolving
  /\ Invoked(f, "class", "constructClass", frames[f].token)
  /\ frames'[f].provider = Wiring[frames[f].token]
  /\ Kept

Progresses(f, pc) ==
  /\ \/ frames[f].pc \in {"inject", "awaitAll"}
     \/ /\ frames[f].pc = "enter" /\ frames[f].fn = "resolve"
        /\ instances[frames[f].token] = None
        /\ Wiring[frames[f].token].kind = "factory"
        /\ frames[f].token \notin resolving
  /\ Turned(f, pc, frames[f].val)
  /\ Kept

Constructs(f) ==
  \/ frames[f].pc = "deps"
  \/ frames[f].pc = "enter" /\ frames[f].fn = "constructClass"

Asks(f, t) ==
  /\ \/ frames[f].pc = "inject" /\ Invoked(f, "inject", "resolve", t)
     \/ Constructs(f) /\ Invoked(f, "deps", "resolve", t)
  /\ Kept

(* An object is made for the token of f and cached under it.               *)
Makes(f) ==
  /\ frames[f].pc = "producing" \/ Constructs(f)
  /\ Turned(f, "ok", NextObject)
  /\ instances' = [instances EXCEPT ![frames[f].token] = NextObject]
  /\ NewObject(frames[f].token, Given(f))

Stores(f) ==
  /\ frames[f].pc = "class"
  /\ frames[LastKid(f)].pc = "ok"
  /\ Turned(f, "ok", frames[LastKid(f)].val)
  /\ instances' = [instances EXCEPT ![frames[f].token] = frames[LastKid(f)].val]
  /\ UNCHANGED heap

Shape(f) ==
  \/ Fails(f) \/ Answered(f) \/ Enters(f) \/ Makes(f) \/ Stores(f)
  \/ \E pc \in {"inject", "awaitAll", "producing"} : Progresses(f, pc)
  \/ \E t \in Token : Asks(f, t)

LEMMA SetTurned ==
  ASSUME MachineOK, NEW f \in FrameId, NEW fr \in Frame,
         fr.fn = frames[f].fn, fr.token = frames[f].token,
         fr.parent = frames[f].parent, fr.kids = frames[f].kids,
         frames' = [frames EXCEPT ![f] = fr], calls' = calls
  PROVE  Turned(f, fr.pc, fr.val)
  BY DEF Turned, MachineOK

LEMMA OkTurned ==
  ASSUME MachineOK, NEW f \in FrameId, NEW o \in Nat,
         frames' = [frames EXCEPT ![f] = Ok(f, o)], calls' = calls
  PROVE  Turned(f, "ok", o)
  <1>1. frames[f] \in Frame
    BY DEF MachineOK
  <1>2. /\ Ok(f, o) \in Frame /\ Ok(f, o).pc = "ok" /\ Ok(f, o).val = o
        /\ Ok(f, o).fn = frames[f].fn /\ Ok(f, o).token = frames[f].token
        /\ Ok(f, o).parent = frames[f].parent /\ Ok(f, o).kids = frames[f].kids
    BY <1>1 DEF Ok, Frame, Pc, HoldingPc
  <1> QED
    BY <1>2, SetTurned

LEMMA FailedTurned ==
  ASSUME MachineOK, NEW f \in FrameId, NEW e \in Reason,
         frames' = [frames EXCEPT ![f] = Failed(f, e)], calls' = calls
  PROVE  Turned(f, "failed", frames[f].val)
  <1>1. frames[f] \in Frame
    BY DEF MachineOK
  <1>2. /\ Failed(f, e) \in Frame
        /\ Failed(f, e).pc = "failed" /\ Failed(f, e).val = frames[f].val
        /\ Failed(f, e).fn = frames[f].fn /\ Failed(f, e).token = frames[f].token
        /\ Failed(f, e).parent = frames[f].parent /\ Failed(f, e).kids = frames[f].kids
    BY <1>1 DEF Failed, Frame, Pc, HoldingPc
  <1> QED
    BY <1>2, SetTurned

LEMMA MovedTurned ==
  ASSUME MachineOK, NEW f \in FrameId, NEW pc \in Pc, NEW p \in Provider,
         frames' = [frames EXCEPT ![f] = [frames[f] EXCEPT !.pc = pc, !.provider = p]],
         calls' = calls
  PROVE  Turned(f, pc, frames[f].val)
  <1> DEFINE fr == [frames[f] EXCEPT !.pc = pc, !.provider = p]
  <1>1. frames[f] \in Frame
    BY DEF MachineOK
  <1>2. /\ fr \in Frame /\ fr.pc = pc /\ fr.val = frames[f].val
        /\ fr.fn = frames[f].fn /\ fr.token = frames[f].token
        /\ fr.parent = frames[f].parent /\ fr.kids = frames[f].kids
    BY <1>1 DEF Frame
  <1> QED
    BY <1>2, SetTurned

LEMMA InvokeInvoked ==
  ASSUME MachineOK, NEW f \in FrameId, f <= calls, NEW fr \in Frame,
         fr.fn = frames[f].fn, fr.token = frames[f].token,
         fr.parent = frames[f].parent, fr.kids = frames[f].kids, fr.val = frames[f].val,
         NEW fn, NEW t, NEW below, Invoke(f, fr, fn, t, below)
  PROVE  Invoked(f, fr.pc, fn, t) /\ frames'[f].provider = fr.provider
  <1> DEFINE n == calls + 1
             fk == [fr EXCEPT !.kids = Append(@, n)]
  <1>1. n \in FrameId /\ n # f /\ frames[n].pc = "idle" /\ calls' = n
    BY WiringAssumption DEF MachineOK, Invoke, FrameId, FrameOK
  <1>2. frames' = [frames EXCEPT ![f] = fk, ![n] = NewFrame(fn, t, f)]
    BY DEF Invoke
  <1>3. /\ fk.pc = fr.pc /\ fk.token = fr.token /\ fk.fn = fr.fn /\ fk.val = fr.val
        /\ fk.parent = fr.parent /\ fk.kids = Append(fr.kids, n)
        /\ fk.provider = fr.provider
    BY DEF Frame
  <1>4. frames'[f] = fk /\ frames'[n] = NewFrame(fn, t, f)
    BY <1>1, <1>2 DEF MachineOK
  <1>5. \A g \in FrameId \ {f, n} : frames'[g] = frames[g]
    BY <1>1, <1>2 DEF MachineOK
  <1> QED
    BY <1>1, <1>3, <1>4, <1>5 DEF Invoked, Started

LEMMA SynchronousShape ==
  ASSUME Bootstrapped, IInv, Plain, NEW f \in FrameId, Synchronous(f)
  PROVE  Shape(f) /\ late' = late /\ UNCHANGED providers
  <1> USE WiringAssumption
  <1>0. MachineOK /\ StoreOK
    BY Parts
  <1>1. /\ frames[f] \in Frame /\ frames[f].token \in Token
        /\ frames[f].provider \in Provider /\ frames[f].kids \in Seq(FrameId)
    BY <1>0 DEF MachineOK, Frame
  <1>2. OnTop(f) /\ f <= calls
    <2>1. OnTop(f)
      BY DEF Synchronous, EnterCached, EnterCircular, EnterMissing, EnterUnregistered,
             ReleaseEarly, EnterValue, EnterClass, EnterFactory, InjectNext, InjectAll,
             ConstructRefused, ConstructLeaf, ConstructLeafThrows, ConstructBegin,
             Fresh, Uncached, Entering
    <2> QED
      BY <1>0, <2>1, Running
  <1>3. ProviderOf(f) = Wiring[frames[f].token] /\ ProviderOf(f) \in Provider
    BY <1>0, <1>1 DEF Plain, ProviderOf, StoreOK
  <1>4. late' = late /\ UNCHANGED providers
    BY DEF Synchronous, EnterCached, EnterCircular, EnterMissing, EnterUnregistered,
           ReleaseEarly, EnterValue, EnterClass, EnterFactory, InjectNext, InjectAll,
           ConstructRefused, ConstructLeaf, ConstructLeafThrows, ConstructBegin, store, rest
  <1>EnterCached. CASE EnterCached(f)
    <2>1. instances[frames[f].token] \in Nat
      BY <1>0, <1>1 DEF StoreOK
    <2>2. Turned(f, "ok", instances[frames[f].token])
      BY <1>0, <2>1, <1>EnterCached, OkTurned DEF EnterCached, Return
    <2> QED
      BY <1>4, <2>2, <1>EnterCached DEF EnterCached, Entering, Shape, Answered, Kept, store
  <1>Failing. CASE EnterCircular(f) \/ EnterMissing(f) \/ ConstructRefused(f)
                   \/ ConstructLeafThrows(f)
    <2>1. PICK e \in Reason : Return(f, Failed(f, e))
      BY <1>Failing DEF EnterCircular, EnterMissing, ConstructRefused, ConstructLeafThrows,
                        Reason
    <2>2. Turned(f, "failed", frames[f].val)
      BY <1>0, <2>1, FailedTurned DEF Return
    <2>3. frames[f].pc = "enter" /\ Kept
      BY <1>Failing DEF EnterCircular, EnterMissing, ConstructRefused, ConstructLeafThrows,
                        Fresh, Uncached, Entering, Kept, store
    <2> QED
      BY <1>4, <2>2, <2>3 DEF Shape, Fails
  <1>Never. CASE EnterUnregistered(f) \/ ReleaseEarly(f) \/ EnterValue(f)
    <2>1. ~ReleaseEarly(f)
      BY DEF Plain, ReleaseEarly
    <2>2. ~EnterUnregistered(f)
      BY <1>3 DEF EnterUnregistered, Plain, Bootstrapped
    <2>3. ~EnterValue(f)
      BY <1>1, <1>3 DEF EnterValue
    <2> QED
      BY <1>Never, <2>1, <2>2, <2>3
  <1>EnterClass. CASE EnterClass(f)
    <2> DEFINE fr == [frames[f] EXCEPT !.pc = "class", !.provider = ProviderOf(f)]
    <2>1. /\ fr \in Frame /\ fr.fn = frames[f].fn /\ fr.token = frames[f].token
          /\ fr.parent = frames[f].parent /\ fr.kids = frames[f].kids
          /\ fr.val = frames[f].val /\ fr.pc = "class" /\ fr.provider = ProviderOf(f)
      BY <1>1, <1>3 DEF Frame, Pc, HoldingPc
    <2>2. Invoke(f, fr, "constructClass", ProviderOf(f).useClass, Tail(stack))
      BY <1>EnterClass DEF EnterClass
    <2>3. Wiring[frames[f].token].kind = "class" /\ ProviderOf(f).useClass = frames[f].token
      BY <1>1, <1>3, <1>EnterClass DEF EnterClass, Bootstrapped
    <2>4. /\ Invoked(f, fr.pc, "constructClass", frames[f].token)
          /\ frames'[f].provider = fr.provider
      BY <1>0, <1>2, <2>1, <2>2, <2>3, InvokeInvoked
    <2>5. Enters(f)
      BY <1>3, <2>1, <2>3, <2>4, <1>EnterClass
      DEF EnterClass, Fresh, Uncached, Entering, Enters, Kept
    <2> QED
      BY <1>4, <2>5 DEF Shape
  <1>EnterFactory. CASE EnterFactory(f)
    <2>1. PICK pc \in {"producing", "inject"} :
            /\ frames' = [frames EXCEPT ![f] =
                            [frames[f] EXCEPT !.pc = pc, !.provider = ProviderOf(f)]]
            /\ calls' = calls
      BY <1>EnterFactory DEF EnterFactory, Return, Continue
    <2>2. Turned(f, pc, frames[f].val)
      BY <1>0, <1>3, <2>1, MovedTurned DEF Pc, HoldingPc
    <2>3. Progresses(f, pc)
      BY <1>3, <2>2, <1>EnterFactory
      DEF EnterFactory, Fresh, Uncached, Entering, Progresses, Kept
    <2> QED
      BY <1>4, <2>1, <2>3 DEF Shape
  <1>InjectNext. CASE InjectNext(f)
    <2> DEFINE t == frames[f].provider.inject[Len(frames[f].kids) + 1]
    <2>1. t \in Token
      <3>1. frames[f].provider.inject \in Seq(Token)
        BY <1>1 DEF Provider
      <3> QED
        BY <1>1, <3>1, <1>InjectNext DEF InjectNext
    <2>2. Invoke(f, frames[f], "resolve", t, stack)
      BY <1>InjectNext DEF InjectNext
    <2>3. Invoked(f, frames[f].pc, "resolve", t)
      BY <1>0, <1>1, <1>2, <2>2, InvokeInvoked
    <2>4. Asks(f, t)
      BY <2>3, <1>InjectNext DEF InjectNext, Asks, Kept, store
    <2> QED
      BY <1>4, <2>1, <2>4 DEF Shape
  <1>InjectAll. CASE InjectAll(f)
    <2>1. [frames[f] EXCEPT !.pc = "awaitAll", !.provider = frames[f].provider]
            = [frames[f] EXCEPT !.pc = "awaitAll"]
      BY <1>1 DEF Frame
    <2>2. Turned(f, "awaitAll", frames[f].val)
      BY <1>0, <1>1, <2>1, <1>InjectAll, MovedTurned DEF InjectAll, Return, Pc, HoldingPc
    <2> QED
      BY <1>4, <2>2, <1>InjectAll DEF InjectAll, Shape, Progresses, Kept, store
  <1>ConstructLeaf. CASE ConstructLeaf(f)
    <2>1. NextObject \in Nat
      BY <1>0 DEF NextObject, StoreOK
    <2>2. Turned(f, "ok", NextObject)
      BY <1>0, <2>1, <1>ConstructLeaf, OkTurned DEF ConstructLeaf, Return
    <2> QED
      BY <1>4, <2>2, <1>ConstructLeaf
      DEF ConstructLeaf, Uncached, Entering, Instantiate, Shape, Makes, Constructs
  <1>ConstructBegin. CASE ConstructBegin(f)
    <2> DEFINE fr == [frames[f] EXCEPT !.pc = "deps"]
    <2>1. frames[f].token \in ClassToken
      BY <1>0, <1>ConstructBegin DEF ConstructBegin, Uncached, Entering, MachineOK, FrameOK
    <2>2. DepsOf(f) \in Seq(Token) /\ DepsOf(f) # <<>>
      BY <2>1, <1>ConstructBegin DEF ConstructBegin, DepsOf
    <2>3. DepsOf(f)[1] \in Token
      BY <2>2
    <2>4. /\ fr \in Frame /\ fr.fn = frames[f].fn /\ fr.token = frames[f].token
          /\ fr.parent = frames[f].parent /\ fr.kids = frames[f].kids
          /\ fr.val = frames[f].val /\ fr.pc = "deps"
      BY <1>1 DEF Frame, Pc, HoldingPc
    <2>5. Invoke(f, fr, "resolve", DepsOf(f)[1], Tail(stack))
      BY <1>ConstructBegin DEF ConstructBegin
    <2>6. Invoked(f, fr.pc, "resolve", DepsOf(f)[1])
      BY <1>0, <1>2, <2>4, <2>5, InvokeInvoked
    <2>7. Asks(f, DepsOf(f)[1])
      BY <2>4, <2>6, <1>ConstructBegin
      DEF ConstructBegin, Uncached, Entering, Asks, Constructs, Kept
    <2> QED
      BY <1>4, <2>3, <2>7 DEF Shape
  <1> QED
    BY <1>EnterCached, <1>Failing, <1>Never, <1>EnterClass, <1>EnterFactory, <1>InjectNext,
       <1>InjectAll, <1>ConstructLeaf, <1>ConstructBegin DEF Synchronous

LEMMA ContinuationShape ==
  ASSUME Bootstrapped, IInv, Plain, NEW f \in FrameId, Continuation(f)
  PROVE  Shape(f) /\ late' = late /\ UNCHANGED providers
  <1> USE WiringAssumption
  <1>0. MachineOK /\ StoreOK
    BY Parts
  <1>1. /\ frames[f] \in Frame /\ frames[f].token \in Token
        /\ frames[f].provider \in Provider /\ frames[f].kids \in Seq(FrameId)
    BY <1>0 DEF MachineOK, Frame
  <1>2. frames[f].pc # "idle" /\ f <= calls
    <2>1. frames[f].pc # "idle"
      BY DEF Continuation, Adopt, StoreValue, StoreClass, Produce, Reject, FactoryReturns,
             FactoryThrows, ConstructNext, ConstructFinish, ConstructThrows,
             ConstructReject, DepReady, Resumed
    <2> QED
      BY <1>0, <2>1, Running
  <1>3. late' = late /\ UNCHANGED providers
    BY DEF Continuation, Adopt, StoreValue, StoreClass, Produce, Reject, FactoryReturns,
           FactoryThrows, ConstructNext, ConstructFinish, ConstructThrows,
           ConstructReject, store, rest
  <1>4. NextObject \in Nat
    BY <1>0 DEF NextObject, StoreOK
  <1>5. ASSUME NEW k \in FrameId PROVE frames[k].val \in Nat /\ frames[k].err \in Reason
    BY <1>0 DEF MachineOK, Frame
  <1>Never. CASE Adopt(f) \/ StoreValue(f)
    BY <1>Never DEF Adopt, StoreValue, Resumed, Plain
  <1>StoreClass. CASE StoreClass(f)
    <2>1. LastKid(f) \in FrameId
      BY <1>0, <1>StoreClass, KidOK DEF StoreClass, Resumed
    <2>2. Turned(f, "ok", frames[LastKid(f)].val)
      BY <1>0, <1>5, <2>1, <1>StoreClass, OkTurned DEF StoreClass, Continue
    <2>3. Stores(f)
      BY <2>2, <1>StoreClass DEF StoreClass, Resumed, Stores
    <2> QED
      BY <1>3, <2>3 DEF Shape
  <1>Produce. CASE Produce(f)
    <2>1. [frames[f] EXCEPT !.pc = "producing", !.provider = frames[f].provider]
            = [frames[f] EXCEPT !.pc = "producing"]
      BY <1>1 DEF Frame
    <2>2. Turned(f, "producing", frames[f].val)
      BY <1>0, <1>1, <2>1, <1>Produce, MovedTurned DEF Produce, Continue, Pc, HoldingPc
    <2> QED
      BY <1>3, <2>2, <1>Produce DEF Produce, Resumed, Shape, Progresses, Kept, store
  <1>Reject. CASE Reject(f)
    <2>1. PICK i \in DOMAIN frames[f].kids :
             /\ frames[frames[f].kids[i]].pc = "failed"
             /\ Continue(f, Failed(f, frames[frames[f].kids[i]].err))
      BY <1>Reject DEF Reject
    <2>2. frames[f].kids[i] \in FrameId
      BY <1>1
    <2>3. frames[frames[f].kids[i]].err \in Reason
      BY <2>2, <1>5
    <2>4. Turned(f, "failed", frames[f].val)
      BY <1>0, <2>1, <2>3, FailedTurned DEF Continue
    <2>5. Fails(f)
      BY <2>1, <2>4, <1>Reject DEF Reject, Resumed, Fails, Kept
    <2> QED
      BY <1>3, <2>5 DEF Shape
  <1>Throws. CASE FactoryThrows(f) \/ ConstructThrows(f)
    <2>1. Continue(f, Failed(f, "thrown")) /\ frames[f].pc \in {"producing", "deps"} /\ Kept
      BY <1>Throws DEF FactoryThrows, ConstructThrows, DepReady, Resumed, Kept, store
    <2>2. Turned(f, "failed", frames[f].val)
      BY <1>0, <2>1, FailedTurned, ReasonFacts DEF Continue
    <2> QED
      BY <1>3, <2>1, <2>2 DEF Shape, Fails
  <1>ConstructReject. CASE ConstructReject(f)
    <2>1. LastKid(f) \in FrameId
      BY <1>0, <1>ConstructReject, KidOK DEF ConstructReject, Resumed
    <2>2. Turned(f, "failed", frames[f].val)
      BY <1>0, <1>5, <2>1, <1>ConstructReject, FailedTurned DEF ConstructReject, Continue
    <2> QED
      BY <1>3, <2>2, <1>ConstructReject
      DEF ConstructReject, Resumed, Shape, Fails, Kept, store
  <1>Makes. CASE FactoryReturns(f) \/ ConstructFinish(f)
    <2>1. /\ Continue(f, Ok(f, NextObject)) /\ NewObject(frames[f].token, Given(f))
          /\ instances' = [instances EXCEPT ![frames[f].token] = NextObject]
          /\ frames[f].pc \in {"producing", "deps"}
      BY <1>Makes DEF FactoryReturns, ConstructFinish, Instantiate, DepReady, Resumed
    <2>2. Turned(f, "ok", NextObject)
      BY <1>0, <1>4, <2>1, OkTurned DEF Continue
    <2> QED
      BY <1>3, <2>1, <2>2 DEF Shape, Makes, Constructs
  <1>ConstructNext. CASE ConstructNext(f)
    <2> DEFINE t == DepsOf(f)[Len(frames[f].kids) + 1]
    <2>1. frames[f].token \in ClassToken /\ frames[f].pc = "deps"
      BY <1>0, <1>ConstructNext DEF ConstructNext, DepReady, Resumed, MachineOK, FrameOK
    <2>2. DepsOf(f) \in Seq(Token)
      BY <2>1 DEF DepsOf
    <2>3. t \in Token
      BY <1>1, <2>2, <1>ConstructNext DEF ConstructNext
    <2>4. Invoke(f, frames[f], "resolve", t, <<>>)
      BY <1>ConstructNext DEF ConstructNext
    <2>5. Invoked(f, frames[f].pc, "resolve", t)
      BY <1>0, <1>1, <1>2, <2>4, InvokeInvoked
    <2>6. Asks(f, t)
      BY <2>1, <2>5, <1>ConstructNext DEF ConstructNext, Asks, Constructs, Kept, store
    <2> QED
      BY <1>3, <2>3, <2>6 DEF Shape
  <1> QED
    BY <1>Never, <1>StoreClass, <1>Produce, <1>Reject, <1>Throws, <1>ConstructReject,
       <1>Makes, <1>ConstructNext DEF Continuation

LEMMA Shapes ==
  ASSUME Bootstrapped, IInv, Plain, [Next]_vars
  PROVE  /\ UNCHANGED providers
         /\ \/ \E t \in LateValue : Supplies(t) /\ late' = late + 1
            \/ late' = late /\ (Stays \/ (\E t \in Token : Starts(t))
                                      \/ (\E f \in FrameId : Shape(f)))
  <1>0. MachineOK
    BY Parts
  <1>1. ASSUME NEW t \in Token, Call("resolve", t) PROVE Starts(t)
    <2> DEFINE n == calls + 1
    <2>1. n \in FrameId /\ frames[n].pc = "idle" /\ calls' = n
      BY <1>0, <1>1, WiringAssumption DEF MachineOK, Call, FrameId, FrameOK
    <2>2. frames' = [frames EXCEPT ![n] = NewFrame("resolve", t, None)]
      BY <1>1 DEF Call
    <2>3. frames'[n] = NewFrame("resolve", t, None)
          /\ \A g \in FrameId \ {n} : frames'[g] = frames[g]
      BY <1>0, <2>1, <2>2 DEF MachineOK
    <2> QED
      BY <1>1, <2>1, <2>3 DEF Starts, Started, Call, Kept, store
  <1>2. CASE \E f \in FrameId : Synchronous(f) \/ Continuation(f)
    BY <1>2, SynchronousShape, ContinuationShape
  <1>3. CASE CloseOne \/ CloseDone \/ CloseAll \/ UNCHANGED vars
    BY <1>3 DEF CloseOne, CloseDone, CloseAll, vars, store, Stays, Kept
  <1>4. CASE \E t \in Token : Call("resolve", t)
    BY <1>1, <1>4 DEF Call, rest, store
  <1>5. CASE \E t \in LateValue : RegisterValue(t)
    BY <1>5 DEF RegisterValue, Supplies
  <1>6. ~(\E t \in Direct : Call("resolveClass", t)) /\ ~(\E r \in Late : Register(r[1], r[2]))
    BY DEF Bootstrapped
  <1> QED
    BY <1>2, <1>3, <1>4, <1>5, <1>6 DEF Next, System, Environment

-----------------------------------------------------------------------------
(* What the shapes keep: a class is constructed by one call for the one    *)
(* that holds its token, and what is being built has no object yet.        *)

Factory(f) == frames[f].pc \in {"inject", "awaitAll", "producing"}
Builds(f) == Factory(f) \/ Constructs(f)

(* The call that constructs a class for f.                                 *)
Constructor(f, k) ==
  /\ frames[f].kids = <<k>>
  /\ frames[k].fn = "constructClass" /\ frames[k].parent = f
  /\ frames[k].token = frames[f].token /\ frames[k].pc # "idle"

Nested ==
  \A f \in FrameId :
    /\ frames[f].pc = "enter" => frames[f].kids = <<>>
    /\ Factory(f) => frames[f].fn = "resolve" /\ Wiring[frames[f].token].kind = "factory"
    /\ frames[f].pc = "deps" => frames[f].fn = "constructClass"
    /\ frames[f].pc = "class" => \E k \in FrameId : Constructor(f, k)
    /\ frames[f].fn = "constructClass" =>
         \E p \in FrameId :
           /\ Constructor(p, f)
           /\ frames[p].fn = "resolve" /\ frames[p].pc \notin {"idle", "enter"}
           /\ Wiring[frames[p].token].kind = "class"
           /\ Constructs(f) => frames[p].pc = "class"

Cached ==
  /\ \A t \in Token : instances[t] <= Len(heap)
  /\ \A f \in FrameId :
       /\ frames[f].pc = "ok" => frames[f].val \in 1..Len(heap)
       /\ Builds(f) => instances[frames[f].token] = None
       /\ \A k \in FrameId :
            frames[f].pc = "class" /\ Constructor(f, k) /\ frames[k].pc = "ok" =>
              instances[frames[f].token] = frames[k].val

(* Every object was made by a call that succeeded, or supplied.            *)
Succeeded == {f \in FrameId : frames[f].pc = "ok"}
Counted == late <= MaxLate /\ Len(heap) <= Cardinality(Succeeded) + late

SInv == IInv /\ LockDiscipline /\ Plain /\ Nested /\ Cached /\ Counted

LEMMA TurnedNested ==
  ASSUME Nested, NEW f \in FrameId, NEW o, frames[f].pc # "idle",
         NEW pc \in {"ok", "failed", "inject", "awaitAll", "producing"}, Turned(f, pc, o),
         pc \notin {"ok", "failed"} =>
           frames[f].fn = "resolve" /\ Wiring[frames[f].token].kind = "factory",
         frames[f].pc = "class" => \A k \in FrameId : Constructor(f, k) => ~Constructs(k)
  PROVE  Nested'
  <1>1. \A g \in FrameId :
          /\ frames'[g].fn = frames[g].fn /\ frames'[g].token = frames[g].token
          /\ frames'[g].parent = frames[g].parent /\ frames'[g].kids = frames[g].kids
          /\ g # f => frames'[g].pc = frames[g].pc
          /\ frames[g].pc # "idle" => frames'[g].pc # "idle"
    BY DEF Turned
  <1>2. frames'[f].pc = pc
    BY DEF Turned
  <1>3. \A g, k \in FrameId : Constructor(g, k) => Constructor(g, k)'
    BY <1>1 DEF Constructor
  <1>4. \A g \in FrameId : Constructs(g)' => Constructs(g) /\ g # f
    BY <1>1, <1>2 DEF Constructs
  <1> SUFFICES ASSUME NEW g \in FrameId
               PROVE  /\ frames'[g].pc = "enter" => frames'[g].kids = <<>>
                      /\ Factory(g)' => /\ frames'[g].fn = "resolve"
                                        /\ Wiring[frames'[g].token].kind = "factory"
                      /\ frames'[g].pc = "deps" => frames'[g].fn = "constructClass"
                      /\ frames'[g].pc = "class" => \E k \in FrameId : Constructor(g, k)'
                      /\ frames'[g].fn = "constructClass" =>
                           \E p \in FrameId :
                             /\ Constructor(p, g)'
                             /\ frames'[p].fn = "resolve"
                             /\ frames'[p].pc \notin {"idle", "enter"}
                             /\ Wiring[frames'[p].token].kind = "class"
                             /\ Constructs(g)' => frames'[p].pc = "class"
    BY DEF Nested
  <1>5. frames'[g].pc = "enter" => frames'[g].kids = <<>>
    BY <1>1, <1>2 DEF Nested
  <1>6. Factory(g)' => frames'[g].fn = "resolve" /\ Wiring[frames'[g].token].kind = "factory"
    BY <1>1, <1>2 DEF Nested, Factory
  <1>7. frames'[g].pc = "deps" => frames'[g].fn = "constructClass"
    BY <1>1, <1>2 DEF Nested
  <1>8. frames'[g].pc = "class" => \E k \in FrameId : Constructor(g, k)'
    BY <1>1, <1>2, <1>3 DEF Nested
  <1>9. ASSUME frames'[g].fn = "constructClass"
        PROVE  \E p \in FrameId :
                 /\ Constructor(p, g)'
                 /\ frames'[p].fn = "resolve" /\ frames'[p].pc \notin {"idle", "enter"}
                 /\ Wiring[frames'[p].token].kind = "class"
                 /\ Constructs(g)' => frames'[p].pc = "class"
    <2>1. PICK p \in FrameId :
            /\ Constructor(p, g)
            /\ frames[p].fn = "resolve" /\ frames[p].pc \notin {"idle", "enter"}
            /\ Wiring[frames[p].token].kind = "class"
            /\ Constructs(g) => frames[p].pc = "class"
      BY <1>1, <1>9 DEF Nested
    <2>2. Constructs(g)' => p # f /\ frames'[p].pc = "class"
      BY <1>1, <1>4, <2>1
    <2>3. frames'[p].pc \notin {"idle", "enter"}
      BY <1>1, <1>2, <2>1
    <2>4. Constructor(p, g)' /\ frames'[p].fn = "resolve" /\ Wiring[frames'[p].token].kind = "class"
      BY <1>1, <1>3, <2>1
    <2> QED
      BY <2>2, <2>3, <2>4
  <1> QED
    BY <1>5, <1>6, <1>7, <1>8, <1>9

(* A new call of resolve, by nobody or by a call that builds.              *)
LEMMA StartedNested ==
  ASSUME Nested, MachineOK, NEW t \in Token, NEW p,
         Started(calls + 1, "resolve", t, p),
         NEW f, NEW pc, f # calls + 1,
         \A g \in FrameId \ {f, calls + 1} : frames'[g] = frames[g],
         f \in FrameId => Builds(f) /\ Invoked(f, pc, "resolve", t)
                          /\ (IF Constructs(f) THEN pc = "deps" ELSE pc = frames[f].pc)
  PROVE  Nested'
  <1> DEFINE n == calls + 1
  <1>1. /\ n \in FrameId /\ frames[n].pc = "idle"
        /\ frames'[n].pc = "enter" /\ frames'[n].fn = "resolve" /\ frames'[n].kids = <<>>
    BY DEF Started, NewFrame
  <1>2. ASSUME NEW g \in FrameId, g # n
        PROVE  /\ frames'[g].fn = frames[g].fn /\ frames'[g].token = frames[g].token
               /\ frames'[g].parent = frames[g].parent
               /\ g # f => frames'[g].kids = frames[g].kids /\ frames'[g].pc = frames[g].pc
               /\ Factory(g)' <=> Factory(g)
               /\ frames'[g].pc = "deps" => Constructs(g)
               /\ Constructs(g)' <=> Constructs(g)
               /\ frames'[g].pc = "enter" => frames[g].pc = "enter" /\ g # f
               /\ frames[g].pc \notin {"idle", "enter"} => frames'[g].pc \notin {"idle", "enter"}
               /\ frames[g].pc # "idle" => frames'[g].pc # "idle"
               /\ frames'[g].pc = "class" <=> frames[g].pc = "class"
    <2>1. CASE g # f
      BY <1>2, <2>1 DEF Factory, Constructs
    <2>2. CASE g = f
      BY <1>2, <2>2 DEF Invoked, Builds, Factory, Constructs, Nested
    <2> QED
      BY <2>1, <2>2
  <1>3. ASSUME NEW g \in FrameId, NEW k \in FrameId, Constructor(g, k), g # f, frames[g].pc # "idle"
        PROVE  Constructor(g, k)'
    <2>1. g # n /\ k # n
      BY <1>1, <1>3 DEF Constructor
    <2> QED
      BY <1>2, <1>3, <2>1 DEF Constructor
  <1>4. f \in FrameId => ~(frames[f].fn = "resolve" /\ Wiring[frames[f].token].kind = "class")
        /\ frames[f].pc # "class"
    BY DEF Builds, Factory, Constructs, Nested
  <1> SUFFICES ASSUME NEW g \in FrameId
               PROVE  /\ frames'[g].pc = "enter" => frames'[g].kids = <<>>
                      /\ Factory(g)' => /\ frames'[g].fn = "resolve"
                                        /\ Wiring[frames'[g].token].kind = "factory"
                      /\ frames'[g].pc = "deps" => frames'[g].fn = "constructClass"
                      /\ frames'[g].pc = "class" => \E k \in FrameId : Constructor(g, k)'
                      /\ frames'[g].fn = "constructClass" =>
                           \E q \in FrameId :
                             /\ Constructor(q, g)'
                             /\ frames'[q].fn = "resolve"
                             /\ frames'[q].pc \notin {"idle", "enter"}
                             /\ Wiring[frames'[q].token].kind = "class"
                             /\ Constructs(g)' => frames'[q].pc = "class"
    BY DEF Nested
  <1>5. CASE g = n
    BY <1>1, <1>5 DEF Factory
  <1>6. CASE g # n
    <2>1. frames'[g].pc = "enter" => frames'[g].kids = <<>>
      BY <1>2, <1>6 DEF Nested
    <2>2. Factory(g)' => frames'[g].fn = "resolve" /\ Wiring[frames'[g].token].kind = "factory"
      BY <1>2, <1>6 DEF Nested
    <2>3. frames'[g].pc = "deps" => frames'[g].fn = "constructClass"
      BY <1>2, <1>6 DEF Nested, Constructs
    <2>4. frames'[g].pc = "class" => \E k \in FrameId : Constructor(g, k)'
      BY <1>2, <1>3, <1>4, <1>6 DEF Nested
    <2>5. ASSUME frames'[g].fn = "constructClass"
          PROVE  \E q \in FrameId :
                   /\ Constructor(q, g)'
                   /\ frames'[q].fn = "resolve" /\ frames'[q].pc \notin {"idle", "enter"}
                   /\ Wiring[frames'[q].token].kind = "class"
                   /\ Constructs(g)' => frames'[q].pc = "class"
      <3>1. PICK q \in FrameId :
              /\ Constructor(q, g)
              /\ frames[q].fn = "resolve" /\ frames[q].pc \notin {"idle", "enter"}
              /\ Wiring[frames[q].token].kind = "class"
              /\ Constructs(g) => frames[q].pc = "class"
        BY <1>2, <1>6, <2>5 DEF Nested
      <3>2. q # f /\ q # n
        BY <1>1, <1>4, <3>1
      <3> QED
        BY <1>2, <1>3, <1>6, <3>1, <3>2
    <2> QED
      BY <2>1, <2>2, <2>3, <2>4, <2>5
  <1> QED
    BY <1>5, <1>6

LEMMA EntersNested ==
  ASSUME Nested, MachineOK, NEW f \in FrameId, Enters(f)
  PROVE  Nested'
  <1>0. PICK n : n = calls + 1
    OBVIOUS
  <1>1. /\ n \in FrameId /\ frames[n].pc = "idle" /\ n # f
        /\ frames'[n].pc = "enter" /\ frames'[n].fn = "constructClass"
        /\ frames'[n].kids = <<>> /\ frames'[n].parent = f
        /\ frames'[n].token = frames[f].token
    BY <1>0 DEF Enters, Invoked, Started, NewFrame
  <1>2. /\ frames'[f].pc = "class" /\ frames'[f].fn = "resolve"
        /\ frames'[f].token = frames[f].token /\ frames[f].pc = "enter"
        /\ Wiring[frames[f].token].kind = "class"
    BY DEF Enters, Invoked
  <1>3. frames'[f].kids = <<n>>
    <2>1. frames[f].kids = <<>>
      BY <1>2 DEF Nested
    <2>2. frames'[f].kids = Append(frames[f].kids, n)
      BY <1>0 DEF Enters, Invoked
    <2>3. Append(<<>>, n) = <<n>>
      OBVIOUS
    <2> QED
      BY <2>1, <2>2, <2>3
  <1>4. \A g \in FrameId \ {f, n} : frames'[g] = frames[g]
    BY <1>0 DEF Enters, Invoked
  <1>5. Constructor(f, n)'
    BY <1>1, <1>2, <1>3 DEF Constructor
  <1>6. ASSUME NEW g \in FrameId \ {f, n}, NEW k \in FrameId, Constructor(g, k)
        PROVE  Constructor(g, k)'
    <2>1. k # n
      BY <1>1, <1>6 DEF Constructor
    <2>2. k # f
      BY <1>2, <1>6 DEF Constructor, Enters
    <2> QED
      BY <1>4, <1>6, <2>1, <2>2 DEF Constructor
  <1> SUFFICES ASSUME NEW g \in FrameId
               PROVE  /\ frames'[g].pc = "enter" => frames'[g].kids = <<>>
                      /\ Factory(g)' => /\ frames'[g].fn = "resolve"
                                        /\ Wiring[frames'[g].token].kind = "factory"
                      /\ frames'[g].pc = "deps" => frames'[g].fn = "constructClass"
                      /\ frames'[g].pc = "class" => \E k \in FrameId : Constructor(g, k)'
                      /\ frames'[g].fn = "constructClass" =>
                           \E q \in FrameId :
                             /\ Constructor(q, g)'
                             /\ frames'[q].fn = "resolve"
                             /\ frames'[q].pc \notin {"idle", "enter"}
                             /\ Wiring[frames'[q].token].kind = "class"
                             /\ Constructs(g)' => frames'[q].pc = "class"
    BY DEF Nested
  <1>7. CASE g = n
    BY <1>1, <1>2, <1>5, <1>7 DEF Factory
  <1>8. CASE g = f
    BY <1>1, <1>2, <1>5, <1>8 DEF Factory
  <1>9. CASE g \notin {f, n}
    <2>1. frames'[g] = frames[g]
      BY <1>4, <1>9
    <2>2. frames'[g].pc = "enter" => frames'[g].kids = <<>>
      BY <2>1 DEF Nested
    <2>3. Factory(g)' => frames'[g].fn = "resolve" /\ Wiring[frames'[g].token].kind = "factory"
      BY <2>1 DEF Nested, Factory
    <2>4. frames'[g].pc = "deps" => frames'[g].fn = "constructClass"
      BY <2>1 DEF Nested
    <2>5. frames'[g].pc = "class" => \E k \in FrameId : Constructor(g, k)'
      BY <1>6, <1>9, <2>1 DEF Nested
    <2>6. ASSUME frames'[g].fn = "constructClass"
          PROVE  \E q \in FrameId :
                   /\ Constructor(q, g)'
                   /\ frames'[q].fn = "resolve" /\ frames'[q].pc \notin {"idle", "enter"}
                   /\ Wiring[frames'[q].token].kind = "class"
                   /\ Constructs(g)' => frames'[q].pc = "class"
      <3>1. PICK q \in FrameId :
              /\ Constructor(q, g)
              /\ frames[q].fn = "resolve" /\ frames[q].pc \notin {"idle", "enter"}
              /\ Wiring[frames[q].token].kind = "class"
              /\ Constructs(g) => frames[q].pc = "class"
        BY <2>1, <2>6 DEF Nested
      <3>2. q \notin {f, n}
        BY <1>1, <1>2, <3>1
      <3>3. Constructs(g)' <=> Constructs(g)
        BY <2>1 DEF Constructs
      <3> QED
        BY <1>4, <1>6, <1>9, <3>1, <3>2, <3>3
    <2> QED
      BY <2>2, <2>3, <2>4, <2>5, <2>6
  <1> QED
    BY <1>7, <1>8, <1>9

LEMMA ShapeNested ==
  ASSUME Nested, MachineOK, NEW f \in FrameId, Shape(f)
  PROVE  Nested'
  <1>Fails. CASE Fails(f)
    <2>1. frames[f].pc = "class" => \A k \in FrameId : Constructor(f, k) => ~Constructs(k)
      BY <1>Fails DEF Fails, Constructor, Constructs
    <2> QED
      BY <1>Fails, <2>1, TurnedNested DEF Fails
  <1>Answered. CASE Answered(f)
    BY <1>Answered, TurnedNested DEF Answered
  <1>Enters. CASE Enters(f)
    BY <1>Enters, EntersNested
  <1>Makes. CASE Makes(f)
    BY <1>Makes, TurnedNested DEF Makes, Constructs
  <1>Stores. CASE Stores(f)
    <2>1. \A k \in FrameId : Constructor(f, k) => ~Constructs(k)
      BY <1>Stores DEF Stores, LastKid, Constructor, Constructs
    <2> QED
      BY <1>Stores, <2>1, TurnedNested DEF Stores
  <1>Progresses. ASSUME NEW pc \in {"inject", "awaitAll", "producing"}, Progresses(f, pc)
                 PROVE  Nested'
    BY SMTT(30), <1>Progresses, TurnedNested DEF Progresses, Nested, Factory
  <1>Asks. ASSUME NEW t \in Token, Asks(f, t) PROVE Nested'
    <2>1. PICK pc : /\ Invoked(f, pc, "resolve", t) /\ Builds(f)
                    /\ IF Constructs(f) THEN pc = "deps" ELSE pc = frames[f].pc
      BY <1>Asks DEF Asks, Builds, Factory, Constructs
    <2>2. /\ Started(calls + 1, "resolve", t, f) /\ f # calls + 1
          /\ \A g \in FrameId \ {f, calls + 1} : frames'[g] = frames[g]
      BY <2>1 DEF Invoked
    <2> QED
      BY <2>1, <2>2, StartedNested
  <1> QED
    BY <1>Fails, <1>Answered, <1>Enters, <1>Makes, <1>Stores, <1>Progresses, <1>Asks DEF Shape

LEMMA NestedStep ==
  ASSUME Bootstrapped, IInv, Plain, Nested, [Next]_vars
  PROVE  Nested'
  <1>0. MachineOK
    BY Parts
  <1>1. CASE UNCHANGED <<frames, calls>>
    <2>1. /\ \A f, k \in FrameId : Constructor(f, k)' <=> Constructor(f, k)
          /\ \A f \in FrameId : (Factory(f)' <=> Factory(f)) /\ (Constructs(f)' <=> Constructs(f))
      BY <1>1 DEF Constructor, Factory, Constructs
    <2> QED
      BY <1>1, <2>1 DEF Nested
  <1>2. ASSUME NEW t \in Token, Starts(t) PROVE Nested'
    <2>1. 0 \notin FrameId /\ calls \in Nat /\ 0 # calls + 1
      BY <1>0, WiringAssumption DEF FrameId, MachineOK
    <2>2. \A g \in FrameId \ {0, calls + 1} : frames'[g] = frames[g]
      BY <1>2 DEF Starts
    <2>3. Started(calls + 1, "resolve", t, None)
      BY <1>2 DEF Starts
    <2> QED
      BY <1>0, <2>1, <2>2, <2>3, StartedNested
  <1> QED
    BY <1>0, <1>1, <1>2, Shapes, ShapeNested DEF Supplies, Stays

LEMMA PlainStep ==
  ASSUME Bootstrapped, IInv, Plain, Nested, [Next]_vars
  PROVE  Plain'
  <1>1. UNCHANGED providers
    BY Shapes
  <1>2. \A pc \in {"ok", "failed", "inject", "awaitAll", "producing", "class", "deps", "enter"} :
          pc \notin {"early", "adopt", "store"}
    OBVIOUS
  <1>3. ASSUME NEW f \in FrameId, NEW pc, NEW o, Turned(f, pc, o),
               pc \in {"ok", "failed", "inject", "awaitAll", "producing"}
        PROVE  \A g \in FrameId : /\ frames'[g].pc \notin {"early", "adopt", "store"}
                                  /\ frames'[g].fn # "resolveClass"
    BY <1>3 DEF Turned, Plain
  <1>4. ASSUME NEW f \in FrameId, NEW pc \in {"class", "inject", "deps"}, NEW t,
               NEW fn \in {"resolve", "constructClass"}, Invoked(f, pc, fn, t)
        PROVE  \A g \in FrameId : /\ frames'[g].pc \notin {"early", "adopt", "store"}
                                  /\ frames'[g].fn # "resolveClass"
    <2>1. frames'[calls + 1].pc = "enter" /\ frames'[calls + 1].fn = fn
      BY <1>4 DEF Invoked, Started, NewFrame
    <2> QED
      BY <1>4, <2>1 DEF Invoked, Plain
  <1>5. ASSUME NEW t, Starts(t)
        PROVE  \A g \in FrameId : /\ frames'[g].pc \notin {"early", "adopt", "store"}
                                  /\ frames'[g].fn # "resolveClass"
    <2>1. frames'[calls + 1].pc = "enter" /\ frames'[calls + 1].fn = "resolve"
      BY <1>5 DEF Starts, Started, NewFrame
    <2> QED
      BY <1>5, <2>1 DEF Starts, Plain
  <1>6. ASSUME NEW f \in FrameId, Shape(f)
        PROVE  \A g \in FrameId : /\ frames'[g].pc \notin {"early", "adopt", "store"}
                                  /\ frames'[g].fn # "resolveClass"
    BY <1>3, <1>4, <1>6
    DEF Shape, Fails, Answered, Enters, Makes, Stores, Progresses, Asks
  <1>7. \A g \in FrameId : /\ frames'[g].pc \notin {"early", "adopt", "store"}
                           /\ frames'[g].fn # "resolveClass"
    BY <1>5, <1>6, Shapes DEF Plain, Supplies, Stays
  <1> QED
    BY <1>1, <1>7 DEF Plain

(* One call at most builds the object of a token, and only for the call    *)
(* that holds it.                                                          *)
LEMMA OneBuilder ==
  ASSUME Nested, LockDiscipline, NEW f \in FrameId, NEW g \in FrameId,
         Builds(f), frames[g].token = frames[f].token
  PROVE  /\ Builds(g) => f = g
         /\ \A k \in FrameId : frames[g].pc = "class" /\ Constructor(g, k) => k = f
  <1>1. ASSUME NEW h \in FrameId, Factory(h)
        PROVE  Holding(h) /\ Wiring[frames[h].token].kind = "factory"
    BY <1>1 DEF Factory, Holding, HoldingPc, Nested
  <1>2. ASSUME NEW h \in FrameId, Constructs(h)
        PROVE  \E p \in FrameId : /\ Constructor(p, h) /\ Holding(p)
                                  /\ frames[p].token = frames[h].token
                                  /\ Wiring[frames[p].token].kind = "class"
    <2>1. frames[h].fn = "constructClass"
      BY <1>2 DEF Constructs, Nested
    <2> QED
      BY <1>2, <2>1 DEF Nested, Constructor, Holding, HoldingPc
  <1>3. ASSUME NEW p \in FrameId, NEW q \in FrameId, Holding(p), Holding(q),
               frames[p].token = frames[q].token, NEW h, NEW k,
               Constructor(p, h), Constructor(q, k)
        PROVE  h = k
    BY <1>3 DEF LockDiscipline, Constructor
  <1>4. ASSUME NEW k \in FrameId, frames[g].pc = "class", Constructor(g, k)
        PROVE  k = f /\ Wiring[frames[g].token].kind = "class"
    <2>1. Holding(g) /\ frames[k].fn = "constructClass"
      BY <1>4 DEF Holding, HoldingPc, Constructor
    <2>2. PICK p \in FrameId : Constructor(p, k) /\ Wiring[frames[p].token].kind = "class"
      BY <2>1 DEF Nested
    <2>3. frames[p].token = frames[g].token
      BY <1>4, <2>2 DEF Constructor
    <2>4. ~Factory(f)
      BY <1>1, <2>2, <2>3
    <2> QED
      BY <1>2, <1>3, <1>4, <2>1, <2>2, <2>3, <2>4 DEF Builds
  <1>5. ASSUME Builds(g) PROVE f = g
    <2>1. CASE Factory(f) /\ Factory(g)
      BY <1>1, <2>1 DEF LockDiscipline
    <2>2. CASE Constructs(f) /\ Constructs(g)
      BY <1>2, <1>3, <2>2
    <2>3. ~(Factory(f) /\ Constructs(g)) /\ ~(Factory(g) /\ Constructs(f))
      BY <1>1, <1>2
    <2> QED
      BY <1>5, <2>1, <2>2, <2>3 DEF Builds
  <1> QED
    BY <1>4, <1>5

LEMMA MadeHeap ==
  ASSUME IInv, NEW t, NEW uses, NewObject(t, uses)
  PROVE  Len(heap') = Len(heap) + 1 /\ NextObject = Len(heap) + 1 /\ Len(heap) \in Nat
         /\ \A u \in Token : instances[u] \in Nat
  <1>1. heap \in Seq([src: Token, uses: SUBSET Nat]) /\ instances \in [Token -> Nat]
    BY DEF IInv, TypeOK
  <1> QED
    BY <1>1 DEF NewObject, NextObject

(* What is stored for a class is what its constructor cached.              *)
LEMMA StoresSame ==
  ASSUME IInv, Nested, Cached, NEW f \in FrameId, Stores(f)
  PROVE  /\ instances' = instances
         /\ instances[frames[f].token] = frames[LastKid(f)].val
         /\ LastKid(f) \in FrameId
  <1>1. PICK k \in FrameId : Constructor(f, k)
    BY DEF Nested, Stores
  <1>2. LastKid(f) = k
    BY <1>1 DEF LastKid, Constructor
  <1>3. instances[frames[f].token] = frames[k].val
    BY <1>1, <1>2 DEF Cached, Stores
  <1>4. instances \in [Token -> Nat]
    BY DEF IInv, TypeOK
  <1> QED
    BY <1>2, <1>3, <1>4 DEF Stores

(* Nothing is stored, and f moves to a place where it builds nothing that  *)
(* has an object.                                                          *)
LEMMA KeptCached ==
  ASSUME Cached, Kept, NEW f \in FrameId,
         \A g \in FrameId \ {f} : frames'[g] = frames[g],
         frames'[f].token = frames[f].token,
         frames'[f].pc \notin {"ok", "class"},
         Builds(f)' => Builds(f) \/ instances[frames[f].token] = None
  PROVE  Cached'
  <1>1. ASSUME NEW g \in FrameId, NEW k \in FrameId, frames'[g].pc = "class",
               Constructor(g, k)', frames'[k].pc = "ok"
        PROVE  instances[frames'[g].token] = frames'[k].val
    <2>1. g # f /\ k # f
      BY <1>1
    <2>2. frames'[g] = frames[g] /\ frames'[k] = frames[k]
      BY <2>1
    <2> QED
      BY <1>1, <2>2 DEF Cached, Constructor
  <1>2. ASSUME NEW g \in FrameId, Builds(g)' PROVE instances[frames'[g].token] = None
    <2>1. CASE g = f
      BY <1>2, <2>1 DEF Cached
    <2>2. CASE g # f
      BY <1>2, <2>2 DEF Cached, Builds, Factory, Constructs
    <2> QED
      BY <2>1, <2>2
  <1>3. ASSUME NEW g \in FrameId, frames'[g].pc = "ok" PROVE frames'[g].val \in 1..Len(heap)
    BY <1>3 DEF Cached
  <1> QED
    BY <1>1, <1>2, <1>3 DEF Cached, Kept

LEMMA ShapeCached ==
  ASSUME IInv, LockDiscipline, Nested, Cached, Nested', NEW f \in FrameId, Shape(f)
  PROVE  Cached'
  <1>0. /\ \A t \in Token : instances[t] \in Nat
        /\ \A g \in FrameId : frames[g].token \in Token
        /\ Len(heap) \in Nat
    BY DEF IInv, TypeOK, Frame
  <1>1. ASSUME NEW pc \in {"failed", "inject", "awaitAll", "producing"}, NEW o,
               Turned(f, pc, o), Kept,
               pc = "failed" \/ Factory(f) \/ instances[frames[f].token] = None
        PROVE  Cached'
    <2>1. Builds(f)' => Builds(f) \/ instances[frames[f].token] = None
      BY <1>1 DEF Turned, Builds, Factory, Constructs
    <2>2. /\ frames'[f].token = frames[f].token /\ frames'[f].pc = pc
          /\ \A g \in FrameId \ {f} : frames'[g] = frames[g]
      BY <1>1 DEF Turned
    <2> QED
      BY <1>1, <2>1, <2>2, KeptCached
  <1>Fails. CASE Fails(f)
    BY <1>Fails, <1>1 DEF Fails
  <1>Progresses. ASSUME NEW pc \in {"inject", "awaitAll", "producing"}, Progresses(f, pc)
                 PROVE  Cached'
    BY <1>Progresses, <1>1 DEF Progresses, Factory
  <1>2. ASSUME Kept, NEW o \in 1..Len(heap), Turned(f, "ok", o),
               \A p \in FrameId : Constructor(p, f) => instances[frames[p].token] = o
        PROVE  Cached'
    <2>1. /\ frames'[f].token = frames[f].token /\ frames'[f].pc = "ok" /\ frames'[f].val = o
          /\ \A g \in FrameId \ {f} : frames'[g] = frames[g]
          /\ frames'[f].fn = frames[f].fn /\ frames'[f].parent = frames[f].parent
          /\ frames'[f].kids = frames[f].kids
          /\ instances' = instances /\ heap' = heap
      BY <1>2 DEF Turned, Kept
    <2>2. \A g \in FrameId : Builds(g)' => Builds(g)
      BY <2>1 DEF Builds, Factory, Constructs
    <2>3. ASSUME NEW g \in FrameId, NEW k \in FrameId, frames'[g].pc = "class",
                 Constructor(g, k)', frames'[k].pc = "ok"
          PROVE  instances[frames'[g].token] = frames'[k].val
      <3>1. g # f /\ frames[g].pc = "class" /\ frames'[g].token = frames[g].token
        BY <2>1, <2>3
      <3>2. CASE k = f
        <4>1. \E h \in FrameId : Constructor(g, h)
          BY <3>1 DEF Nested
        <4>2. Constructor(g, f)
          BY <2>1, <2>3, <3>1, <3>2, <4>1 DEF Constructor
        <4> QED
          BY <1>2, <2>1, <3>1, <3>2, <4>2
      <3>3. CASE k # f
        BY <2>1, <2>3, <3>1, <3>3 DEF Cached, Constructor
      <3> QED
        BY <3>2, <3>3
    <2>4. \A g \in FrameId : frames'[g].pc = "ok" => frames'[g].val \in 1..Len(heap)
      BY <1>2, <2>1 DEF Cached
    <2>5. \A g \in FrameId : Builds(g)' => instances[frames'[g].token] = None
      BY <2>1, <2>2 DEF Cached
    <2> QED
      BY <2>1, <2>3, <2>4, <2>5 DEF Cached
  <1>Answered. CASE Answered(f)
    <2>0. PICK o : o = instances[frames[f].token]
      OBVIOUS
    <2>1. o \in 1..Len(heap)
      BY <1>0, <2>0, <1>Answered DEF Answered, Cached, None
    <2>2. \A p \in FrameId : Constructor(p, f) => instances[frames[p].token] = o
      BY <2>0 DEF Constructor
    <2>3. Turned(f, "ok", o) /\ Kept
      BY <2>0, <1>Answered DEF Answered
    <2> QED
      BY <1>2, <2>1, <2>2, <2>3
  <1>Stores. CASE Stores(f)
    <2> DEFINE o == frames[LastKid(f)].val
    <2>1. /\ instances' = instances /\ instances[frames[f].token] = o
          /\ LastKid(f) \in FrameId
      BY <1>Stores, StoresSame
    <2>2. o \in 1..Len(heap)
      BY <2>1, <1>Stores DEF Stores, Cached
    <2>3. \A p \in FrameId : Constructor(p, f) => instances[frames[p].token] = o
      BY <2>1 DEF Constructor
    <2>4. Turned(f, "ok", o) /\ Kept
      BY <2>1, <1>Stores DEF Stores, Kept
    <2> QED
      BY <1>2, <2>2, <2>3, <2>4
  <1>Makes. CASE Makes(f)
    <2> DEFINE t == frames[f].token
               o == Len(heap) + 1
    <2>1. Builds(f) /\ t \in Token
      BY <1>0, <1>Makes DEF Makes, Builds, Factory
    <2>2. Len(heap') = o /\ NextObject = o /\ o \in Nat
      BY <1>0, <1>Makes, MadeHeap DEF Makes
    <2>3. /\ frames'[f].pc = "ok" /\ frames'[f].val = o /\ frames'[f].token = t
          /\ frames'[f].fn = frames[f].fn /\ frames'[f].parent = frames[f].parent
          /\ frames'[f].kids = frames[f].kids
          /\ \A g \in FrameId \ {f} : frames'[g] = frames[g]
      BY <1>Makes, <2>2 DEF Makes, Turned
    <2>4. instances' = [instances EXCEPT ![t] = o] /\ instances \in [Token -> Nat]
      BY <1>Makes, <2>2 DEF Makes, IInv, TypeOK
    <2>5. instances'[t] = o /\ \A u \in Token \ {t} : instances'[u] = instances[u]
      BY <2>1, <2>4
    <2>6. \A u \in Token : instances'[u] <= Len(heap')
      BY <1>0, <2>2, <2>5 DEF Cached
    <2>7. \A g \in FrameId : frames'[g].pc = "ok" => frames'[g].val \in 1..Len(heap')
      BY <1>0, <2>2, <2>3 DEF Cached
    <2>8. ASSUME NEW g \in FrameId, Builds(g)' PROVE instances'[frames'[g].token] = None
      <3>1. g # f /\ frames'[g] = frames[g]
        BY <2>3, <2>8 DEF Builds, Factory, Constructs
      <3>2. Builds(g)
        BY <2>8, <3>1 DEF Builds, Factory, Constructs
      <3>3. frames[g].token # t
        BY <2>1, <3>1, <3>2, OneBuilder
      <3> QED
        BY <1>0, <2>5, <3>1, <3>2, <3>3 DEF Cached
    <2>9. ASSUME NEW g \in FrameId, NEW k \in FrameId, frames'[g].pc = "class",
                 Constructor(g, k)', frames'[k].pc = "ok"
          PROVE  instances'[frames'[g].token] = frames'[k].val
      <3>1. g # f /\ frames'[g] = frames[g] /\ frames[g].pc = "class"
        BY <2>3, <2>9
      <3>2. PICK h \in FrameId : Constructor(g, h)
        BY <3>1 DEF Nested
      <3>3. k = h
        BY <2>9, <3>1, <3>2 DEF Constructor
      <3>4. CASE frames[g].token = t
        <4>1. k = f
          BY <2>1, <3>1, <3>2, <3>3, <3>4, OneBuilder
        <4> QED
          BY <2>3, <2>5, <3>1, <3>4, <4>1
      <3>5. CASE frames[g].token # t
        <4>1. k # f
          BY <3>2, <3>3, <3>5 DEF Constructor
        <4> QED
          BY <1>0, <2>3, <2>5, <2>9, <3>1, <3>2, <3>3, <3>5, <4>1 DEF Cached
      <3> QED
        BY <3>4, <3>5
    <2> QED
      BY <2>6, <2>7, <2>8, <2>9 DEF Cached
  <1>Enters. CASE Enters(f)
    <2>0. PICK n : n = calls + 1
      OBVIOUS
    <2>1. /\ frames'[f].pc = "class" /\ frames'[f].token = frames[f].token
          /\ frames'[f].kids = Append(frames[f].kids, n)
          /\ n \in FrameId /\ n # f
          /\ frames'[n].pc = "enter" /\ frames'[n].token = frames[f].token
          /\ \A g \in FrameId \ {f, n} : frames'[g] = frames[g]
          /\ frames[f].pc = "enter" /\ instances[frames[f].token] = None /\ Kept
      BY <1>Enters, <2>0 DEF Enters, Invoked, Started, NewFrame
    <2>2. frames'[f].kids = <<n>>
      <3>1. frames[f].kids = <<>> /\ Append(<<>>, n) = <<n>>
        BY <2>1 DEF Nested
      <3> QED
        BY <2>1, <3>1
    <2>3. ASSUME NEW g \in FrameId, Builds(g)' PROVE instances[frames'[g].token] = None
      <3>1. g # f
        BY <2>1, <2>3 DEF Builds, Factory, Constructs
      <3>2. CASE g = n
        BY <2>1, <3>2
      <3>3. CASE g # n
        BY <2>1, <2>3, <3>1, <3>3 DEF Cached, Builds, Factory, Constructs
      <3> QED
        BY <3>2, <3>3
    <2>4. ASSUME NEW g \in FrameId, NEW k \in FrameId, frames'[g].pc = "class",
                 Constructor(g, k)', frames'[k].pc = "ok"
          PROVE  instances[frames'[g].token] = frames'[k].val
      <3>1. k \notin {f, n}
        BY <2>1, <2>4
      <3>2. g \notin {f, n}
        BY <2>1, <2>2, <2>4, <3>1 DEF Constructor
      <3> QED
        BY <2>1, <2>4, <3>1, <3>2 DEF Cached, Constructor
    <2>5. \A g \in FrameId : frames'[g].pc = "ok" => frames'[g].val \in 1..Len(heap)
      BY <2>1 DEF Cached
    <2> QED
      BY <2>1, <2>3, <2>4, <2>5 DEF Cached, Kept
  <1>Asks. ASSUME NEW t \in Token, Asks(f, t) PROVE Cached'
    <2>0. PICK n : n = calls + 1
      OBVIOUS
    <2>1. PICK pc \in {"inject", "deps"} : Invoked(f, pc, "resolve", t) /\ Kept /\ Builds(f)
      BY <1>Asks DEF Asks, Builds, Factory, Constructs
    <2>2. /\ n \in FrameId /\ frames'[n].pc = "enter" /\ frames'[n].fn = "resolve"
          /\ frames[n].pc = "idle"
          /\ frames'[f].pc = pc /\ frames'[f].token = frames[f].token
          /\ \A g \in FrameId \ {f, n} : frames'[g] = frames[g]
      BY <2>0, <2>1 DEF Invoked, Started, NewFrame
    <2>3. ASSUME NEW g \in FrameId, Builds(g)' PROVE instances[frames'[g].token] = None
      <3>1. g # n
        BY <2>2, <2>3 DEF Builds, Factory, Constructs
      <3>2. CASE g = f
        BY <2>1, <2>2, <3>2 DEF Cached
      <3>3. CASE g # f
        BY <2>2, <2>3, <3>1, <3>3 DEF Cached, Builds, Factory, Constructs
      <3> QED
        BY <3>2, <3>3
    <2>4. ASSUME NEW g \in FrameId, NEW k \in FrameId, frames'[g].pc = "class",
                 Constructor(g, k)', frames'[k].pc = "ok"
          PROVE  instances[frames'[g].token] = frames'[k].val
      <3>1. k \notin {f, n} /\ g \notin {f, n}
        BY <2>2, <2>4
      <3> QED
        BY <2>2, <2>4, <3>1 DEF Cached, Constructor
    <2>5. \A g \in FrameId : frames'[g].pc = "ok" => frames'[g].val \in 1..Len(heap)
      BY <2>2 DEF Cached
    <2> QED
      BY <2>1, <2>3, <2>4, <2>5 DEF Cached, Kept
  <1> QED
    BY <1>Fails, <1>Answered, <1>Enters, <1>Makes, <1>Stores, <1>Progresses, <1>Asks DEF Shape

LEMMA CachedStep ==
  ASSUME Bootstrapped, IInv, LockDiscipline, Plain, Nested, Cached, [Next]_vars
  PROVE  Cached'
  <1>0. /\ instances \in [Token -> Nat] /\ Len(heap) \in Nat /\ calls \in Nat
        /\ \A g \in FrameId : frames[g].token \in Token
    BY DEF IInv, TypeOK, Frame
  <1>1. CASE Stays
    <2>1. /\ \A f, k \in FrameId : Constructor(f, k)' <=> Constructor(f, k)
          /\ \A f \in FrameId : Builds(f)' <=> Builds(f)
      BY <1>1 DEF Stays, Constructor, Builds, Factory, Constructs
    <2> QED
      BY <1>1, <2>1 DEF Cached, Stays, Kept
  <1>2. ASSUME NEW t \in Token, Starts(t) PROVE Cached'
    <2>0. PICK n : n = calls + 1
      OBVIOUS
    <2>1. /\ n \in FrameId /\ frames'[n].pc = "enter" /\ frames'[n].fn = "resolve"
          /\ \A g \in FrameId \ {n} : frames'[g] = frames[g]
          /\ Kept
      BY <1>2, <2>0 DEF Starts, Started, NewFrame
    <2>2. \A g \in FrameId : Builds(g)' => g # n /\ Builds(g)
      BY <2>1 DEF Builds, Factory, Constructs
    <2>3. \A g, k \in FrameId : /\ frames'[g].pc = "class" => g # n
                                /\ frames'[k].pc = "ok" => k # n
                                /\ g # n /\ k # n /\ Constructor(g, k)' => Constructor(g, k)
      BY <2>1 DEF Constructor
    <2> QED
      BY <2>1, <2>2, <2>3 DEF Cached, Kept
  <1>3. ASSUME NEW t \in LateValue, Supplies(t) PROVE Cached'
    <2>1. Wiring[t].kind = "none" /\ t \in Token
      BY WiringAssumption DEF Bootstrapped
    <2>2. Len(heap') = Len(heap) + 1 /\ NextObject = Len(heap) + 1
      BY <1>3, MadeHeap DEF Supplies
    <2>3. /\ instances'[t] = Len(heap) + 1
          /\ \A u \in Token \ {t} : instances'[u] = instances[u]
          /\ frames' = frames
      BY <1>0, <1>3, <2>1, <2>2 DEF Supplies
    <2>4. \A u \in Token : instances'[u] <= Len(heap')
      BY <1>0, <2>2, <2>3 DEF Cached
    <2>5. ASSUME NEW f \in FrameId, Builds(f) PROVE frames[f].token # t
      <3>1. CASE Factory(f)
        BY <2>1, <3>1 DEF Nested
      <3>2. CASE Constructs(f)
        <4>1. frames[f].fn = "constructClass"
          BY <3>2 DEF Constructs, Nested
        <4>2. PICK p \in FrameId : Constructor(p, f) /\ Wiring[frames[p].token].kind = "class"
          BY <4>1 DEF Nested
        <4> QED
          BY <2>1, <4>2 DEF Constructor
      <3> QED
        BY <2>5, <3>1, <3>2 DEF Builds
    <2>6. ASSUME NEW f \in FrameId, NEW k \in FrameId, Constructor(f, k) PROVE frames[f].token # t
      <3>1. frames[k].fn = "constructClass"
        BY <2>6 DEF Constructor
      <3>2. PICK p \in FrameId : Constructor(p, k) /\ Wiring[frames[p].token].kind = "class"
        BY <3>1 DEF Nested
      <3> QED
        BY <2>1, <2>6, <3>2 DEF Constructor
    <2>7. /\ \A f, k \in FrameId : Constructor(f, k)' <=> Constructor(f, k)
          /\ \A f \in FrameId : Builds(f)' <=> Builds(f)
      BY <2>3 DEF Constructor, Builds, Factory, Constructs
    <2>8. \A f \in FrameId : frames'[f].pc = "ok" => frames'[f].val \in 1..Len(heap')
      BY <1>0, <2>2, <2>3 DEF Cached
    <2>9. \A f \in FrameId : Builds(f)' => instances'[frames'[f].token] = None
      BY <1>0, <2>3, <2>5, <2>7 DEF Cached
    <2>10. \A f, k \in FrameId :
             frames'[f].pc = "class" /\ Constructor(f, k)' /\ frames'[k].pc = "ok" =>
               instances'[frames'[f].token] = frames'[k].val
      BY <1>0, <2>3, <2>6, <2>7 DEF Cached
    <2> QED
      BY <2>4, <2>8, <2>9, <2>10 DEF Cached
  <1>4. Nested'
    BY NestedStep
  <1> QED
    BY <1>1, <1>2, <1>3, <1>4, Shapes, ShapeCached

LEMMA FrameCount ==
  /\ Cardinality(Succeeded) \in 0..MaxFrames
  /\ \A f \in FrameId : frames[f].pc # "ok" =>
       /\ Cardinality(Succeeded \cup {f}) = Cardinality(Succeeded) + 1
       /\ Cardinality(Succeeded) + 1 <= MaxFrames
  <1> USE WiringAssumption
  <1>1. IsFiniteSet(FrameId) /\ Cardinality(FrameId) = MaxFrames
    BY FS_Interval DEF FrameId
  <1>2. Succeeded \subseteq FrameId
    BY DEF Succeeded
  <1>3. IsFiniteSet(Succeeded) /\ Cardinality(Succeeded) \in 0..MaxFrames
    BY <1>1, <1>2, FS_Subset, FS_CardinalityType
  <1>4. ASSUME NEW f \in FrameId, frames[f].pc # "ok"
        PROVE  /\ Cardinality(Succeeded \cup {f}) = Cardinality(Succeeded) + 1
               /\ Cardinality(Succeeded) + 1 <= MaxFrames
    <2>1. f \notin Succeeded
      BY <1>4 DEF Succeeded
    <2>2. Cardinality(Succeeded \cup {f}) = Cardinality(Succeeded) + 1
      BY <1>3, <2>1, FS_AddElement
    <2>3. Succeeded \cup {f} \subseteq FrameId
      BY <1>2
    <2>4. Cardinality(Succeeded \cup {f}) <= Cardinality(FrameId)
      BY <1>1, <2>3, FS_Subset
    <2> QED
      BY <1>1, <2>2, <2>4
  <1> QED
    BY <1>3, <1>4

LEMMA CountedStep ==
  ASSUME Bootstrapped, IInv, Plain, Nested, Counted, [Next]_vars
  PROVE  Counted'
  <1> USE LateAssumption
  <1>0. Len(heap) \in Nat /\ late \in Nat /\ Cardinality(Succeeded) \in Nat
    BY FrameCount DEF IInv, TypeOK
  <1>1. ASSUME NEW f \in FrameId, frames[f].pc # "ok", NEW pc, NEW o, Turned(f, pc, o)
        PROVE  Succeeded' = IF pc = "ok" THEN Succeeded \cup {f} ELSE Succeeded
    <2>1. frames'[f].pc = pc /\ \A g \in FrameId \ {f} : frames'[g] = frames[g]
      BY <1>1 DEF Turned
    <2> QED
      BY <1>1, <2>1 DEF Succeeded
  <1>2. ASSUME NEW f \in FrameId, frames[f].pc # "ok", NEW pc, pc # "ok", NEW fn, NEW t,
               Invoked(f, pc, fn, t)
        PROVE  Succeeded' = Succeeded
    <2>0. PICK n : n = calls + 1
      OBVIOUS
    <2>1. /\ frames'[f].pc = pc /\ frames'[n].pc = "enter" /\ frames[n].pc = "idle"
          /\ \A g \in FrameId \ {f, n} : frames'[g] = frames[g]
      BY <1>2, <2>0 DEF Invoked, Started, NewFrame
    <2> QED
      BY <1>2, <2>1 DEF Succeeded
  <1>3. ASSUME NEW t, Starts(t) PROVE Succeeded' = Succeeded
    <2>0. PICK n : n = calls + 1
      OBVIOUS
    <2>1. /\ frames'[n].pc = "enter" /\ frames[n].pc = "idle"
          /\ \A g \in FrameId \ {n} : frames'[g] = frames[g]
      BY <1>3, <2>0 DEF Starts, Started, NewFrame
    <2> QED
      BY <2>1 DEF Succeeded
  <1>4. ASSUME NEW f \in FrameId, Shape(f), late' = late PROVE Counted'
    <2>1. frames[f].pc # "ok"
      BY <1>4 DEF Shape, Fails, Answered, Enters, Makes, Constructs, Stores, Progresses, Asks
    <2>2. Cardinality(Succeeded \cup {f}) = Cardinality(Succeeded) + 1
      BY <2>1, FrameCount
    <2>3. CASE Makes(f)
      <3>1. Len(heap') = Len(heap) + 1
        BY <2>3, MadeHeap DEF Makes
      <3>2. Succeeded' = Succeeded \cup {f}
        BY <1>1, <2>1, <2>3 DEF Makes
      <3> QED
        BY <1>0, <1>4, <2>2, <3>1, <3>2 DEF Counted
    <2>4. CASE Stores(f)
      <3>1. Succeeded' = Succeeded \cup {f} /\ heap' = heap
        BY <1>1, <2>1, <2>4 DEF Stores
      <3> QED
        BY <1>0, <1>4, <2>2, <3>1 DEF Counted
    <2>5. CASE Answered(f)
      <3>1. Succeeded' = Succeeded \cup {f} /\ heap' = heap
        BY <1>1, <2>1, <2>5 DEF Answered, Kept
      <3> QED
        BY <1>0, <1>4, <2>2, <3>1 DEF Counted
    <2>6. ASSUME Fails(f) \/ Enters(f) \/ (\E t \in Token : Asks(f, t))
                 \/ (\E pc \in {"inject", "awaitAll", "producing"} : Progresses(f, pc))
          PROVE  Counted'
      <3>1. heap' = heap
        BY <2>6 DEF Fails, Enters, Asks, Progresses, Kept
      <3>2. Succeeded' = Succeeded
        <4>1. CASE Fails(f)
          BY <1>1, <2>1, <4>1 DEF Fails
        <4>2. CASE Enters(f)
          BY <1>2, <2>1, <4>2 DEF Enters
        <4>3. ASSUME NEW t, Asks(f, t) PROVE Succeeded' = Succeeded
          BY <1>2, <2>1, <4>3 DEF Asks
        <4>4. ASSUME NEW pc \in {"inject", "awaitAll", "producing"}, Progresses(f, pc)
              PROVE  Succeeded' = Succeeded
          BY <1>1, <2>1, <4>4 DEF Progresses
        <4> QED
          BY <2>6, <4>1, <4>2, <4>3, <4>4
      <3> QED
        BY <1>4, <3>1, <3>2 DEF Counted
    <2> QED
      BY <1>4, <2>3, <2>4, <2>5, <2>6 DEF Shape
  <1>5. ASSUME NEW t, Supplies(t), late' = late + 1 PROVE Counted'
    <2>1. Len(heap') = Len(heap) + 1 /\ Succeeded' = Succeeded /\ late < MaxLate
      BY <1>5, MadeHeap DEF Supplies, Succeeded
    <2> QED
      BY <1>0, <1>5, <2>1 DEF Counted
  <1>6. CASE Stays /\ late' = late
    BY <1>6 DEF Stays, Kept, Counted, Succeeded
  <1>7. ASSUME NEW t, Starts(t), late' = late PROVE Counted'
    BY <1>3, <1>7 DEF Starts, Kept, Counted
  <1> QED
    BY <1>4, <1>5, <1>6, <1>7, Shapes

LEMMA InitSInv == Bootstrapped /\ Init => Plain /\ Nested /\ Cached /\ Counted
  <1> SUFFICES ASSUME Init PROVE Plain /\ Nested /\ Cached /\ Counted
    OBVIOUS
  <1>1. /\ \A f \in FrameId : frames[f].pc = "idle" /\ frames[f].fn = "resolve"
        /\ \A t \in Token : instances[t] = 0
        /\ heap = <<>> /\ late = 0 /\ providers = Wiring
    BY DEF Init, NewFrame, None
  <1>2. Len(heap) = 0
    BY <1>1
  <1>3. Plain /\ Nested
    BY <1>1 DEF Plain, Nested, Factory, Constructs
  <1>4. Cached
    BY <1>1, <1>2 DEF Cached, Builds, Factory, Constructs
  <1>5. Counted
    BY <1>1, <1>2, FrameCount, LateAssumption DEF Counted
  <1> QED
    BY <1>3, <1>4, <1>5

LEMMA SInvStep == Bootstrapped /\ SInv /\ [Next]_vars => Plain' /\ Nested' /\ Cached' /\ Counted'
  BY PlainStep, NestedStep, CachedStep, CountedStep DEF SInv

LEMMA AlwaysSInv == ASSUME Bootstrapped PROVE Spec => []SInv
  <1>1. Init => SInv
    BY InitIInv, InitSInv, InitLock DEF SInv
  <1>2. SInv /\ [Next]_vars => SInv'
    BY IInvStep, LockStep, SInvStep DEF SInv
  <1> QED
    BY <1>1, <1>2, PTL DEF Spec

-----------------------------------------------------------------------------
(* The container implements ServiceStore.                                  *)

(* What the callers have been answered, in the terms of ServiceStore.      *)
Answers ==
  [f \in FrameId |->
     IF frames[f].pc = "ok"
     THEN [token |-> frames[f].token, obj |-> frames[f].val]
     ELSE [token |-> "none", obj |-> None]]

LEMMA NoNewAnswer ==
  ASSUME \A f \in FrameId : /\ frames'[f].pc = "ok" <=> frames[f].pc = "ok"
                            /\ frames[f].pc = "ok" => /\ frames'[f].token = frames[f].token
                                                      /\ frames'[f].val = frames[f].val
  PROVE  Answers' = Answers
  BY DEF Answers

(* A frame that ends well answers its caller.                              *)
LEMMA TurnedAnswer ==
  ASSUME NEW f \in FrameId, NEW o, frames[f].pc # "ok", Turned(f, "ok", o)
  PROVE  /\ Answers[f] = [token |-> "none", obj |-> None]
         /\ Answers' = [Answers EXCEPT ![f] = [token |-> frames[f].token, obj |-> o]]
  <1>1. Answers[f] = [token |-> "none", obj |-> None]
    BY DEF Answers
  <1>2. /\ frames'[f].pc = "ok" /\ frames'[f].val = o /\ frames'[f].token = frames[f].token
        /\ \A g \in FrameId \ {f} : frames'[g] = frames[g]
    BY DEF Turned
  <1>3. \A g \in FrameId :
          Answers'[g] = IF g = f THEN [token |-> frames[f].token, obj |-> o] ELSE Answers[g]
    BY <1>2 DEF Answers
  <1> QED
    BY <1>1, <1>3 DEF Answers

LEMMA StoreStep ==
  ASSUME Bootstrapped, SInv, [Next]_vars
  PROVE  Store!Next \/ UNCHANGED <<instances, Answers>>
  <1> USE LateAssumption
  <1>0. /\ instances \in [Token -> Nat] /\ Len(heap) \in Nat /\ late \in Nat
        /\ \A f \in FrameId : frames[f].token \in Token
        /\ MaxFrames \in Nat
    BY WiringAssumption DEF SInv, IInv, TypeOK, Frame
  <1>1. ASSUME NEW f \in FrameId, frames[f].pc # "ok"
        PROVE  NextObject \in 1..(MaxFrames + MaxLate)
    <2>1. Cardinality(Succeeded) \in Nat /\ Cardinality(Succeeded) + 1 <= MaxFrames
      <3>1. Cardinality(Succeeded) \in 0..MaxFrames
        BY FrameCount
      <3>2. Cardinality(Succeeded) + 1 <= MaxFrames
        BY <1>1, FrameCount
      <3> QED
        BY <1>0, <3>1, <3>2
    <2>2. Len(heap) <= Cardinality(Succeeded) + late /\ late <= MaxLate
      BY DEF SInv, Counted
    <2> QED
      BY <1>0, <2>1, <2>2 DEF NextObject
  <1>2. Store!Fresh(NextObject)
    BY <1>0 DEF Store!Fresh, Store!None, SInv, Cached, NextObject
  <1>3. ASSUME NEW f \in FrameId, Shape(f)
        PROVE  Store!Next \/ UNCHANGED <<instances, Answers>>
    <2>1. frames[f].pc # "ok" /\ frames[f].token \in Token
      BY <1>0, <1>3
      DEF Shape, Fails, Answered, Enters, Makes, Constructs, Stores, Progresses, Asks
    <2>2. ASSUME NEW o, Turned(f, "ok", o), o = instances[frames[f].token], o # None,
                 instances' = instances
          PROVE  Store!Give(f, frames[f].token)
      BY <2>1, <2>2, TurnedAnswer
      DEF Store!Give, Store!Answer, Store!Unanswered, Store!None, Answers, None
    <2>3. CASE Answered(f)
      <3>1. PICK o : o = instances[frames[f].token]
        OBVIOUS
      <3>2. Store!Give(f, frames[f].token)
        BY <2>2, <2>3, <3>1 DEF Answered, Kept
      <3> QED
        BY <2>1, <3>2 DEF Store!Next
    <2>4. CASE Stores(f)
      <3>1. PICK o : o = frames[LastKid(f)].val
        OBVIOUS
      <3>2. o = instances[frames[f].token] /\ instances' = instances
            /\ LastKid(f) \in FrameId
        BY <2>4, <3>1, StoresSame DEF SInv
      <3>3. o # None
        <4>1. LastKid(f) \in FrameId /\ frames[LastKid(f)].pc = "ok"
          BY <2>4, <3>2 DEF Stores
        <4>2. o \in 1..Len(heap)
          BY <3>1, <4>1 DEF SInv, Cached
        <4> QED
          BY <1>0, <4>2 DEF None
      <3>4. Turned(f, "ok", o)
        BY <2>4, <3>1 DEF Stores
      <3> QED
        BY <2>1, <2>2, <3>2, <3>3, <3>4 DEF Store!Next
    <2>5. CASE Makes(f)
      <3>1. PICK o : o = NextObject
        OBVIOUS
      <3>2. Turned(f, "ok", o) /\ instances' = [instances EXCEPT ![frames[f].token] = o]
        BY <2>5, <3>1 DEF Makes
      <3>3. instances[frames[f].token] = None
        BY <2>5 DEF Makes, SInv, Cached, Builds, Factory
      <3>4. Store!Build(f, frames[f].token, o)
        BY <1>2, <2>1, <3>1, <3>2, <3>3, TurnedAnswer
        DEF Store!Build, Store!Answer, Store!Unanswered, Store!None, Answers, None
      <3> QED
        BY <1>1, <2>1, <3>1, <3>4 DEF Store!Next
    <2>6. ASSUME NEW pc, NEW o, pc # "ok", Turned(f, pc, o), Kept
          PROVE  UNCHANGED <<instances, Answers>>
      <3>1. \A g \in FrameId : /\ frames'[g].pc = "ok" <=> frames[g].pc = "ok"
                               /\ frames[g].pc = "ok" => /\ frames'[g].token = frames[g].token
                                                         /\ frames'[g].val = frames[g].val
        BY <2>1, <2>6 DEF Turned
      <3> QED
        BY <2>6, <3>1, NoNewAnswer DEF Kept
    <2>7. ASSUME NEW pc, NEW fn, NEW t, pc # "ok", Invoked(f, pc, fn, t), Kept
          PROVE  UNCHANGED <<instances, Answers>>
      <3>0. PICK n : n = calls + 1
        OBVIOUS
      <3>1. /\ frames'[f].pc = pc /\ frames'[n].pc = "enter" /\ frames[n].pc = "idle"
            /\ \A g \in FrameId \ {f, n} : frames'[g] = frames[g]
        BY <2>7, <3>0 DEF Invoked, Started, NewFrame
      <3>2. \A g \in FrameId : /\ frames'[g].pc = "ok" <=> frames[g].pc = "ok"
                               /\ frames[g].pc = "ok" => /\ frames'[g].token = frames[g].token
                                                         /\ frames'[g].val = frames[g].val
        BY <2>1, <2>7, <3>1
      <3> QED
        BY <2>7, <3>2, NoNewAnswer DEF Kept
    <2>8. ASSUME Fails(f) \/ Enters(f) \/ (\E t \in Token : Asks(f, t))
                 \/ (\E pc \in {"inject", "awaitAll", "producing"} : Progresses(f, pc))
          PROVE  UNCHANGED <<instances, Answers>>
      <3>1. CASE Fails(f)
        BY <2>6, <3>1 DEF Fails
      <3>2. CASE Enters(f)
        BY <2>7, <3>2 DEF Enters
      <3>3. ASSUME NEW t, Asks(f, t) PROVE UNCHANGED <<instances, Answers>>
        BY <2>7, <3>3 DEF Asks
      <3>4. ASSUME NEW pc \in {"inject", "awaitAll", "producing"}, Progresses(f, pc)
            PROVE  UNCHANGED <<instances, Answers>>
        BY <2>6, <3>4 DEF Progresses
      <3> QED
        BY <2>8, <3>1, <3>2, <3>3, <3>4
    <2> QED
      BY <1>3, <2>3, <2>4, <2>5, <2>8 DEF Shape
  <1>4. ASSUME NEW t \in LateValue, Supplies(t) PROVE Store!Next
    <2>1. PICK o : o = NextObject
      OBVIOUS
    <2>2. o \in 1..(MaxFrames + MaxLate)
      <3>1. Cardinality(Succeeded) \in 0..MaxFrames
        BY FrameCount
      <3>2. Len(heap) <= Cardinality(Succeeded) + late /\ late < MaxLate /\ o = Len(heap) + 1
        BY <1>4, <2>1 DEF SInv, Counted, Supplies, NextObject
      <3> QED
        BY <1>0, <3>1, <3>2
    <2>3. Answers' = Answers
      BY <1>4 DEF Supplies, Answers
    <2>4. Store!Supply(t, o)
      BY <1>2, <1>4, <2>1, <2>3 DEF Store!Supply, Supplies, Answers
    <2> QED
      BY <2>2, <2>4 DEF Store!Next
  <1>5. ASSUME NEW t, Starts(t) PROVE UNCHANGED <<instances, Answers>>
    <2>0. PICK n : n = calls + 1
      OBVIOUS
    <2>1. /\ frames'[n].pc = "enter" /\ frames[n].pc = "idle"
          /\ \A g \in FrameId \ {n} : frames'[g] = frames[g]
      BY <1>5, <2>0 DEF Starts, Started, NewFrame
    <2>2. \A g \in FrameId : /\ frames'[g].pc = "ok" <=> frames[g].pc = "ok"
                             /\ frames[g].pc = "ok" => /\ frames'[g].token = frames[g].token
                                                       /\ frames'[g].val = frames[g].val
      BY <2>1
    <2> QED
      BY <1>5, <2>2, NoNewAnswer DEF Starts, Kept
  <1>6. CASE Stays
    BY <1>6 DEF Stays, Kept, Answers
  <1> QED
    BY <1>3, <1>4, <1>5, <1>6, Shapes DEF SInv

(* In a bootstrapped container a token's object is built at most once, and *)
(* every call that asks for the token, whatever it interleaves with, is    *)
(* answered with that object.                                              *)
THEOREM StoreImplemented == ASSUME Bootstrapped PROVE Spec => ImplementsStore
  <1>1. Init => Store!Init
    <2> SUFFICES ASSUME Init PROVE Store!Init
      OBVIOUS
    <2>1. \A f \in FrameId : frames[f].pc = "idle"
      BY DEF Init, NewFrame
    <2> QED
      BY <2>1 DEF Init, Store!Init, Store!Unanswered, Store!None, None
  <1>2. SInv /\ [Next]_vars => Store!Next \/ UNCHANGED <<instances, Answers>>
    BY StoreStep
  <1>3. SInv /\ [Next]_vars => [Store!Next]_<<instances, Answers>>
    BY <1>2
  <1> QED
    BY <1>1, <1>3, AlwaysSInv, PTL DEF Spec, ImplementsStore, Store!Spec, Answers

(* In a bootstrapped container no class is being constructed twice at      *)
(* once, so no call of a cycle ever waits for itself.                      *)
THEOREM CyclesCorrect == ASSUME Bootstrapped PROVE Spec => []CyclesDetected
  <1>1. SInv => CyclesDetected
    <2> SUFFICES ASSUME SInv, NEW f \in 1..calls, NEW g \in 1..calls,
                        g \in Ancestors[f] \ {f},
                        frames[f].token = frames[g].token,
                        frames[f].pc = "deps", frames[g].pc = "deps"
                 PROVE  FALSE
      BY DEF CyclesDetected
    <2>1. f \in FrameId /\ g \in FrameId /\ f # g
      BY WiringAssumption DEF SInv, IInv, TypeOK, FrameId
    <2>2. Builds(f) /\ Builds(g)
      BY DEF Builds, Constructs
    <2> QED
      BY <2>1, <2>2, OneBuilder DEF SInv
  <1> QED
    BY <1>1, AlwaysSInv, PTL

-----------------------------------------------------------------------------
(* closeAll's order.                                                       *)

(* A container whose only closers of classes are methods of their objects, *)
(* closed once.  A class provider's onClose is tracked when the call that  *)
(* holds its token resumes, after objects made in the meantime: then, and  *)
(* when a second closeAll starts from an emptied stack, the order is not   *)
(* that of construction.                                                   *)
ClosedOnce ==
  /\ \A t \in Token : Wiring[t].kind = "class" => ~Wiring[t].onClose
  /\ MaxClose \in {0, 1}

(* Until closeAll, closers are tracked in the order their objects were     *)
(* made, so an object comes after all it was given.                        *)
Ordered ==
  /\ closes <= MaxClose
  /\ \A f \in FrameId : /\ frames[f].val <= Len(heap)
                        /\ frames[f].pc = "class" => ~frames[f].provider.onClose
  /\ \A o \in 1..Len(heap) : \A u \in heap[o].uses : u < o
  /\ \A t \in Token : instances[t] # None => heap[instances[t]].src = t
  /\ closes = 0 =>
       /\ \A t \in Token : instances[t] # None /\ t \in HasClose => t \in tracked
       /\ \A i \in DOMAIN closeStack : closeStack[i].obj \in 1..Len(heap)
       /\ \A i, j \in DOMAIN closeStack : i < j => closeStack[i].obj < closeStack[j].obj
       /\ ~closing.active /\ closing.left = <<>>
  /\ \A i \in DOMAIN closing.left : closing.left[i].obj \in 1..Len(heap)
  /\ \A i, j \in DOMAIN closing.left : i < j => closing.left[j].obj < closing.left[i].obj

LEMMA OrderedMeansSafe == ASSUME IInv, Ordered PROVE DependentsCloseFirst
  <1> SUFFICES ASSUME NEW i \in DOMAIN closing.left, NEW j \in DOMAIN closing.left, i < j,
                      closing.left[i].obj \in heap[closing.left[j].obj].uses
               PROVE  FALSE
    BY DEF DependentsCloseFirst
  <1>1. closing.left[j].obj < closing.left[i].obj
    BY DEF Ordered
  <1>2. closing.left[j].obj \in 1..Len(heap)
    BY DEF Ordered
  <1>3. closing.left[i].obj < closing.left[j].obj
    BY <1>2 DEF Ordered
  <1>4. closing.left[i].obj \in 1..Len(heap)
    BY DEF Ordered
  <1> QED
    BY <1>1, <1>2, <1>3, <1>4

Untouched == Kept /\ UNCHANGED <<closeStack, tracked, closing, closes>>

(* An object of t is made, cached and tracked.                             *)
Added(t, uses, hook) ==
  /\ NewObject(t, uses)
  /\ instances' = [instances EXCEPT ![t] = NextObject]
  /\ Track(t, NextObject, t, hook)
  /\ UNCHANGED <<closing, closes>>

StoredAndTracked(f) ==
  /\ Stores(f)
  /\ LET o == frames[LastKid(f)].val IN
     Track(frames[f].token, o, heap[o].src, frames[f].provider.onClose)
  /\ UNCHANGED <<closing, closes>>

LEMMA CloserShapes ==
  ASSUME Bootstrapped, IInv, Plain, [Next]_vars
  PROVE  \/ Untouched
         \/ \E t \in Token, f \in FrameId, hook \in BOOLEAN :
              Added(t, {}, hook) \/ Added(t, Given(f), hook)
         \/ \E f \in FrameId : StoredAndTracked(f)
         \/ CloseAll \/ CloseOne \/ CloseDone
  <1>0. MachineOK /\ \A f \in FrameId : frames[f].token \in Token
                                        /\ frames[f].provider.onClose \in BOOLEAN
    BY Parts DEF IInv, TypeOK, Frame, Provider
  <1>1. 1 \in FrameId
    BY WiringAssumption DEF FrameId
  <1>2. ASSUME NEW f \in FrameId, Synchronous(f), ~ConstructLeaf(f) PROVE Untouched
    <2>1. ~EnterUnregistered(f) /\ ~ReleaseEarly(f) /\ ~EnterValue(f)
      BY <1>0, WiringAssumption
      DEF EnterUnregistered, ReleaseEarly, EnterValue, Plain, Bootstrapped, ProviderOf
    <2> QED
      BY <1>2, <2>1
      DEF Synchronous, EnterCached, EnterCircular, EnterMissing, EnterClass, EnterFactory,
          InjectNext, InjectAll, ConstructRefused, ConstructLeafThrows, ConstructBegin,
          Untouched, Kept, store, rest
  <1>3. ASSUME NEW f \in FrameId, ConstructLeaf(f) \/ ConstructFinish(f)
        PROVE  Added(frames[f].token, Given(f), FALSE)
    BY <1>3 DEF ConstructLeaf, ConstructFinish, Instantiate, Added, rest
  <1>4. ASSUME NEW f \in FrameId, FactoryReturns(f)
        PROVE  Added(frames[f].token, Given(f), frames[f].provider.onClose)
    BY <1>4 DEF FactoryReturns, Added, rest
  <1>5. ASSUME NEW f \in FrameId, StoreClass(f) PROVE StoredAndTracked(f)
    <2>1. LastKid(f) \in FrameId /\ frames[LastKid(f)].val \in Nat
      BY <1>0, <1>5, KidOK DEF StoreClass, Resumed, MachineOK, Frame
    <2>2. Turned(f, "ok", frames[LastKid(f)].val)
      BY <1>0, <1>5, <2>1, OkTurned DEF StoreClass, Continue
    <2> QED
      BY <1>5, <2>2 DEF StoreClass, Resumed, Stores, StoredAndTracked, rest
  <1>6. ASSUME NEW f \in FrameId, Continuation(f), ~ConstructFinish(f), ~FactoryReturns(f),
               ~StoreClass(f)
        PROVE  Untouched
    <2>1. ~Adopt(f) /\ ~StoreValue(f)
      BY DEF Adopt, StoreValue, Resumed, Plain
    <2> QED
      BY <1>6, <2>1
      DEF Continuation, Produce, Reject, FactoryThrows, ConstructNext, ConstructThrows,
          ConstructReject, Untouched, Kept, store, rest
  <1>7. ASSUME NEW t \in Token, RegisterValue(t) PROVE Added(t, {}, FALSE)
    BY <1>7 DEF RegisterValue, Added
  <1>8. ASSUME NEW t, Call("resolve", t) PROVE Untouched
    BY <1>8 DEF Call, Untouched, Kept, store, rest
  <1>9. CASE UNCHANGED vars
    BY <1>9 DEF vars, Untouched, Kept
  <1>10. ~(\E t \in Direct : Call("resolveClass", t)) /\ ~(\E r \in Late : Register(r[1], r[2]))
    BY DEF Bootstrapped
  <1>11. CASE System
    <2>1. ASSUME NEW f \in FrameId, Synchronous(f) \/ Continuation(f)
          PROVE  \/ Untouched
                 \/ \E t \in Token, g \in FrameId, hook \in BOOLEAN : Added(t, Given(g), hook)
                 \/ \E g \in FrameId : StoredAndTracked(g)
      <3>1. CASE ConstructLeaf(f) \/ ConstructFinish(f)
        <4>1. Added(frames[f].token, Given(f), FALSE) /\ frames[f].token \in Token
          BY <1>0, <1>3, <3>1
        <4> QED
          BY <4>1
      <3>2. CASE FactoryReturns(f)
        <4>1. PICK t \in Token, hook \in BOOLEAN : Added(t, Given(f), hook)
          BY <1>0, <1>4, <3>2
        <4> QED
          BY <4>1
      <3>3. CASE StoreClass(f)
        BY <1>5, <3>3
      <3>4. CASE ~ConstructLeaf(f) /\ ~ConstructFinish(f) /\ ~FactoryReturns(f) /\ ~StoreClass(f)
        BY <1>2, <1>6, <2>1, <3>4
      <3> QED
        BY <3>1, <3>2, <3>3, <3>4
    <2> QED
      BY <1>11, <2>1 DEF System
  <1>12. CASE Environment
    <2>1. LateValue \subseteq Token
      BY WiringAssumption
    <2> QED
      BY <1>1, <1>7, <1>8, <1>10, <1>12, <2>1 DEF Environment
  <1> QED
    BY <1>9, <1>11, <1>12 DEF Next

(* The values frames hold are objects, and only the provider of a class    *)
(* is that of a frame that waits for one.                                  *)
LEMMA FramesOrdered ==
  ASSUME Bootstrapped, ClosedOnce, SInv, Ordered, [Next]_vars
  PROVE  \A f \in FrameId : /\ frames'[f].val <= Len(heap')
                            /\ frames'[f].pc = "class" => ~frames'[f].provider.onClose
  <1>0. /\ Len(heap) \in Nat
        /\ \A f \in FrameId : frames[f].val \in Nat /\ frames[f].token \in Token
        /\ \A t \in Token : instances[t] <= Len(heap)
    BY DEF SInv, IInv, TypeOK, Frame, Cached
  <1>1. Len(heap') >= Len(heap)
    <2>1. heap' = heap \/ Len(heap') = Len(heap) + 1
      BY MadeHeap, Shapes
      DEF SInv, Shape, Stays, Supplies, Starts, Fails, Answered, Enters, Makes, Stores,
          Progresses, Asks, Kept
    <2> QED
      BY <1>0, <2>1
  <1>2. ASSUME NEW f \in FrameId, NEW pc, pc # "class", NEW o, o <= Len(heap'), o \in Nat,
               Turned(f, pc, o)
        PROVE  \A g \in FrameId : /\ frames'[g].val <= Len(heap')
                                  /\ frames'[g].pc = "class" => ~frames'[g].provider.onClose
    <2>1. frames'[f].val = o /\ frames'[f].pc = pc
      BY <1>2 DEF Turned
    <2>2. ASSUME NEW g \in FrameId \ {f} PROVE frames'[g] = frames[g] /\ frames[g].val <= Len(heap')
      BY <1>0, <1>1, <1>2 DEF Turned, Ordered
    <2> QED
      BY <1>2, <2>1, <2>2 DEF Ordered
  <1>3. ASSUME NEW f \in FrameId, NEW pc, NEW fn, NEW t, Invoked(f, pc, fn, t),
               pc = "class" => ~frames'[f].provider.onClose
        PROVE  \A g \in FrameId : /\ frames'[g].val <= Len(heap')
                                  /\ frames'[g].pc = "class" => ~frames'[g].provider.onClose
    <2>0. PICK n : n = calls + 1
      OBVIOUS
    <2>1. /\ frames'[f].val = frames[f].val /\ frames'[f].pc = pc
          /\ frames'[n].val = 0 /\ frames'[n].pc = "enter"
          /\ \A g \in FrameId \ {f, n} : frames'[g] = frames[g]
      BY <1>3, <2>0 DEF Invoked, Started, NewFrame, None
    <2>2. ASSUME NEW g \in FrameId PROVE frames[g].val <= Len(heap') /\ 0 <= Len(heap')
      BY <1>0, <1>1 DEF Ordered
    <2> QED
      BY <1>3, <2>1, <2>2 DEF Ordered
  <1>4. ASSUME NEW f \in FrameId, Shape(f)
        PROVE  \A g \in FrameId : /\ frames'[g].val <= Len(heap')
                                  /\ frames'[g].pc = "class" => ~frames'[g].provider.onClose
    <2>1. CASE Fails(f)
      <3>1. PICK o : o = frames[f].val
        OBVIOUS
      <3> QED
        BY <1>0, <1>1, <1>2, <2>1, <3>1 DEF Fails, Ordered
    <2>2. CASE Answered(f)
      <3>1. PICK o : o = instances[frames[f].token]
        OBVIOUS
      <3>2. o <= Len(heap') /\ o \in Nat
        BY <1>0, <2>2, <3>1 DEF Answered, Kept, SInv, IInv, TypeOK
      <3> QED
        BY <1>2, <2>2, <3>1, <3>2 DEF Answered
    <2>3. CASE Enters(f)
      BY <1>0, <1>3, <2>3 DEF Enters, ClosedOnce
    <2>4. CASE Makes(f)
      <3>1. PICK o : o = NextObject
        OBVIOUS
      <3>2. o <= Len(heap') /\ o \in Nat
        BY <1>0, <2>4, <3>1, MadeHeap DEF SInv, Makes
      <3> QED
        BY <1>2, <2>4, <3>1, <3>2 DEF Makes
    <2>5. CASE Stores(f)
      <3>1. PICK o : o = frames[LastKid(f)].val
        OBVIOUS
      <3>2. LastKid(f) \in FrameId
        BY <2>5, StoresSame DEF SInv
      <3>3. o <= Len(heap') /\ o \in Nat
        BY <1>0, <1>1, <3>1, <3>2 DEF Ordered
      <3> QED
        BY <1>2, <2>5, <3>1, <3>3 DEF Stores
    <2>6. ASSUME NEW pc \in {"inject", "awaitAll", "producing"}, Progresses(f, pc)
          PROVE  \A g \in FrameId : /\ frames'[g].val <= Len(heap')
                                    /\ frames'[g].pc = "class" => ~frames'[g].provider.onClose
      <3>1. PICK o : o = frames[f].val
        OBVIOUS
      <3> QED
        BY <1>0, <1>1, <1>2, <2>6, <3>1 DEF Progresses, Ordered
    <2>7. ASSUME NEW t, Asks(f, t)
          PROVE  \A g \in FrameId : /\ frames'[g].val <= Len(heap')
                                    /\ frames'[g].pc = "class" => ~frames'[g].provider.onClose
      BY <1>3, <2>7 DEF Asks
    <2> QED
      BY <1>4, <2>1, <2>2, <2>3, <2>4, <2>5, <2>6, <2>7 DEF Shape
  <1>5. ASSUME NEW t, Starts(t)
        PROVE  \A g \in FrameId : /\ frames'[g].val <= Len(heap')
                                  /\ frames'[g].pc = "class" => ~frames'[g].provider.onClose
    <2>0. PICK n : n = calls + 1
      OBVIOUS
    <2>1. /\ frames'[n].val = 0 /\ frames'[n].pc = "enter"
          /\ \A g \in FrameId \ {n} : frames'[g] = frames[g]
      BY <1>5, <2>0 DEF Starts, Started, NewFrame, None
    <2>2. ASSUME NEW g \in FrameId PROVE frames[g].val <= Len(heap') /\ 0 <= Len(heap')
      BY <1>0, <1>1 DEF Ordered
    <2> QED
      BY <2>1, <2>2 DEF Ordered
  <1>6. CASE UNCHANGED frames
    <2>1. ASSUME NEW g \in FrameId PROVE frames[g].val <= Len(heap')
      BY <1>0, <1>1 DEF Ordered
    <2> QED
      BY <1>6, <2>1 DEF Ordered
  <1> QED
    BY <1>4, <1>5, <1>6, Shapes DEF SInv, Stays, Supplies

(* An object of t is added: it comes after everything made before it.      *)
LEMMA AddedOrdered ==
  ASSUME SInv, Ordered, NEW t \in Token, NEW uses, NEW hook \in BOOLEAN, Added(t, uses, hook),
         \A u \in uses : u \in Nat /\ u <= Len(heap),
         \A f \in FrameId : /\ frames'[f].val <= Len(heap')
                            /\ frames'[f].pc = "class" => ~frames'[f].provider.onClose
  PROVE  Ordered'
  <1>0. /\ heap \in Seq([src: Token, uses: SUBSET Nat]) /\ Len(heap) \in Nat
        /\ instances \in [Token -> Nat] /\ closeStack \in Seq(Entry)
        /\ \A u \in Token : instances[u] \in 0..Len(heap)
    BY DEF SInv, IInv, TypeOK, Cached
  <1>1. PICK n : n = Len(heap) + 1
    OBVIOUS
  <1>2. /\ Len(heap') = n /\ n \in Nat
        /\ \A o \in 1..Len(heap) : heap'[o] = heap[o]
        /\ heap'[n] = [src |-> t, uses |-> uses]
    BY <1>0, <1>1 DEF Added, NewObject
  <1>3. /\ instances'[t] = n /\ \A u \in Token \ {t} : instances'[u] = instances[u]
    BY <1>0, <1>1 DEF Added, NextObject
  <1>4. \A o \in 1..Len(heap') : \A u \in heap'[o].uses : u < o
    <2>1. ASSUME NEW o \in 1..Len(heap'), NEW u \in heap'[o].uses PROVE u < o
      <3>1. CASE o = n
        BY <1>0, <1>1, <1>2, <2>1, <3>1
      <3>2. CASE o # n
        <4>1. o \in 1..Len(heap)
          BY <1>0, <1>1, <1>2, <2>1, <3>2
        <4> QED
          BY <1>2, <2>1, <4>1 DEF Ordered
      <3> QED
        BY <3>1, <3>2
    <2> QED
      BY <2>1
  <1>5. \A u \in Token : instances'[u] # None => heap'[instances'[u]].src = u
    <2>1. ASSUME NEW u \in Token, u # t, instances'[u] # None PROVE heap'[instances'[u]].src = u
      <3>1. instances[u] \in 1..Len(heap)
        BY <1>0, <1>3, <2>1 DEF None
      <3> QED
        BY <1>2, <1>3, <2>1, <3>1 DEF Ordered
    <2>2. heap'[instances'[t]].src = t
      BY <1>2, <1>3
    <2> QED
      BY <2>1, <2>2
  <1>6. ASSUME closes = 0
        PROVE  /\ \A u \in Token : instances'[u] # None /\ u \in HasClose => u \in tracked'
               /\ \A i \in DOMAIN closeStack' : closeStack'[i].obj \in 1..Len(heap')
               /\ \A i, j \in DOMAIN closeStack' : i < j => closeStack'[i].obj < closeStack'[j].obj
    <2>1. /\ \A i \in DOMAIN closeStack : closeStack[i].obj \in 1..Len(heap)
          /\ \A i, j \in DOMAIN closeStack : i < j => closeStack[i].obj < closeStack[j].obj
          /\ \A u \in Token : instances[u] # None /\ u \in HasClose => u \in tracked
      BY <1>6 DEF Ordered
    <2>2. tracked \subseteq tracked' /\ (t \in HasClose => t \in tracked')
      BY DEF Added, Track
    <2>3. \A u \in Token : instances'[u] # None /\ u \in HasClose => u \in tracked'
      BY <1>3, <2>1, <2>2
    <2>4. CASE closeStack' = closeStack
      BY <1>0, <1>1, <1>2, <2>1, <2>3, <2>4
    <2>5. CASE closeStack' # closeStack
      <3>1. PICK e \in Entry : e.obj = n /\ closeStack' = Append(closeStack, e)
        <4>1. [token |-> t, obj |-> n, hook |-> hook] \in Entry
          BY <1>0, <1>1 DEF Entry
        <4> QED
          BY <1>1, <2>5, <4>1 DEF Added, Track, NextObject
      <3>2. /\ DOMAIN closeStack' = 1..(Len(closeStack) + 1) /\ Len(closeStack) \in Nat
            /\ \A i \in 1..Len(closeStack) : closeStack'[i] = closeStack[i]
            /\ closeStack'[Len(closeStack) + 1] = e
            /\ DOMAIN closeStack = 1..Len(closeStack)
        BY <1>0, <3>1
      <3>3. \A i \in DOMAIN closeStack' : closeStack'[i].obj \in 1..Len(heap')
        BY <1>0, <1>1, <1>2, <2>1, <3>1, <3>2
      <3>4. ASSUME NEW i \in DOMAIN closeStack', NEW j \in DOMAIN closeStack', i < j
            PROVE  closeStack'[i].obj < closeStack'[j].obj
        <4>1. i \in DOMAIN closeStack
          BY <3>2, <3>4
        <4>2. CASE j \in DOMAIN closeStack
          BY <2>1, <3>2, <3>4, <4>1, <4>2
        <4>3. CASE j = Len(closeStack) + 1
          BY <1>0, <1>1, <2>1, <3>1, <3>2, <4>1, <4>3
        <4> QED
          BY <3>2, <4>2, <4>3
      <3> QED
        BY <2>3, <3>3, <3>4
    <2> QED
      BY <2>4, <2>5
  <1>7. \A i \in DOMAIN closing.left : closing.left[i].obj \in 1..Len(heap')
    BY <1>0, <1>1, <1>2 DEF Ordered
  <1>8. closing' = closing /\ closes' = closes
    BY DEF Added
  <1> QED
    BY <1>4, <1>5, <1>6, <1>7, <1>8 DEF Ordered

LEMMA OrderedStep ==
  ASSUME Bootstrapped, ClosedOnce, SInv, Ordered, [Next]_vars
  PROVE  Ordered'
  <1>0. /\ instances \in [Token -> Nat] /\ closeStack \in Seq(Entry) /\ Len(heap) \in Nat
        /\ closing \in [active: BOOLEAN, left: Seq(Entry)] /\ closes \in Nat
        /\ \A f \in FrameId : frames[f].val \in Nat /\ frames[f].token \in Token
                              /\ frames[f].kids \in Seq(FrameId)
    BY DEF SInv, IInv, TypeOK, Frame
  <1>1. \A f \in FrameId : /\ frames'[f].val <= Len(heap')
                           /\ frames'[f].pc = "class" => ~frames'[f].provider.onClose
    BY FramesOrdered
  <1>2. ASSUME UNCHANGED <<instances, heap, closeStack, tracked, closing, closes>>
        PROVE  Ordered'
    BY <1>1, <1>2 DEF Ordered
  <1>3. ASSUME NEW t \in Token, NEW f \in FrameId, NEW hook \in BOOLEAN, Added(t, Given(f), hook)
        PROVE  Ordered'
    <2>1. \A u \in Given(f) : u \in Nat /\ u <= Len(heap)
      <3>1. \A i \in DOMAIN frames[f].kids : frames[f].kids[i] \in FrameId
        BY <1>0
      <3> QED
        BY <1>0, <3>1 DEF Given, Ordered
    <2>2. PICK uses : uses = Given(f)
      OBVIOUS
    <2> QED
      BY <1>1, <1>3, <2>1, <2>2, AddedOrdered
  <1>4. ASSUME NEW t \in Token, NEW hook \in BOOLEAN, Added(t, {}, hook) PROVE Ordered'
    BY <1>1, <1>4, AddedOrdered
  <1>5. ASSUME NEW f \in FrameId, StoredAndTracked(f) PROVE Ordered'
    <2>1. PICK o : o = frames[LastKid(f)].val
      OBVIOUS
    <2>2. /\ instances' = instances /\ instances[frames[f].token] = o
          /\ LastKid(f) \in FrameId /\ heap' = heap
      BY <1>5, <2>1, StoresSame DEF StoredAndTracked, SInv, Stores
    <2>3. o # None
      <3>1. o \in 1..Len(heap)
        BY <1>5, <2>1, <2>2 DEF StoredAndTracked, Stores, SInv, Cached
      <3> QED
        BY <1>0, <3>1 DEF None
    <2>4. ~frames[f].provider.onClose
      BY <1>5 DEF StoredAndTracked, Stores, Ordered
    <2>5. heap[o].src = frames[f].token
      BY <1>0, <2>2, <2>3 DEF Ordered
    <2>6. CASE closes = 0
      <3>1. frames[f].token \in HasClose => frames[f].token \in tracked
        BY <1>0, <2>2, <2>3, <2>6 DEF Ordered
      <3>2. UNCHANGED <<closeStack, tracked>>
        BY <1>5, <2>1, <2>4, <2>5, <3>1 DEF StoredAndTracked, Track
      <3> QED
        BY <1>2, <1>5, <2>2, <3>2 DEF StoredAndTracked
    <2>7. CASE closes # 0
      BY <1>1, <1>5, <2>2, <2>7 DEF StoredAndTracked, Ordered
    <2> QED
      BY <2>6, <2>7
  <1>6. CASE CloseAll
    <2>1. closes = 0 /\ closes' = 1 /\ closes' <= MaxClose
      BY <1>0, <1>6 DEF CloseAll, ClosedOnce
    <2>2. /\ UNCHANGED <<instances, heap, closeStack, tracked>>
          /\ closing'.left = [i \in 1..Len(closeStack) |-> closeStack[Len(closeStack) + 1 - i]]
      BY <1>6 DEF CloseAll, store
    <2>3. Len(closeStack) \in Nat /\ DOMAIN closeStack = 1..Len(closeStack)
      BY <1>0
    <2>4. DOMAIN closing'.left = 1..Len(closeStack)
      BY <2>2
    <2>5. \A i \in DOMAIN closing'.left :
            /\ Len(closeStack) + 1 - i \in DOMAIN closeStack
            /\ closing'.left[i] = closeStack[Len(closeStack) + 1 - i]
      BY <2>2, <2>3, <2>4
    <2>6. \A i \in DOMAIN closing'.left : closing'.left[i].obj \in 1..Len(heap)
      BY <2>1, <2>5 DEF Ordered
    <2>7. ASSUME NEW i \in DOMAIN closing'.left, NEW j \in DOMAIN closing'.left, i < j
          PROVE  closing'.left[j].obj < closing'.left[i].obj
      <3>1. Len(closeStack) + 1 - j < Len(closeStack) + 1 - i
        BY <2>3, <2>4, <2>7
      <3> QED
        BY <2>1, <2>5, <3>1 DEF Ordered
    <2>8. closes' # 0
      BY <2>1
    <2> QED
      BY <1>1, <2>1, <2>2, <2>6, <2>7, <2>8 DEF Ordered
  <1>7. CASE CloseOne
    <2>1. /\ closing.left \in Seq(Entry) /\ closing.left # <<>>
          /\ closing'.left = Tail(closing.left)
          /\ UNCHANGED <<instances, heap, closeStack, tracked, closes>>
      BY <1>0, <1>7 DEF CloseOne, store
    <2>2. \A i \in DOMAIN closing'.left : i + 1 \in DOMAIN closing.left
                                          /\ closing'.left[i] = closing.left[i + 1]
      BY <2>1
    <2>3. \A i, j \in DOMAIN closing'.left : i < j => i + 1 < j + 1
      BY <2>1
    <2>4. closes # 0
      BY <2>1 DEF Ordered
    <2>5. \A i \in DOMAIN closing'.left : closing'.left[i].obj \in 1..Len(heap)
      BY <2>2 DEF Ordered
    <2>6. \A i, j \in DOMAIN closing'.left :
            i < j => closing'.left[j].obj < closing'.left[i].obj
      BY <2>2, <2>3 DEF Ordered
    <2> QED
      BY <1>1, <2>1, <2>4, <2>5, <2>6 DEF Ordered
  <1>8. CASE CloseDone
    <2>1. /\ closing'.left = closing.left /\ closing.left = <<>>
          /\ closeStack' = <<>> /\ UNCHANGED <<instances, heap, closes>> /\ closing.active
      BY <1>0, <1>8 DEF CloseDone
    <2> QED
      BY <1>1, <2>1 DEF Ordered
  <1> QED
    BY <1>2, <1>3, <1>4, <1>5, <1>6, <1>7, <1>8, CloserShapes DEF SInv, Untouched, Kept

(* In a bootstrapped container that is closed once, closeAll closes every  *)
(* object before the objects it was constructed with, however the          *)
(* resolutions interleaved.                                                *)
THEOREM ClosersInOrder ==
  ASSUME Bootstrapped, ClosedOnce PROVE Spec => []DependentsCloseFirst
  <1>1. Init => Ordered
    <2> SUFFICES ASSUME Init PROVE Ordered
      OBVIOUS
    <2>1. /\ \A f \in FrameId : frames[f].pc = "idle" /\ frames[f].val = 0
          /\ \A t \in Token : instances[t] = 0
          /\ heap = <<>> /\ closeStack = <<>> /\ closes = 0
          /\ closing.left = <<>> /\ ~closing.active
      BY DEF Init, NewFrame, None
    <2>2. Len(heap) = 0
      BY <2>1
    <2> QED
      BY <2>1, <2>2 DEF Ordered, None, ClosedOnce
  <1>2. SInv /\ Ordered /\ [Next]_vars => Ordered'
    BY OrderedStep
  <1>3. SInv /\ Ordered => DependentsCloseFirst
    BY OrderedMeansSafe DEF SInv
  <1> QED
    BY <1>1, <1>2, <1>3, AlwaysSInv, PTL DEF Spec
-----------------------------------------------------------------------------
(* What ServiceStore promises follows for the answers themselves.          *)

Agreed ==
  /\ \A t, u \in Token : instances[t] # None /\ instances[t] = instances[u] => t = u
  /\ \A f \in FrameId : Answers[f].obj # None /\ Answers[f].token \notin LateValue =>
       Answers[f].token \in Token /\ instances[Answers[f].token] = Answers[f].obj

(* Calls that succeeded were given one and the same object exactly if they *)
(* asked for the same token.                                               *)
Singletons ==
  \A f, g \in FrameId :
    /\ frames[f].pc = "ok" /\ frames[f].token \notin LateValue
    /\ frames[g].pc = "ok" /\ frames[g].token \notin LateValue
    => (frames[f].val = frames[g].val <=> frames[f].token = frames[g].token)

LEMMA StoreAgreed ==
  ASSUME Agreed, Store!Next, instances \in [Token -> Nat]
  PROVE  Agreed'
  <1>0. DOMAIN Answers = FrameId
    BY DEF Answers
  <1>1. ASSUME NEW c \in FrameId, NEW t \in Token, NEW o,
               Answers' = [Answers EXCEPT ![c] = [token |-> t, obj |-> o]],
               instances'[t] = o, \A u \in Token \ {t} : instances'[u] = instances[u],
               instances[t] = o \/ instances[t] = None, o # None,
               \A u \in Token : instances[u] = o => u = t
        PROVE  Agreed'
    <2>1. \A u, v \in Token : instances'[u] # None /\ instances'[u] = instances'[v] => u = v
      BY <1>1 DEF Agreed
    <2>2. ASSUME NEW f \in FrameId, Answers'[f].obj # None, Answers'[f].token \notin LateValue
          PROVE  Answers'[f].token \in Token /\ instances'[Answers'[f].token] = Answers'[f].obj
      <3>1. CASE f = c
        BY <1>0, <1>1, <3>1
      <3>2. CASE f # c
        <4>1. Answers'[f] = Answers[f]
          BY <1>0, <1>1, <3>2
        <4>2. Answers[f].token \in Token /\ instances[Answers[f].token] = Answers[f].obj
          BY <2>2, <4>1 DEF Agreed
        <4> QED BY <1>1, <2>2, <4>1, <4>2
      <3> QED BY <3>1, <3>2
    <2> QED BY <2>1, <2>2 DEF Agreed
  <1>2. ASSUME NEW c \in FrameId, NEW t \in Token, Store!Give(c, t) PROVE Agreed'
    <2>1. /\ instances' = instances /\ instances[t] # None
          /\ Answers' = [Answers EXCEPT ![c] = [token |-> t, obj |-> instances[t]]]
      BY <1>2 DEF Store!Give, Store!Answer, Store!None, None, Answers
    <2> QED BY <1>1, <2>1 DEF Agreed
  <1>3. ASSUME NEW c \in FrameId, NEW t \in Token, NEW o, Store!Build(c, t, o) PROVE Agreed'
    <2>1. /\ instances'[t] = o /\ (\A u \in Token \ {t} : instances'[u] = instances[u])
          /\ instances[t] = None
          /\ o # None /\ \A u \in Token : instances[u] # o
          /\ Answers' = [Answers EXCEPT ![c] = [token |-> t, obj |-> o]]
      BY <1>3 DEF Store!Build, Store!Fresh, Store!Answer, Store!None, None, Answers
    <2>2. \A u \in Token : instances[u] = o => u = t
      BY <2>1
    <2>3. instances[t] = o \/ instances[t] = None
      BY <2>1
    <2> QED BY <1>1, <2>1, <2>2, <2>3
  <1>4. ASSUME NEW t \in LateValue, NEW o, Store!Supply(t, o) PROVE Agreed'
    <2>1. /\ instances' = [instances EXCEPT ![t] = o]
          /\ o # None /\ \A u \in Token : instances[u] # o
          /\ Answers' = Answers /\ t \in Token
      BY <1>4, WiringAssumption DEF Store!Supply, Store!Fresh, Store!None, None, Answers
    <2> QED BY <2>1 DEF Agreed
  <1> QED BY <1>2, <1>3, <1>4 DEF Store!Next

(* In a bootstrapped container every call that asks for a token, of those  *)
(* nothing is supplied for later, gets one and the same object, which no   *)
(* other token has: services are singletons, however calls interleave, fail*)
(* and are made again.                                                     *)
THEOREM OneObjectPerToken == ASSUME Bootstrapped PROVE Spec => []Singletons
  <1>1. Init => Agreed
    <2> SUFFICES ASSUME Init PROVE Agreed
      OBVIOUS
    <2>1. \A f \in FrameId : frames[f].pc = "idle"
      BY DEF Init, NewFrame
    <2>2. \A t \in Token : instances[t] = None
      BY DEF Init
    <2> QED BY <2>1, <2>2 DEF Agreed, Answers
  <1>2. SInv /\ Agreed /\ [Next]_vars => Agreed'
    <2> SUFFICES ASSUME SInv, Agreed, [Next]_vars PROVE Agreed'
      OBVIOUS
    <2>1. CASE Store!Next
      BY <2>1, StoreAgreed DEF SInv, IInv, TypeOK
    <2>2. CASE UNCHANGED <<instances, Answers>>
      BY <2>2 DEF Agreed
    <2> QED BY <2>1, <2>2, StoreStep
  <1>3. SInv /\ Agreed => Singletons
    <2> SUFFICES ASSUME SInv, Agreed, NEW f \in FrameId, NEW g \in FrameId,
                        frames[f].pc = "ok", frames[f].token \notin LateValue,
                        frames[g].pc = "ok", frames[g].token \notin LateValue
                 PROVE  frames[f].val = frames[g].val <=> frames[f].token = frames[g].token
      BY DEF Singletons
    <2>1. frames[f].val # None /\ frames[g].val # None
      BY DEF SInv, Cached, None
    <2>2. /\ Answers[f].token = frames[f].token /\ Answers[f].obj = frames[f].val
          /\ Answers[g].token = frames[g].token /\ Answers[g].obj = frames[g].val
      BY DEF Answers
    <2> QED BY <2>1, <2>2 DEF Agreed
  <1> QED BY <1>1, <1>2, <1>3, AlwaysSInv, PTL DEF Spec

-----------------------------------------------------------------------------
(* Calls never wait for one another in a ring, for any wiring: frames wait *)
(* for frames started after them, and what runs is on the call stack.      *)

OnStack == {"enter", "early", "inject"}

(* How far a frame is on its way to a result.                              *)
Distance ==
  [pc \in Pc |-> CASE pc = "idle"                 -> 0
                   [] pc = "enter"                -> 1
                   [] pc \in {"adopt", "awaitAll"} -> 3
                   [] pc = "producing"            -> 4
                   [] pc \in {"ok", "failed"}     -> 5
                   [] OTHER                       -> 2]

Distinct(s) == \A i, j \in DOMAIN s : s[i] = s[j] => i = j
Names(s, f) == \E i \in DOMAIN s : s[i] = f

Orderly ==
  /\ Distinct(stack)
  /\ \A f \in FrameId :
       /\ frames[f].pc \in OnStack <=> Names(stack, f)
       /\ \A i \in DOMAIN frames[f].kids : frames[f].kids[i] \in f + 1 .. calls
       /\ frames[f].pc = "enter" => frames[f].kids = <<>>
       /\ frames[f].pc = "inject" => Len(frames[f].kids) <= Len(frames[f].provider.inject)
       /\ frames[f].pc = "deps" => Len(frames[f].kids) <= Len(DepsOf(f))

(* What a step of f does to the call stack and to how far frames are.      *)
Returning(f) ==
  /\ OnTop(f) /\ stack' = Tail(stack)
  /\ \E pc, o :
       /\ pc \in {"ok", "failed", "adopt", "store", "awaitAll", "producing"}
       /\ Turned(f, pc, o) /\ Distance[frames[f].pc] < Distance[pc]

Injecting(f) ==
  /\ OnTop(f) /\ stack' = stack /\ frames[f].pc = "enter"
  /\ frames'[f].provider \in Provider
  /\ \E o : Turned(f, "inject", o)

Resuming(f) ==
  /\ Idle /\ stack' = stack /\ frames[f].pc \notin OnStack
  /\ \E pc, o :
       /\ pc \in {"ok", "failed", "producing"}
       /\ Turned(f, pc, o) /\ Distance[frames[f].pc] < Distance[pc]

Calling(f) ==
  \E pc, fn, t :
    /\ pc \in Pc
    /\ Invoked(f, pc, fn, t)
    /\ \/ /\ OnTop(f) /\ frames[f].pc = "enter"
          /\ \/ pc = "early" /\ stack' = <<calls + 1>> \o stack
             \/ pc = "class" /\ stack' = <<calls + 1>> \o Tail(stack)
             \/ pc = "deps" /\ Len(DepsOf(f)) > 0 /\ stack' = <<calls + 1>> \o Tail(stack)
       \/ /\ OnTop(f) /\ frames[f].pc = "inject" /\ pc = "inject"
          /\ frames'[f].provider = frames[f].provider
          /\ Len(frames[f].kids) < Len(frames[f].provider.inject)
          /\ stack' = <<calls + 1>> \o stack
       \/ /\ Idle /\ frames[f].pc = "deps" /\ pc = "deps"
          /\ Len(frames[f].kids) < Len(DepsOf(f))
          /\ stack' = <<calls + 1>>

Going(f) == Returning(f) \/ Injecting(f) \/ Resuming(f) \/ Calling(f)

LEMMA DistanceIs ==
  /\ Distance["idle"] = 0 /\ Distance["enter"] = 1
  /\ Distance["early"] = 2 /\ Distance["store"] = 2 /\ Distance["class"] = 2
  /\ Distance["inject"] = 2 /\ Distance["deps"] = 2
  /\ Distance["adopt"] = 3 /\ Distance["awaitAll"] = 3 /\ Distance["producing"] = 4
  /\ Distance["ok"] = 5 /\ Distance["failed"] = 5
  BY DEF Distance, Pc, HoldingPc

LEMMA SynchronousGoing ==
  ASSUME IInv, NEW f \in FrameId, Synchronous(f)
  PROVE  Going(f)
  <1> USE WiringAssumption
  <1>0. MachineOK /\ StoreOK
    BY Parts
  <1>1. /\ frames[f] \in Frame /\ frames[f].token \in Token
        /\ frames[f].provider \in Provider /\ frames[f].kids \in Seq(FrameId)
    BY <1>0 DEF MachineOK, Frame
  <1>2. OnTop(f) /\ f <= calls
    <2>1. OnTop(f)
      BY DEF Synchronous, EnterCached, EnterCircular, EnterMissing, EnterUnregistered,
             ReleaseEarly, EnterValue, EnterClass, EnterFactory, InjectNext, InjectAll,
             ConstructRefused, ConstructLeaf, ConstructLeafThrows, ConstructBegin,
             Fresh, Uncached, Entering
    <2> QED
      BY <1>0, <2>1, Running
  <1>3. ProviderOf(f) \in Provider
    BY <1>0, <1>1 DEF ProviderOf, StoreOK
  <1>4. ASSUME NEW pc \in {"ok", "failed", "adopt", "store", "awaitAll", "producing"}, NEW o, Turned(f, pc, o),
               stack' = Tail(stack), Distance[frames[f].pc] < Distance[pc]
        PROVE  Going(f)
    BY <1>2, <1>4 DEF Going, Returning
  <1>EnterCached. CASE EnterCached(f) \/ ConstructLeaf(f)
    <2>1. PICK o \in Nat : Return(f, Ok(f, o)) /\ frames[f].pc = "enter"
      <3>1. instances[frames[f].token] \in Nat /\ NextObject \in Nat
        BY <1>0, <1>1 DEF StoreOK, NextObject
      <3> QED
        BY <3>1, <1>EnterCached DEF EnterCached, ConstructLeaf, Uncached, Entering
    <2>2. Turned(f, "ok", o)
      BY <1>0, <2>1, OkTurned DEF Return
    <2> QED
      BY <1>4, <2>1, <2>2, DistanceIs DEF Return
  <1>Failing. CASE EnterCircular(f) \/ EnterMissing(f) \/ ConstructRefused(f)
                   \/ ConstructLeafThrows(f)
    <2>1. PICK e \in Reason : Return(f, Failed(f, e)) /\ frames[f].pc = "enter"
      BY <1>Failing DEF EnterCircular, EnterMissing, ConstructRefused, ConstructLeafThrows,
                        Reason, Fresh, Uncached, Entering
    <2>2. Turned(f, "failed", frames[f].val)
      BY <1>0, <2>1, FailedTurned DEF Return
    <2> QED
      BY <1>4, <2>1, <2>2, DistanceIs DEF Return
  <1>EnterUnregistered. CASE EnterUnregistered(f)
    <2> DEFINE fr == [frames[f] EXCEPT !.pc = "early"]
    <2>1. /\ fr \in Frame /\ fr.fn = frames[f].fn /\ fr.token = frames[f].token
          /\ fr.parent = frames[f].parent /\ fr.kids = frames[f].kids
          /\ fr.val = frames[f].val /\ fr.pc = "early"
      BY <1>1 DEF Frame, Pc, HoldingPc
    <2>2. Invoke(f, fr, "constructClass", frames[f].token, stack) /\ frames[f].pc = "enter"
      BY <1>EnterUnregistered DEF EnterUnregistered, Fresh, Uncached, Entering
    <2>3. Invoked(f, fr.pc, "constructClass", frames[f].token)
      BY <1>0, <1>2, <2>1, <2>2, InvokeInvoked
    <2>4. Invoked(f, "early", "constructClass", frames[f].token)
          /\ stack' = <<calls + 1>> \o stack /\ "early" \in Pc
      BY <2>1, <2>2, <2>3 DEF Invoke, Pc, HoldingPc
    <2>5. Calling(f)
      BY <1>2, <2>2, <2>4 DEF Calling
    <2> QED
      BY <2>5 DEF Going
  <1>ReleaseEarly. CASE ReleaseEarly(f)
    <2>1. [frames[f] EXCEPT !.pc = "adopt", !.provider = frames[f].provider]
            = [frames[f] EXCEPT !.pc = "adopt"]
      BY <1>1 DEF Frame
    <2>2. Turned(f, "adopt", frames[f].val)
      BY <1>0, <1>1, <2>1, <1>ReleaseEarly, MovedTurned DEF ReleaseEarly, Return, Pc
    <2> QED
      BY <1>4, <2>2, <1>ReleaseEarly, DistanceIs DEF ReleaseEarly, Return
  <1>EnterValue. CASE EnterValue(f)
    <2>1. Turned(f, "store", frames[f].val)
      BY <1>0, <1>3, <1>EnterValue, MovedTurned DEF EnterValue, Return, Pc, HoldingPc
    <2> QED
      BY <1>4, <2>1, <1>EnterValue, DistanceIs
      DEF EnterValue, Fresh, Uncached, Entering, Return
  <1>EnterClass. CASE EnterClass(f)
    <2> DEFINE fr == [frames[f] EXCEPT !.pc = "class", !.provider = ProviderOf(f)]
    <2>1. /\ fr \in Frame /\ fr.fn = frames[f].fn /\ fr.token = frames[f].token
          /\ fr.parent = frames[f].parent /\ fr.kids = frames[f].kids
          /\ fr.val = frames[f].val /\ fr.pc = "class"
      BY <1>1, <1>3 DEF Frame, Pc, HoldingPc
    <2>2. Invoke(f, fr, "constructClass", ProviderOf(f).useClass, Tail(stack))
          /\ frames[f].pc = "enter"
      BY <1>EnterClass DEF EnterClass, Fresh, Uncached, Entering
    <2>3. Invoked(f, fr.pc, "constructClass", ProviderOf(f).useClass)
      BY <1>0, <1>2, <2>1, <2>2, InvokeInvoked
    <2>4. Invoked(f, "class", "constructClass", ProviderOf(f).useClass)
          /\ stack' = <<calls + 1>> \o Tail(stack) /\ "class" \in Pc
      BY <2>1, <2>2, <2>3 DEF Invoke, Pc, HoldingPc
    <2>5. Calling(f)
      BY <1>2, <2>2, <2>4 DEF Calling
    <2> QED
      BY <2>5 DEF Going
  <1>EnterFactory. CASE EnterFactory(f)
    <2>1. PICK pc \in {"producing", "inject"} :
            /\ frames' = [frames EXCEPT ![f] =
                            [frames[f] EXCEPT !.pc = pc, !.provider = ProviderOf(f)]]
            /\ calls' = calls
            /\ stack' = IF pc = "producing" THEN Tail(stack) ELSE stack
      BY <1>EnterFactory DEF EnterFactory, Return, Continue
    <2>2. Turned(f, pc, frames[f].val) /\ frames[f].pc = "enter"
      BY <1>0, <1>3, <2>1, <1>EnterFactory, MovedTurned
      DEF Pc, HoldingPc, EnterFactory, Fresh, Uncached, Entering
    <2>3. frames'[f].provider = ProviderOf(f)
      BY <1>0, <1>1, <2>1 DEF MachineOK, Frame
    <2>4. CASE pc = "producing"
      BY <1>4, <2>1, <2>2, <2>4, DistanceIs
    <2>5. CASE pc = "inject"
      BY <1>2, <1>3, <2>1, <2>2, <2>3, <2>5 DEF Going, Injecting
    <2> QED
      BY <2>4, <2>5
  <1>InjectNext. CASE InjectNext(f)
    <2> DEFINE t == frames[f].provider.inject[Len(frames[f].kids) + 1]
    <2>1. Invoke(f, frames[f], "resolve", t, stack) /\ frames[f].pc = "inject"
      BY <1>InjectNext DEF InjectNext
    <2>2. Invoked(f, frames[f].pc, "resolve", t) /\ frames'[f].provider = frames[f].provider
      BY <1>0, <1>1, <1>2, <2>1, InvokeInvoked
    <2>3. stack' = <<calls + 1>> \o stack /\ "inject" \in Pc
          /\ Len(frames[f].kids) < Len(frames[f].provider.inject)
      BY <2>1, <1>InjectNext DEF Invoke, InjectNext, Pc, HoldingPc
    <2>4. Calling(f)
      BY <1>2, <2>1, <2>2, <2>3 DEF Calling
    <2> QED
      BY <2>4 DEF Going
  <1>InjectAll. CASE InjectAll(f)
    <2>1. [frames[f] EXCEPT !.pc = "awaitAll", !.provider = frames[f].provider]
            = [frames[f] EXCEPT !.pc = "awaitAll"]
      BY <1>1 DEF Frame
    <2>2. Turned(f, "awaitAll", frames[f].val)
      BY <1>0, <1>1, <2>1, <1>InjectAll, MovedTurned DEF InjectAll, Return, Pc, HoldingPc
    <2> QED
      BY <1>4, <2>2, <1>InjectAll, DistanceIs DEF InjectAll, Return
  <1>ConstructBegin. CASE ConstructBegin(f)
    <2> DEFINE fr == [frames[f] EXCEPT !.pc = "deps"]
    <2>1. frames[f].token \in ClassToken /\ frames[f].pc = "enter"
      BY <1>0, <1>ConstructBegin DEF ConstructBegin, Uncached, Entering, MachineOK, FrameOK
    <2>2. DepsOf(f) \in Seq(Token) /\ DepsOf(f) # <<>>
      BY <2>1, <1>ConstructBegin DEF ConstructBegin, DepsOf
    <2>3. Len(DepsOf(f)) > 0
      BY <2>2
    <2>4. /\ fr \in Frame /\ fr.fn = frames[f].fn /\ fr.token = frames[f].token
          /\ fr.parent = frames[f].parent /\ fr.kids = frames[f].kids
          /\ fr.val = frames[f].val /\ fr.pc = "deps"
      BY <1>1 DEF Frame, Pc, HoldingPc
    <2>5. Invoke(f, fr, "resolve", DepsOf(f)[1], Tail(stack))
      BY <1>ConstructBegin DEF ConstructBegin
    <2>6. Invoked(f, fr.pc, "resolve", DepsOf(f)[1])
      BY <1>0, <1>2, <2>4, <2>5, InvokeInvoked
    <2>7. Invoked(f, "deps", "resolve", DepsOf(f)[1])
          /\ stack' = <<calls + 1>> \o Tail(stack) /\ "deps" \in Pc
      BY <2>4, <2>5, <2>6 DEF Invoke, Pc, HoldingPc
    <2>8. Calling(f)
      BY <1>2, <2>1, <2>3, <2>7 DEF Calling
    <2> QED
      BY <2>8 DEF Going
  <1> QED
    BY <1>EnterCached, <1>Failing, <1>EnterUnregistered, <1>ReleaseEarly, <1>EnterValue,
       <1>EnterClass, <1>EnterFactory, <1>InjectNext, <1>InjectAll, <1>ConstructBegin
    DEF Synchronous

LEMMA ContinuationGoing ==
  ASSUME IInv, NEW f \in FrameId, Continuation(f)
  PROVE  Going(f)
  <1> USE WiringAssumption
  <1>0. MachineOK /\ StoreOK
    BY Parts
  <1>1. /\ frames[f] \in Frame /\ frames[f].token \in Token
        /\ frames[f].provider \in Provider /\ frames[f].kids \in Seq(FrameId)
    BY <1>0 DEF MachineOK, Frame
  <1>2. Idle /\ frames[f].pc \in {"adopt", "store", "class", "awaitAll", "producing", "deps"}
    BY DEF Continuation, Adopt, StoreValue, StoreClass, Produce, Reject, FactoryReturns,
           FactoryThrows, ConstructNext, ConstructFinish, ConstructThrows,
           ConstructReject, DepReady, Resumed
  <1>3. f <= calls
    BY <1>0, <1>2, Running
  <1>4. NextObject \in Nat /\ frames[f].provider.value \in Nat
    BY <1>0, <1>1 DEF NextObject, StoreOK, Provider
  <1>5. ASSUME NEW k \in FrameId PROVE frames[k].val \in Nat /\ frames[k].err \in Reason
    BY <1>0 DEF MachineOK, Frame
  <1>6. frames[f].pc \in {"adopt", "class", "deps"} => LastKid(f) \in FrameId
    BY <1>0, KidOK
  <1>7. ASSUME NEW pc \in {"ok", "failed"}, NEW o, Turned(f, pc, o), stack' = stack
        PROVE  Going(f)
    <2>1. Distance[frames[f].pc] \in 2..4
      BY <1>2, DistanceIs
    <2>2. Distance[pc] = 5
      BY DistanceIs
    <2>3. Distance[frames[f].pc] < Distance[pc]
      BY <2>1, <2>2
    <2> QED
      BY <1>2, <1>7, <2>3 DEF Going, Resuming, OnStack
  <1>Oks. ASSUME NEW o \in Nat, Continue(f, Ok(f, o)) PROVE Going(f)
    <2>1. Turned(f, "ok", o)
      BY <1>0, <1>Oks, OkTurned DEF Continue
    <2> QED
      BY <1>7, <1>Oks, <2>1 DEF Continue
  <1>Fails. ASSUME NEW e \in Reason, Continue(f, Failed(f, e)) PROVE Going(f)
    <2>1. Turned(f, "failed", frames[f].val)
      BY <1>0, <1>Fails, FailedTurned DEF Continue
    <2> QED
      BY <1>7, <1>Fails, <2>1 DEF Continue
  <1>Adopt. CASE Adopt(f)
    <2> DEFINE k == LastKid(f)
               fr == [frames[f] EXCEPT !.pc = frames[k].pc, !.val = frames[k].val,
                                       !.err = frames[k].err]
    <2>1. k \in FrameId /\ frames[k].pc \in {"ok", "failed"}
      BY <1>6, <1>Adopt DEF Adopt, Resumed, Settled
    <2>2. frames[k].pc \in Pc /\ frames[k].val \in Nat /\ frames[k].err \in Reason
      BY <1>5, <2>1 DEF Pc
    <2>3. /\ fr \in Frame /\ fr.fn = frames[f].fn /\ fr.token = frames[f].token
          /\ fr.parent = frames[f].parent /\ fr.kids = frames[f].kids /\ fr.pc = frames[k].pc
      <3> HIDE DEF k
      <3> QED
        BY <1>1, <2>2 DEF Frame
    <2>4. Continue(f, fr)
      BY <1>Adopt DEF Adopt
    <2> HIDE DEF fr
    <2>5. Turned(f, fr.pc, fr.val)
      BY <1>0, <2>3, <2>4, SetTurned DEF Continue
    <2> QED
      BY <1>7, <2>1, <2>3, <2>4, <2>5 DEF Continue
  <1>StoreValue. CASE StoreValue(f)
    BY <1>4, <1>Oks, <1>StoreValue DEF StoreValue
  <1>StoreClass. CASE StoreClass(f)
    <2>1. LastKid(f) \in FrameId
      BY <1>6, <1>StoreClass DEF StoreClass, Resumed
    <2> QED
      BY <1>5, <1>Oks, <2>1, <1>StoreClass DEF StoreClass
  <1>Produce. CASE Produce(f)
    <2>1. [frames[f] EXCEPT !.pc = "producing", !.provider = frames[f].provider]
            = [frames[f] EXCEPT !.pc = "producing"]
      BY <1>1 DEF Frame
    <2>2. Turned(f, "producing", frames[f].val) /\ stack' = stack /\ frames[f].pc = "awaitAll"
      BY <1>0, <1>1, <2>1, <1>Produce, MovedTurned DEF Produce, Resumed, Continue, Pc, HoldingPc
    <2>3. Distance[frames[f].pc] < Distance["producing"]
      BY <2>2, DistanceIs
    <2> QED
      BY <1>2, <2>2, <2>3 DEF Going, Resuming, OnStack
  <1>Reject. CASE Reject(f)
    <2>1. PICK i \in DOMAIN frames[f].kids :
                 Continue(f, Failed(f, frames[frames[f].kids[i]].err))
      BY <1>Reject DEF Reject
    <2>2. frames[f].kids[i] \in FrameId
      BY <1>1
    <2> QED
      BY <1>5, <1>Fails, <2>1, <2>2
  <1>Throws. CASE FactoryThrows(f) \/ ConstructThrows(f)
    BY <1>Fails, <1>Throws, ReasonFacts DEF FactoryThrows, ConstructThrows
  <1>ConstructReject. CASE ConstructReject(f)
    <2>1. LastKid(f) \in FrameId
      BY <1>6, <1>ConstructReject DEF ConstructReject, Resumed
    <2> QED
      BY <1>5, <1>Fails, <2>1, <1>ConstructReject DEF ConstructReject
  <1>Makes. CASE FactoryReturns(f) \/ ConstructFinish(f)
    BY <1>4, <1>Oks, <1>Makes DEF FactoryReturns, ConstructFinish
  <1>ConstructNext. CASE ConstructNext(f)
    <2> DEFINE t == DepsOf(f)[Len(frames[f].kids) + 1]
    <2>1. Invoke(f, frames[f], "resolve", t, <<>>) /\ frames[f].pc = "deps"
          /\ Len(frames[f].kids) < Len(DepsOf(f))
      BY <1>ConstructNext DEF ConstructNext, DepReady, Resumed
    <2>2. Invoked(f, frames[f].pc, "resolve", t)
      BY <1>0, <1>1, <1>3, <2>1, InvokeInvoked
    <2>3. stack' = <<calls + 1>> /\ "deps" \in Pc
      BY <2>1 DEF Invoke, Pc
    <2> HIDE DEF t
    <2>4. Calling(f)
      BY <1>2, <2>1, <2>2, <2>3 DEF Calling
    <2> QED
      BY <2>4 DEF Going
  <1> QED
    BY <1>Adopt, <1>StoreValue, <1>StoreClass, <1>Produce, <1>Reject, <1>Throws,
       <1>ConstructReject, <1>Makes, <1>ConstructNext DEF Continuation

LEMMA Popped ==
  ASSUME NEW R, NEW s \in Seq(R), s # <<>>, Distinct(s)
  PROVE  /\ Distinct(Tail(s)) /\ ~Names(Tail(s), Head(s)) /\ Names(s, Head(s))
         /\ \A g : g # Head(s) => (Names(Tail(s), g) <=> Names(s, g))
  <1>1. /\ Len(s) \in Nat \ {0} /\ Head(s) = s[1] /\ DOMAIN s = 1..Len(s)
        /\ DOMAIN Tail(s) = 1..(Len(s) - 1)
        /\ \A i \in 1..(Len(s) - 1) : Tail(s)[i] = s[i + 1] /\ i + 1 \in 1..Len(s)
        /\ \A i \in 1..Len(s) : i = 1 \/ (i - 1 \in 1..(Len(s) - 1) /\ (i - 1) + 1 = i)
    OBVIOUS
  <1>2. PICK n : n = Len(s)
    OBVIOUS
  <1>3. PICK t : t = Tail(s)
    OBVIOUS
  <1>4. PICK h : h = Head(s)
    OBVIOUS
  <1>5. /\ n \in Nat \ {0} /\ h = s[1] /\ DOMAIN s = 1..n /\ DOMAIN t = 1..(n - 1)
        /\ \A i \in 1..(n - 1) : t[i] = s[i + 1] /\ i + 1 \in 1..n
        /\ \A i \in 1..n : i = 1 \/ (i - 1 \in 1..(n - 1) /\ (i - 1) + 1 = i)
    BY <1>1, <1>2, <1>3, <1>4
  <1>6. Distinct(t)
    <2> SUFFICES ASSUME NEW i \in 1..(n - 1), NEW j \in 1..(n - 1), t[i] = t[j] PROVE i = j
      BY <1>5 DEF Distinct
    <2>1. i + 1 = j + 1
      BY <1>5 DEF Distinct
    <2> QED BY <2>1
  <1>7. ~Names(t, h)
    <2> SUFFICES ASSUME NEW i \in 1..(n - 1), t[i] = h PROVE FALSE
      BY <1>5 DEF Names
    <2>1. i + 1 = 1
      BY <1>5 DEF Distinct
    <2> QED BY <2>1
  <1>8. Names(s, h)
    BY <1>5 DEF Names
  <1>9. ASSUME NEW g, g # h PROVE Names(t, g) <=> Names(s, g)
    <2>1. ASSUME NEW i \in 1..n, s[i] = g PROVE i # 1 /\ i - 1 \in 1..(n - 1) /\ t[i - 1] = g
      BY <1>5, <1>9, <2>1
    <2> QED BY <1>5, <2>1 DEF Names
  <1> QED BY <1>3, <1>4, <1>6, <1>7, <1>8, <1>9

LEMMA Pushed ==
  ASSUME NEW R, NEW s \in Seq(R), Distinct(s), NEW n \in R, ~Names(s, n)
  PROVE  /\ Distinct(<<n>> \o s) /\ Names(<<n>> \o s, n)
         /\ \A g : g # n => (Names(<<n>> \o s, g) <=> Names(s, g))
  <1>1. PICK t : t = <<n>> \o s
    OBVIOUS
  <1>2. PICK m : m = Len(s)
    OBVIOUS
  <1>3. /\ m \in Nat /\ DOMAIN s = 1..m /\ DOMAIN t = 1..(m + 1) /\ t[1] = n
        /\ \A i \in 1..(m + 1) : i # 1 => i - 1 \in 1..m /\ t[i] = s[i - 1]
        /\ \A i \in 1..m : i + 1 \in 1..(m + 1) /\ t[i + 1] = s[i] /\ i + 1 # 1
    BY <1>1, <1>2
  <1>4. Distinct(t)
    <2> SUFFICES ASSUME NEW i \in 1..(m + 1), NEW j \in 1..(m + 1), t[i] = t[j] PROVE i = j
      BY <1>3 DEF Distinct
    <2>1. ASSUME i # 1, j # 1 PROVE i = j
      <3>1. i - 1 \in DOMAIN s /\ j - 1 \in DOMAIN s /\ s[i - 1] = s[j - 1]
        BY <1>3, <2>1
      <3>2. i - 1 = j - 1
        BY <3>1, Zenon DEF Distinct
      <3> QED BY <3>2
    <2>2. ASSUME NEW k \in 1..(m + 1), k # 1 PROVE t[k] # n
      <3>1. k - 1 \in DOMAIN s /\ s[k - 1] = t[k]
        BY <1>3, <2>2
      <3> QED BY <3>1, Zenon DEF Names
    <2> QED BY <1>3, <2>1, <2>2
  <1>5. Names(t, n)
    BY <1>3 DEF Names
  <1>6. ASSUME NEW g, g # n PROVE Names(t, g) <=> Names(s, g)
    <2>1. ASSUME NEW i \in 1..(m + 1), t[i] = g PROVE Names(s, g)
      <3>1. i # 1
        BY <1>3, <1>6, <2>1
      <3>2. i - 1 \in DOMAIN s /\ s[i - 1] = g
        BY <1>3, <2>1, <3>1
      <3> QED BY <3>2, Zenon DEF Names
    <2>2. ASSUME NEW i \in 1..m, s[i] = g PROVE Names(t, g)
      <3>1. i + 1 \in DOMAIN t /\ t[i + 1] = g
        BY <1>3, <2>2
      <3> QED BY <3>1, Zenon DEF Names
    <2> QED BY <1>3, <2>1, <2>2 DEF Names
  <1> QED BY <1>1, <1>4, <1>5, <1>6

(* Of a frame that did not change, all that Orderly says but what the call *)
(* stack has of it.                                                        *)
Steady(f) ==
  /\ \A i \in DOMAIN frames[f].kids : frames[f].kids[i] \in f + 1 .. calls
  /\ frames[f].pc = "enter" => frames[f].kids = <<>>
  /\ frames[f].pc = "inject" => Len(frames[f].kids) <= Len(frames[f].provider.inject)
  /\ frames[f].pc = "deps" => Len(frames[f].kids) <= Len(DepsOf(f))

LEMMA OrderlyIs ==
  Orderly <=> /\ Distinct(stack)
              /\ \A f \in FrameId : (frames[f].pc \in OnStack <=> Names(stack, f)) /\ Steady(f)
  BY DEF Orderly, Steady

LEMMA SteadyStays ==
  ASSUME IInv, NEW f \in FrameId, Steady(f), frames'[f] = frames[f],
         calls' \in Nat, calls' >= calls
  PROVE  Steady(f)'
  <1>1. DepsOf(f)' = DepsOf(f)
    BY DEF DepsOf
  <1>2. calls \in Nat /\ f \in Nat
    BY WiringAssumption DEF IInv, TypeOK, FrameId
  <1>3. f + 1 .. calls \subseteq f + 1 .. calls'
    BY <1>2
  <1> QED BY <1>1, <1>3 DEF Steady

LEMMA TurnedSteady ==
  ASSUME IInv, Orderly, NEW f \in FrameId, NEW pc, NEW o, Turned(f, pc, o),
         pc \notin {"enter", "deps"},
         pc = "inject" => frames[f].pc = "enter" /\ frames'[f].provider \in Provider
  PROVE  \A g \in FrameId : Steady(g)'
  <1> TAKE g \in FrameId
  <1>1. calls' = calls /\ calls \in Nat
    BY DEF Turned, IInv, TypeOK
  <1>2. Steady(g)
    BY OrderlyIs
  <1>3. CASE g # f
    <2>1. frames'[g] = frames[g]
      BY <1>3 DEF Turned
    <2> QED BY <1>1, <1>2, <2>1, SteadyStays
  <1>4. CASE g = f
    <2>1. frames'[f].pc = pc /\ frames'[f].kids = frames[f].kids
      BY DEF Turned
    <2>2. ASSUME pc = "inject" PROVE Len(frames'[f].kids) <= Len(frames'[f].provider.inject)
      <3>1. frames'[f].kids = <<>>
        BY <1>2, <1>4, <2>1, <2>2 DEF Steady
      <3>2. PICK s : s = frames'[f].provider.inject
        OBVIOUS
      <3>3. s \in Seq(Token)
        BY <2>2, <3>2 DEF Provider
      <3> QED BY <3>1, <3>2, <3>3
    <2> QED BY <1>1, <1>2, <1>4, <2>1, <2>2 DEF Steady
  <1> QED BY <1>3, <1>4

LEMMA InvokedSteady ==
  ASSUME IInv, Orderly, NEW f \in FrameId, f <= calls, NEW pc, NEW fn, NEW t,
         Invoked(f, pc, fn, t),
         pc \in {"early", "class", "deps", "inject"},
         pc = "inject" => /\ frames'[f].provider = frames[f].provider
                          /\ Len(frames[f].kids) < Len(frames[f].provider.inject),
         pc = "deps" => Len(frames[f].kids) < Len(DepsOf(f))
  PROVE  \A g \in FrameId : Steady(g)'
  <1> TAKE g \in FrameId
  <1>1. calls' = calls + 1 /\ calls \in Nat /\ f \in Nat /\ calls + 1 \in FrameId /\ f # calls + 1
    BY WiringAssumption DEF Invoked, Started, IInv, TypeOK, FrameId
  <1>2. Steady(g)
    BY OrderlyIs
  <1>3. CASE g \notin {f, calls + 1}
    <2>1. frames'[g] = frames[g]
      BY <1>3 DEF Invoked
    <2>2. calls' \in Nat /\ calls' >= calls
      BY <1>1
    <2> QED BY <1>2, <2>1, <2>2, SteadyStays
  <1>4. CASE g = calls + 1
    <2>1. frames'[g].pc = "enter" /\ frames'[g].kids = <<>>
      BY <1>4 DEF Invoked, Started, NewFrame
    <2> QED BY <2>1 DEF Steady
  <1>5. CASE g = f
    <2>1. PICK q : q = frames[f].kids
      OBVIOUS
    <2>2. q \in Seq(FrameId)
      BY <2>1 DEF IInv, TypeOK, Frame
    <2>3. frames'[f].pc = pc /\ frames'[f].kids = Append(q, calls + 1)
      BY <2>1 DEF Invoked
    <2>4. \A i \in DOMAIN q : q[i] \in f + 1 .. calls
      BY <1>2, <1>5, <2>1 DEF Steady
    <2>5. \A i \in DOMAIN Append(q, calls + 1) : Append(q, calls + 1)[i] \in f + 1 .. calls + 1
      <3> TAKE i \in DOMAIN Append(q, calls + 1)
      <3>1. i \in DOMAIN q \/ Append(q, calls + 1)[i] = calls + 1
        BY <2>2
      <3>2. i \in DOMAIN q => Append(q, calls + 1)[i] = q[i]
        BY <2>2
      <3> QED BY <1>1, <2>4, <3>1, <3>2
    <2>6. Len(Append(q, calls + 1)) = Len(q) + 1 /\ Len(q) \in Nat
      BY <2>2
    <2>7. DepsOf(f)' = DepsOf(f)
      BY DEF DepsOf, Invoked
    <2>8. frames[f].provider.inject \in Seq(Token)
      <3>1. frames[f] \in Frame
        BY DEF IInv, TypeOK
      <3>2. frames[f].provider \in Provider
        BY <3>1, FrameType
      <3> QED BY <3>2 DEF Provider
    <2>9. pc = "inject" => Len(q) + 1 <= Len(frames'[f].provider.inject)
      BY <2>1, <2>6, <2>8
    <2>10. pc = "deps" => Len(q) + 1 <= Len(DepsOf(f))
      <3> SUFFICES ASSUME pc = "deps" PROVE Len(q) + 1 <= Len(DepsOf(f))
        OBVIOUS
      <3>1. Len(q) < Len(DepsOf(f))
        BY <2>1
      <3>2. Len(DepsOf(f)) \in Nat
        OBVIOUS
      <3> QED BY <2>6, <3>1, <3>2
    <2> QED BY <1>1, <1>5, <2>3, <2>5, <2>6, <2>7, <2>9, <2>10 DEF Steady
  <1> QED BY <1>3, <1>4, <1>5

LEMMA TopNamed ==
  ASSUME IInv, Orderly, NEW f \in FrameId, OnTop(f)
  PROVE  /\ stack \in Seq(FrameId) /\ stack # <<>> /\ f = Head(stack)
         /\ frames[f].pc \in OnStack
         /\ Distinct(Tail(stack)) /\ ~Names(Tail(stack), f)
         /\ \A g \in FrameId \ {f} : Names(Tail(stack), g) <=> frames[g].pc \in OnStack
  <1>1. stack \in Seq(1..calls) /\ stack # <<>> /\ f = Head(stack)
    BY DEF IInv, TypeOK, OnTop
  <1>2. calls \in 0..MaxFrames
    BY DEF IInv, TypeOK
  <1>3. stack \in Seq(FrameId)
    <2>1. PICK S : S = 1..calls
      OBVIOUS
    <2>2. S \subseteq FrameId /\ stack \in Seq(S)
      BY <1>1, <1>2, <2>1, WiringAssumption DEF FrameId
    <2>3. PICK n : n = Len(stack)
      OBVIOUS
    <2>4. stack \in [1..n -> S] /\ n \in Nat
      BY <2>2, <2>3
    <2>5. stack \in [1..n -> FrameId]
      BY <2>2, <2>4
    <2> QED BY <2>4, <2>5
  <1>4. /\ Distinct(Tail(stack)) /\ ~Names(Tail(stack), f) /\ Names(stack, f)
        /\ \A g : g # f => (Names(Tail(stack), g) <=> Names(stack, g))
    BY <1>1, <1>3, OrderlyIs, Popped
  <1> QED BY <1>1, <1>3, <1>4, OrderlyIs

LEMMA GoingOrderly ==
  ASSUME IInv, Orderly, NEW f \in FrameId, frames[f].pc # "idle", Going(f)
  PROVE  Orderly'
  <1> USE WiringAssumption
  <1>0. f <= calls /\ calls \in Nat
    <2>1. MachineOK
      BY Parts
    <2> QED BY <2>1, Running DEF MachineOK
  <1>1. CASE Returning(f)
    <2>1. PICK pc, o :
            /\ pc \in {"ok", "failed", "adopt", "store", "awaitAll", "producing"}
            /\ Turned(f, pc, o)
      BY <1>1 DEF Returning
    <2>2. OnTop(f) /\ stack' = Tail(stack)
      BY <1>1 DEF Returning
    <2>3. \A g \in FrameId : Steady(g)'
      BY <2>1, TurnedSteady
    <2>4. frames'[f].pc \notin OnStack /\ \A g \in FrameId \ {f} : frames'[g] = frames[g]
      BY <2>1 DEF Turned, OnStack
    <2>5. \A g \in FrameId : frames'[g].pc \in OnStack <=> Names(stack', g)
      BY <2>2, <2>4, TopNamed
    <2>6. Distinct(stack')
      BY <2>2, TopNamed
    <2> QED BY <2>3, <2>5, <2>6 DEF Orderly, Steady
  <1>2. CASE Injecting(f)
    <2>1. PICK o : Turned(f, "inject", o)
      BY <1>2 DEF Injecting
    <2>2. frames[f].pc = "enter" /\ stack' = stack /\ frames'[f].provider \in Provider
      BY <1>2 DEF Injecting
    <2>3. \A g \in FrameId : Steady(g)'
      BY <2>1, <2>2, TurnedSteady
    <2>4. frames'[f].pc \in OnStack /\ frames[f].pc \in OnStack
          /\ \A g \in FrameId \ {f} : frames'[g] = frames[g]
      BY <2>1, <2>2 DEF Turned, OnStack
    <2>5. \A g \in FrameId : frames'[g].pc \in OnStack <=> Names(stack', g)
      BY <2>2, <2>4, OrderlyIs
    <2> QED BY <2>2, <2>3, <2>5 DEF Orderly, Steady
  <1>3. CASE Resuming(f)
    <2>1. PICK pc, o : pc \in {"ok", "failed", "producing"} /\ Turned(f, pc, o)
      BY <1>3 DEF Resuming
    <2>2. frames[f].pc \notin OnStack /\ stack' = stack
      BY <1>3 DEF Resuming
    <2>3. \A g \in FrameId : Steady(g)'
      BY <2>1, TurnedSteady
    <2>4. frames'[f].pc \notin OnStack /\ \A g \in FrameId \ {f} : frames'[g] = frames[g]
      BY <2>1 DEF Turned, OnStack
    <2>5. \A g \in FrameId : frames'[g].pc \in OnStack <=> Names(stack', g)
      BY <2>2, <2>4, OrderlyIs
    <2> QED BY <2>2, <2>3, <2>5 DEF Orderly, Steady
  <1>4. CASE Calling(f)
    <2>1. PICK pc, fn, t :
            /\ pc \in Pc
            /\ Invoked(f, pc, fn, t)
            /\ \/ /\ OnTop(f) /\ frames[f].pc = "enter"
                  /\ \/ pc = "early" /\ stack' = <<calls + 1>> \o stack
                     \/ pc = "class" /\ stack' = <<calls + 1>> \o Tail(stack)
                     \/ pc = "deps" /\ Len(DepsOf(f)) > 0 /\ stack' = <<calls + 1>> \o Tail(stack)
               \/ /\ OnTop(f) /\ frames[f].pc = "inject" /\ pc = "inject"
                  /\ frames'[f].provider = frames[f].provider
                  /\ Len(frames[f].kids) < Len(frames[f].provider.inject)
                  /\ stack' = <<calls + 1>> \o stack
               \/ /\ Idle /\ frames[f].pc = "deps" /\ pc = "deps"
                  /\ Len(frames[f].kids) < Len(DepsOf(f))
                  /\ stack' = <<calls + 1>>
      BY <1>4 DEF Calling
    <2>2. frames[f].pc = "enter" => frames[f].kids = <<>>
      BY DEF Orderly
    <2>3. \A g \in FrameId : Steady(g)'
      <3>1. pc \in {"early", "class", "deps", "inject"}
        BY <2>1
      <3>2. pc = "inject" => /\ frames'[f].provider = frames[f].provider
                             /\ Len(frames[f].kids) < Len(frames[f].provider.inject)
        BY <2>1
      <3>3. pc = "deps" => Len(frames[f].kids) < Len(DepsOf(f))
        BY <2>1, <2>2
      <3> QED BY <1>0, <2>1, <3>1, <3>2, <3>3, InvokedSteady
    <2> DEFINE n == calls + 1
    <2>4. /\ n \in FrameId /\ n # f /\ frames[n].pc = "idle"
          /\ frames'[n].pc = "enter" /\ frames'[f].pc = pc
          /\ \A g \in FrameId \ {f, n} : frames'[g] = frames[g]
      BY <2>1 DEF Invoked, Started, NewFrame
    <2>5. \E s \in Seq(FrameId) :
            /\ stack' = <<n>> \o s /\ Distinct(s)
            /\ \A g \in FrameId \ {f} : Names(s, g) <=> frames[g].pc \in OnStack
            /\ Names(s, f) <=> pc \in OnStack
      <3>1. CASE OnTop(f) /\ pc \in {"early", "inject"} /\ stack' = <<n>> \o stack
        <4>1. stack \in Seq(FrameId) /\ Names(stack, f)
          BY <3>1, TopNamed, OrderlyIs
        <4> QED BY <3>1, <4>1, OrderlyIs DEF OnStack
      <3>2. CASE OnTop(f) /\ pc \in {"class", "deps"} /\ stack' = <<n>> \o Tail(stack)
        <4>1. PICK s : s = Tail(stack)
          OBVIOUS
        <4>2. s \in Seq(FrameId)
          BY <3>2, <4>1, TopNamed
        <4>3. /\ Distinct(s) /\ ~Names(s, f)
              /\ \A g \in FrameId \ {f} : Names(s, g) <=> frames[g].pc \in OnStack
          BY <3>2, <4>1, TopNamed
        <4> QED BY <3>2, <4>1, <4>2, <4>3 DEF OnStack
      <3>3. CASE Idle /\ frames[f].pc = "deps" /\ pc = "deps" /\ stack' = <<n>>
        <4>1. stack = <<>> /\ stack \in Seq(FrameId)
          BY <3>3 DEF Idle
        <4>2. stack' = <<n>> \o stack
          BY <3>3, <4>1
        <4> QED BY <3>3, <4>1, <4>2, OrderlyIs DEF OnStack
      <3> QED BY <2>1, <3>1, <3>2, <3>3
    <2>6. PICK s \in Seq(FrameId) :
            /\ stack' = <<n>> \o s /\ Distinct(s)
            /\ \A g \in FrameId \ {f} : Names(s, g) <=> frames[g].pc \in OnStack
            /\ Names(s, f) <=> pc \in OnStack
      BY <2>5
    <2>7. ~Names(s, n)
      BY <2>4, <2>6 DEF OnStack
    <2> HIDE DEF n
    <2>8. Distinct(stack') /\ Names(stack', n)
          /\ \A g : g # n => (Names(stack', g) <=> Names(s, g))
      BY <2>4, <2>6, <2>7, Pushed
    <2>9. \A g \in FrameId : frames'[g].pc \in OnStack <=> Names(stack', g)
      BY <2>4, <2>6, <2>8 DEF OnStack
    <2> QED BY <2>3, <2>8, <2>9 DEF Orderly, Steady
  <1> QED BY <1>1, <1>2, <1>3, <1>4 DEF Going

LEMMA OrderlyStep ==
  ASSUME IInv, Orderly, [Next]_vars
  PROVE  Orderly'
  <1> USE WiringAssumption
  <1>0. MachineOK
    BY Parts
  <1>1. ASSUME NEW f \in FrameId, Synchronous(f) \/ Continuation(f) PROVE Orderly'
    <2>1. Going(f)
      BY <1>1, SynchronousGoing, ContinuationGoing
    <2>2. frames[f].pc # "idle"
      <3>1. ASSUME OnTop(f) PROVE frames[f].pc # "idle"
        <4>1. frames[f].pc \in OnStack
          BY <3>1, TopNamed
        <4> QED BY <4>1 DEF OnStack
      <3>2. CASE Synchronous(f)
        BY <3>1, <3>2
        DEF Synchronous, EnterCached, EnterCircular, EnterMissing, EnterUnregistered,
            ReleaseEarly, EnterValue, EnterClass, EnterFactory, InjectNext, InjectAll,
            ConstructRefused, ConstructLeaf, ConstructLeafThrows, ConstructBegin,
            Fresh, Uncached, Entering
      <3>3. CASE Continuation(f)
        BY <3>3
        DEF Continuation, Adopt, StoreValue, StoreClass, Produce, Reject, FactoryReturns,
            FactoryThrows, ConstructNext, ConstructFinish, ConstructThrows,
            ConstructReject, DepReady, Resumed
      <3> QED BY <1>1, <3>2, <3>3
    <2> QED BY <2>1, <2>2, GoingOrderly
  <1>2. ASSUME NEW fn, NEW t, Call(fn, t) PROVE Orderly'
    <2> DEFINE n == calls + 1
    <2>1. n \in FrameId /\ calls' = n /\ frames[n].pc = "idle" /\ calls \in Nat
      BY <1>0, <1>2 DEF MachineOK, Call, FrameId, FrameOK
    <2>2. /\ frames' = [frames EXCEPT ![n] = NewFrame(fn, t, None)]
          /\ stack = <<>> /\ stack' = <<n>>
      BY <1>2 DEF Call, Idle
    <2>3. /\ frames'[n].pc = "enter" /\ frames'[n].kids = <<>>
          /\ \A g \in FrameId \ {n} : frames'[g] = frames[g]
      BY <1>0, <2>1, <2>2 DEF MachineOK, NewFrame
    <2>4. \A g \in FrameId : Steady(g)'
      <3> TAKE g \in FrameId
      <3>1. CASE g = n
        BY <2>3, <3>1 DEF Steady
      <3>2. CASE g # n
        <4>1. Steady(g) /\ frames'[g] = frames[g]
          BY <2>3, <3>2, OrderlyIs
        <4>2. calls' \in Nat /\ calls' >= calls
          BY <2>1
        <4> QED BY <4>1, <4>2, SteadyStays
      <3> QED BY <3>1, <3>2
    <2>5. \A g \in FrameId : frames[g].pc \notin OnStack
      BY <2>2, OrderlyIs DEF Names
    <2>6. Distinct(stack') /\ \A g \in FrameId : Names(stack', g) <=> g = n
      BY <2>2 DEF Distinct, Names
    <2> HIDE DEF n
    <2>7. \A g \in FrameId : frames'[g].pc \in OnStack <=> Names(stack', g)
      BY <2>3, <2>5, <2>6 DEF OnStack
    <2> QED BY <2>4, <2>6, <2>7 DEF Orderly, Steady
  <1>3. ASSUME UNCHANGED <<frames, calls, stack>> PROVE Orderly'
    BY <1>3 DEF Orderly, DepsOf
  <1> QED
    BY <1>1, <1>2, <1>3
    DEF Next, System, Environment, Register, RegisterValue, CloseAll, CloseOne, CloseDone, vars

LEMMA InitOrderly == Init => Orderly
  <1> SUFFICES ASSUME Init PROVE Orderly
    OBVIOUS
  <1>1. /\ stack = <<>>
        /\ \A f \in FrameId : frames[f].pc = "idle" /\ frames[f].kids = <<>>
    BY DEF Init, NewFrame
  <1> QED BY <1>1 DEF Orderly, Distinct, Names, OnStack

LEMMA AlwaysOrderly == Spec => [](IInv /\ Orderly)
  BY InitIInv, IInvStep, InitOrderly, OrderlyStep, PTL DEF Spec

(* The guards of the actions of frame f, as they are in the code: of its   *)
(* synchronous code, and of its continuations.                             *)
CanGoOn(f) ==
  \/ /\ Entering(f, Fn)
     /\ \/ instances[frames[f].token] # None
        \/ Uncached(f, {"resolve", "resolveClass"}) /\ frames[f].token \in resolving
        \/ Fresh(f, {"resolve"}) /\ ProviderOf(f).kind \in Kind
        \/ Fresh(f, {"resolveClass"})
        \/ Uncached(f, {"constructClass"}) /\ (~Constructible(f) \/ DepsOf(f) = <<>>)
        \/ Uncached(f, {"constructClass"}) /\ Constructible(f) /\ DepsOf(f) # <<>>
  \/ OnTop(f) /\ frames[f].pc = "early"
  \/ /\ OnTop(f) /\ frames[f].pc = "inject"
     /\ \/ Len(frames[f].kids) < Len(frames[f].provider.inject)
        \/ Len(frames[f].kids) = Len(frames[f].provider.inject)
  \/ Resumed(f, {"store", "producing"})
  \/ Resumed(f, {"adopt"}) /\ Settled(LastKid(f))
  \/ Resumed(f, {"class"}) /\ frames[LastKid(f)].pc = "ok"
  \/ /\ Resumed(f, {"awaitAll"})
     /\ \A i \in DOMAIN frames[f].kids : frames[frames[f].kids[i]].pc = "ok"
  \/ /\ Resumed(f, {"class", "awaitAll"})
     /\ \E i \in DOMAIN frames[f].kids : frames[frames[f].kids[i]].pc = "failed"
  \/ /\ DepReady(f)
     /\ \/ Len(frames[f].kids) < Len(DepsOf(f))
        \/ Len(frames[f].kids) = Len(DepsOf(f))
  \/ Resumed(f, {"deps"}) /\ frames[LastKid(f)].pc = "failed"

(* While a call has not settled, some call can go on: those that are not   *)
(* running do not wait for one another (container.ts:62, the detector, and *)
(* 239, Promise.all).  That a frame is left to start is the model's bound, *)
(* and not part of it.                                                     *)
NoneStuck ==
  (\E f \in FrameId : frames[f].pc \notin {"idle", "ok", "failed"}) => \E f \in FrameId : CanGoOn(f)

(* The greatest of some frames.                                            *)
LEMMA LastFrame ==
  ASSUME NEW S \in SUBSET FrameId, S # {}
  PROVE  \E f \in S : \A g \in S : g <= f
  <1> USE WiringAssumption
  <1> DEFINE Below == {MaxFrames - f : f \in S}
  <1>1. Below \in SUBSET Nat /\ Below # {}
    BY DEF FrameId
  <1>2. PICK m \in Below : \A e \in Below : ~(e < m)
    <2> HIDE DEF Below
    <2>1. PICK m \in Below : \A e \in Below : ~(<<e, m>> \in OpToRel(<, Nat))
      BY <1>1, NatLessThanWellFounded, WFMin
    <2> QED BY <1>1, <2>1 DEF OpToRel
  <1>3. PICK f \in S : m = MaxFrames - f
    BY <1>2
  <1>4. \A g \in S : ~(MaxFrames - g < MaxFrames - f)
    BY <1>2, <1>3
  <1> QED BY <1>4 DEF FrameId

LEMMA OrderlyNeverStuck ==
  ASSUME IInv, Orderly
  PROVE  NoneStuck
  <1> SUFFICES ASSUME \E f \in FrameId : frames[f].pc \notin {"idle", "ok", "failed"}
               PROVE  \E f \in FrameId : CanGoOn(f)
    BY DEF NoneStuck
  <1> USE WiringAssumption
  <1>0. MachineOK /\ StoreOK
    BY Parts
  <1>1. CASE stack # <<>>
    <2>1. PICK f \in FrameId : OnTop(f)
      <3>1. stack \in Seq(1..calls) /\ calls \in 0..MaxFrames
        BY <1>0 DEF MachineOK
      <3>2. Head(stack) \in 1..calls
        BY <1>1, <3>1
      <3>3. Head(stack) \in FrameId
        BY <3>1, <3>2 DEF FrameId
      <3> QED BY <1>1, <3>3 DEF OnTop
    <2>2. frames[f].pc \in OnStack
      BY <2>1, TopNamed
    <2>3. /\ frames[f] \in Frame /\ frames[f].fn \in Fn /\ frames[f].token \in Token
          /\ frames[f].provider \in Provider /\ frames[f].kids \in Seq(FrameId)
      BY <1>0, FrameType DEF MachineOK
    <2>4. CASE frames[f].pc = "enter"
      <3>1. Entering(f, Fn) /\ Entering(f, {frames[f].fn})
        BY <2>1, <2>3, <2>4 DEF Entering
      <3>2. ProviderOf(f).kind \in Kind
        BY <1>0, <2>3 DEF ProviderOf, StoreOK, Provider
      <3> QED BY <2>1, <2>3, <2>4, <3>1, <3>2 DEF CanGoOn, Uncached, Fresh, Entering, Fn
    <2>5. CASE frames[f].pc = "early"
      BY <2>1, <2>5 DEF CanGoOn
    <2>6. CASE frames[f].pc = "inject"
      <3>1. Len(frames[f].kids) <= Len(frames[f].provider.inject)
        BY <2>6 DEF Orderly
      <3>2. Len(frames[f].kids) \in Nat /\ Len(frames[f].provider.inject) \in Nat
        BY <2>3 DEF Provider
      <3>3. \/ Len(frames[f].kids) < Len(frames[f].provider.inject)
            \/ Len(frames[f].kids) = Len(frames[f].provider.inject)
        BY <3>1, <3>2
      <3> QED BY <2>1, <2>6, <3>3 DEF CanGoOn
    <2> QED BY <2>2, <2>4, <2>5, <2>6 DEF OnStack
  <1>2. CASE stack = <<>>
    <2>1. Idle /\ \A f \in FrameId : frames[f].pc \notin OnStack
      BY <1>2, OrderlyIs DEF Idle, Names
    <2> DEFINE Pending == {f \in FrameId : frames[f].pc \notin {"idle", "ok", "failed"}}
    <2>2. PICK f \in Pending : \A g \in Pending : g <= f
      BY LastFrame
    <2>3. f \in FrameId /\ frames[f].pc \notin {"idle", "ok", "failed"}
      OBVIOUS
    <2>4. /\ frames[f] \in Frame /\ frames[f].pc \in Pc /\ frames[f].kids \in Seq(FrameId)
      BY <1>0, <2>3, FrameType DEF MachineOK
    <2>5. frames[f].pc \in {"adopt", "store", "class", "awaitAll", "producing", "deps"}
      BY <2>1, <2>3, <2>4 DEF OnStack, Pc, HoldingPc
    <2>6. \A i \in DOMAIN frames[f].kids : frames[frames[f].kids[i]].pc \in {"ok", "failed"}
      <3> TAKE i \in DOMAIN frames[f].kids
      <3>1. PICK k : k = frames[f].kids[i]
        OBVIOUS
      <3>2. k \in f + 1 .. calls /\ k \in FrameId
        BY <2>3, <2>4, <3>1 DEF Orderly
      <3>3. calls \in Nat /\ k > f /\ ~(k <= f) /\ ~(k > calls)
        BY <1>0, <2>3, <3>2 DEF MachineOK, FrameId
      <3>4. frames[k].pc # "idle"
        BY <1>0, <3>2, <3>3 DEF MachineOK, FrameOK
      <3>5. k \notin Pending
        BY <2>2, <3>3
      <3> QED BY <3>1, <3>2, <3>4, <3>5
    <2>7. ASSUME frames[f].pc \in {"adopt", "class", "deps"}
          PROVE  /\ frames[LastKid(f)].pc \in {"ok", "failed"}
                 /\ Len(frames[f].kids) \in DOMAIN frames[f].kids
      <3>1. frames[f].kids # <<>>
        BY <1>0, <2>3, <2>7 DEF MachineOK, FrameOK
      <3>2. Len(frames[f].kids) \in DOMAIN frames[f].kids
        BY <2>4, <3>1
      <3> QED BY <2>6, <3>2 DEF LastKid
    <2> HIDE DEF Pending
    <2>Here. \A pcs : frames[f].pc \in pcs => Resumed(f, pcs)
      BY <2>1 DEF Resumed
    <2>8. CASE frames[f].pc \in {"store", "producing"}
      BY <2>8, <2>Here, <2>3 DEF CanGoOn
    <2>9. CASE frames[f].pc = "adopt"
      <3>1. Settled(LastKid(f)) /\ Resumed(f, {"adopt"})
        BY <2>7, <2>9, <2>Here DEF Settled
      <3> QED BY <3>1, <2>3 DEF CanGoOn
    <2>10. CASE frames[f].pc = "class"
      <3>1. Resumed(f, {"class"}) /\ Resumed(f, {"class", "awaitAll"})
        BY <2>10, <2>Here
      <3>2. CASE frames[LastKid(f)].pc = "ok"
        BY <3>1, <3>2, <2>3 DEF CanGoOn
      <3>3. CASE frames[LastKid(f)].pc = "failed"
        <4>1. \E i \in DOMAIN frames[f].kids : frames[frames[f].kids[i]].pc = "failed"
          BY <2>7, <2>10, <3>3 DEF LastKid
        <4> QED BY <3>1, <4>1, <2>3 DEF CanGoOn
      <3> QED BY <2>7, <2>10, <3>2, <3>3
    <2>11. CASE frames[f].pc = "awaitAll"
      <3>1. Resumed(f, {"awaitAll"}) /\ Resumed(f, {"class", "awaitAll"})
        BY <2>11, <2>Here
      <3>2. CASE \A i \in DOMAIN frames[f].kids : frames[frames[f].kids[i]].pc = "ok"
        BY <3>1, <3>2, <2>3 DEF CanGoOn
      <3>3. CASE \E i \in DOMAIN frames[f].kids : frames[frames[f].kids[i]].pc = "failed"
        BY <3>1, <3>3, <2>3 DEF CanGoOn
      <3> QED BY <2>6, <3>2, <3>3
    <2>12. CASE frames[f].pc = "deps"
      <3>1. frames[LastKid(f)].pc = "failed" => CanGoOn(f)
        BY <2>1, <2>12 DEF CanGoOn, Resumed
      <3>2. frames[f].token \in ClassToken /\ Len(frames[f].kids) <= Len(DepsOf(f))
        BY <1>0, <2>3, <2>12 DEF MachineOK, FrameOK, Orderly
      <3>3. DepsOf(f) \in Seq(Token)
        BY <3>2 DEF DepsOf
      <3>4. Len(frames[f].kids) < Len(DepsOf(f)) \/ Len(frames[f].kids) = Len(DepsOf(f))
        BY <2>4, <3>2, <3>3
      <3>5. frames[LastKid(f)].pc = "ok" => CanGoOn(f)
        BY <2>1, <2>12, <3>4 DEF CanGoOn, DepReady, Resumed
      <3> QED BY <2>3, <2>7, <2>12, <3>1, <3>5
    <2> QED BY <2>3, <2>5, <2>8, <2>9, <2>10, <2>11, <2>12
  <1> QED BY <1>1, <1>2

(* Calls to resolve never deadlock, whatever the wiring, cycles included,  *)
(* and however they interleave: as long as one is not settled, the code of *)
(* some call is running or what it awaits has settled.                     *)
THEOREM NeverStuck == Spec => []NoneStuck
  BY AlwaysOrderly, OrderlyNeverStuck, PTL

(* A step of a call takes some frame further, and no step takes one back.  *)
Further(f)  == Distance[frames[f].pc] < Distance[frames'[f].pc]
NoneBack    == \A f \in FrameId : Distance[frames[f].pc] <= Distance[frames'[f].pc]
Advance     == \E f \in FrameId : Synchronous(f) \/ Continuation(f)
Forward     == NoneBack /\ (Advance => \E f \in FrameId : Further(f))

LEMMA DistanceOf == \A pc \in Pc : Distance[pc] \in 0..5
  BY DEF Distance

LEMMA NotBack ==
  ASSUME NEW a \in Pc, NEW b \in Pc, Distance[a] < Distance[b] \/ a = b
  PROVE  Distance[a] <= Distance[b]
  <1>1. PICK x, y : x = Distance[a] /\ y = Distance[b]
    OBVIOUS
  <1>2. x \in 0..5 /\ y \in 0..5 /\ (x < y \/ x = y)
    BY <1>1, DistanceOf
  <1> QED BY <1>1, <1>2

LEMMA GoingForward ==
  ASSUME IInv, NEW f \in FrameId, Going(f)
  PROVE  NoneBack /\ \E g \in FrameId : Further(g)
  <1> USE WiringAssumption
  <1>0. MachineOK
    BY Parts
  <1>1. \A g \in FrameId : frames[g].pc \in Pc /\ Distance[frames[g].pc] \in 0..5
    BY <1>0, FrameType, DistanceOf DEF MachineOK
  <1>2. ASSUME NEW g \in FrameId, frames[g].pc = frames'[g].pc
        PROVE  Distance[frames[g].pc] <= Distance[frames'[g].pc]
    BY <1>1, <1>2, NotBack
  <1>3. ASSUME \A g \in FrameId \ {f} : frames'[g] = frames[g], Further(f), frames'[f].pc \in Pc
        PROVE  NoneBack /\ \E g \in FrameId : Further(g)
    <2>1. ASSUME NEW g \in FrameId PROVE Distance[frames[g].pc] <= Distance[frames'[g].pc]
      <3>1. CASE g = f
        BY <1>1, <1>3, <3>1, NotBack DEF Further
      <3>2. CASE g # f
        BY <1>2, <1>3, <3>2
      <3> QED BY <3>1, <3>2
    <2> QED BY <1>3, <2>1 DEF NoneBack
  <1>4. CASE Returning(f) \/ Resuming(f)
    <2>1. PICK pc, o : /\ pc \in Pc /\ Turned(f, pc, o)
                        /\ Distance[frames[f].pc] < Distance[pc]
      BY <1>4 DEF Returning, Resuming, Pc, HoldingPc
    <2> QED BY <1>3, <2>1 DEF Turned, Further
  <1>5. CASE Injecting(f)
    <2>1. PICK o : Turned(f, "inject", o) /\ frames[f].pc = "enter"
      BY <1>5 DEF Injecting
    <2> QED BY <1>3, <2>1, DistanceIs DEF Turned, Further, Pc, HoldingPc
  <1>6. CASE Calling(f)
    <2>1. PICK pc, fn, t :
            /\ pc \in Pc
            /\ Invoked(f, pc, fn, t)
            /\ \/ frames[f].pc = "enter" /\ pc \in {"early", "class", "deps"}
               \/ frames[f].pc = pc
      BY <1>6 DEF Calling
    <2> DEFINE n == calls + 1
    <2>2. /\ n \in FrameId /\ n # f /\ frames[n].pc = "idle"
          /\ frames'[n].pc = "enter" /\ frames'[f].pc = pc
          /\ \A g \in FrameId \ {f, n} : frames'[g] = frames[g]
      BY <2>1 DEF Invoked, Started, NewFrame
    <2> HIDE DEF n
    <2>3. Further(n)
      BY <2>2, DistanceIs DEF Further
    <2>4. ASSUME NEW g \in FrameId PROVE Distance[frames[g].pc] <= Distance[frames'[g].pc]
      <3>1. CASE g = n
        BY <2>2, <3>1, DistanceIs
      <3>2. CASE g = f
        BY <1>2, <2>1, <2>2, <3>2, DistanceIs
      <3>3. CASE g \notin {f, n}
        BY <1>2, <2>2, <3>3
      <3> QED BY <3>1, <3>2, <3>3
    <2> QED BY <2>2, <2>3, <2>4 DEF NoneBack
  <1> QED BY <1>4, <1>5, <1>6 DEF Going

LEMMA ForwardStep ==
  ASSUME IInv, [Next]_vars
  PROVE  Forward
  <1> USE WiringAssumption
  <1>0. MachineOK
    BY Parts
  <1>1. \A g \in FrameId : frames[g].pc \in Pc /\ Distance[frames[g].pc] \in 0..5
    BY <1>0, FrameType, DistanceOf DEF MachineOK
  <1>2. CASE Advance
    <2>1. PICK f \in FrameId : Going(f)
      BY <1>2, SynchronousGoing, ContinuationGoing DEF Advance
    <2> QED BY <2>1, GoingForward DEF Forward
  <1>3. ASSUME ~Advance, NEW fn, NEW t, Call(fn, t) PROVE Forward
    <2> DEFINE n == calls + 1
    <2>1. n \in FrameId /\ frames[n].pc = "idle"
      BY <1>0, <1>3 DEF MachineOK, Call, FrameId, FrameOK
    <2>2. frames' = [frames EXCEPT ![n] = NewFrame(fn, t, None)]
      BY <1>3 DEF Call
    <2>3. /\ frames'[n].pc = "enter"
          /\ \A g \in FrameId \ {n} : frames'[g] = frames[g]
      BY <1>0, <2>1, <2>2 DEF MachineOK, NewFrame
    <2> HIDE DEF n
    <2>4. ASSUME NEW g \in FrameId PROVE Distance[frames[g].pc] <= Distance[frames'[g].pc]
      <3>1. CASE g = n
        BY <2>1, <2>3, <3>1, DistanceIs
      <3>2. CASE g # n
        <4>1. frames'[g].pc = frames[g].pc
          BY <2>3, <3>2
        <4> QED BY <1>1, <4>1, NotBack
      <3> QED BY <3>1, <3>2
    <2> QED BY <1>3, <2>4 DEF Forward, NoneBack
  <1>4. ASSUME ~Advance, UNCHANGED frames PROVE Forward
    <2>1. ASSUME NEW g \in FrameId PROVE Distance[frames[g].pc] <= Distance[frames'[g].pc]
      BY <1>1, <1>4, NotBack
    <2> QED BY <1>4, <2>1 DEF Forward, NoneBack
  <1> QED
    BY <1>2, <1>3, <1>4
    DEF Next, System, Environment, Register, RegisterValue, CloseAll, CloseOne, CloseDone, vars,
        Advance

(* Every step of a call to resolve takes that call, or one it makes, nearer*)
(* to its result, in one of five stages, and none takes a call back; so    *)
(* that calls settle after no more than five steps for each call made.     *)
THEOREM StepsAdvance == Spec => [][Forward]_vars
  BY InitIInv, IInvStep, ForwardStep, PTL DEF Spec

-----------------------------------------------------------------------------
(* When "circular" is said and when it is not: for calls that do not       *)
(* overlap and factories whose injected tokens have nothing in common.     *)

(* The tokens that the resolution of t may reach, t included.              *)
Closed(S) == \A t \in S : Needs({t}) \subseteq S
Closure(t) == {u \in Token : \A S \in SUBSET Token : t \in S /\ Closed(S) => u \in S}
OnCycle(t) == \E u \in Needs({t}) : t \in Closure(u)

Straight ==
  /\ \A t \in Token : Wiring[t].kind = "class" => Wiring[t].useClass = t
  /\ \A t \in Token : Wiring[t].kind = "factory" =>
       \A i, j \in DOMAIN Wiring[t].inject :
         i # j => Closure(Wiring[t].inject[i]) \cap Closure(Wiring[t].inject[j]) = {}
  /\ \A t \in Direct : Wiring[t].kind # "factory"
  /\ \A r \in Late : r[2].kind = "value"

LEMMA NeedsAre ==
  ASSUME NEW t \in Token
  PROVE  /\ NeedsOf(t) \in Seq(Token)
         /\ Needs({t}) = {NeedsOf(t)[i] : i \in DOMAIN NeedsOf(t)}
         /\ Needs({t}) \subseteq Token
  <1>1. NeedsOf(t) \in Seq(Token)
    BY WiringAssumption DEF NeedsOf
  <1>2. Needs({t}) = {NeedsOf(t)[i] : i \in DOMAIN NeedsOf(t)}
    BY DEF Needs
  <1>3. \A i \in DOMAIN NeedsOf(t) : NeedsOf(t)[i] \in Token
    BY <1>1
  <1> QED BY <1>1, <1>2, <1>3

LEMMA ClosureIs ==
  ASSUME NEW t \in Token
  PROVE  /\ t \in Closure(t) /\ Closure(t) \subseteq Token /\ Closed(Closure(t))
         /\ \A u \in Closure(t) : Closure(u) \subseteq Closure(t)
         /\ \A u \in Needs({t}) : u \in Token /\ Closure(u) \subseteq Closure(t)
  <1>1. t \in Closure(t) /\ Closure(t) \subseteq Token
    BY DEF Closure
  <1>2. ASSUME NEW u \in Closure(t), NEW v \in Needs({u}) PROVE v \in Closure(t)
    <2>1. v \in Token
      BY <1>1, <1>2, NeedsAre
    <2>2. ASSUME NEW S \in SUBSET Token, t \in S, Closed(S) PROVE v \in S
      <3>1. u \in S
        BY <2>2 DEF Closure
      <3> QED BY <1>2, <2>2, <3>1 DEF Closed
    <2> QED BY <2>1, <2>2 DEF Closure
  <1>3. Closed(Closure(t))
    BY <1>2 DEF Closed
  <1>4. \A u \in Closure(t) : Closure(u) \subseteq Closure(t)
    BY <1>1, <1>3 DEF Closure
  <1>5. \A u \in Needs({t}) : u \in Token /\ u \in Closure(t)
    BY <1>1, <1>2, NeedsAre
  <1> QED BY <1>1, <1>3, <1>4, <1>5

-----------------------------------------------------------------------------
Busy(f) == frames[f].pc \notin {"idle", "ok", "failed"}
NotOk(f) == frames[f].pc \notin {"idle", "ok"}
KidsOk(f) == \A i \in DOMAIN frames[f].kids : frames[frames[f].kids[i]].pc = "ok"

(* k was called by f: to construct f's own token, or for what that needs.  *)
Asked(f, k) ==
  /\ frames[k].fn = "constructClass" =>
       frames[f].fn # "constructClass" /\ frames[k].token = frames[f].token
  /\ frames[k].fn # "constructClass" => frames[k].token \in Needs({frames[f].token})

Sound(f) ==
  /\ frames[f].fn = "constructClass" => Wiring[frames[f].token].kind # "factory"
  /\ frames[f].fn = "resolveClass" => frames[f].token \in Direct
  /\ frames[f].pc = "deps" => frames[f].fn = "constructClass"
  /\ frames[f].pc \in {"early", "class", "adopt"} => Len(frames[f].kids) = 1
  /\ frames[f].pc \in {"enter", "store"} => frames[f].kids = <<>>
  /\ frames[f].pc \in {"ok", "producing"} => KidsOk(f)
  /\ frames[f].pc = "deps" => \A i \in DOMAIN frames[f].kids :
       i # Len(frames[f].kids) => frames[frames[f].kids[i]].pc = "ok"
  /\ frames[f].pc = "inject" =>
       /\ Wiring[frames[f].token].kind = "factory"
       /\ frames[f].provider.inject = Wiring[frames[f].token].inject
       /\ \A i \in DOMAIN frames[f].kids :
            frames[frames[f].kids[i]].token = frames[f].provider.inject[i]
  /\ \A i \in DOMAIN frames[f].kids : Asked(f, frames[f].kids[i])

Registry == \A t \in Token : providers[t] = Wiring[t] \/ providers[t].kind = "value"

(* While a call runs, no other was made from outside after it.             *)
Era == \A f, r \in FrameId : Busy(f) /\ f < r /\ r <= calls => frames[r].parent # None
Same(f, g) == \A r \in FrameId : f < r /\ r <= g => frames[r].parent # None

(* Frames that have not succeeded have no token in common, or one was      *)
(* started on behalf of the other.                                         *)
Apart(f, g) == Closure(frames[f].token) \cap Closure(frames[g].token) = {}
Behalf(f, g) ==
  \E i \in DOMAIN frames[f].kids :
    LET k == frames[f].kids[i] IN
    /\ k <= g /\ frames[k].pc # "ok"
    /\ Closure(frames[g].token) \subseteq Closure(frames[k].token)
Branches ==
  \A f, g \in FrameId :
    f < g /\ NotOk(f) /\ NotOk(g) /\ Same(f, g) => Apart(f, g) \/ Behalf(f, g)

Circular(f) == \E u \in Closure(frames[f].token) : OnCycle(u)
CircularIsCycle == \A f \in FrameId : frames[f].err = "circular" => Circular(f)

(* The application makes no call while an earlier one, or what it left     *)
(* behind when it failed, is in progress.                                  *)
OneByOne ==
  (\E t \in Token, fn \in Fn : Call(fn, t)) => \A f \in FrameId : ~Busy(f)

Base == IInv /\ LockDiscipline /\ Orderly
CycInv == (\A f \in FrameId : Sound(f)) /\ Registry /\ Era /\ Branches /\ CircularIsCycle

(* What a step of f does to the frames.                                    *)
Moving(f) ==
  /\ Busy(f)
  /\ Turned(f, frames'[f].pc, frames'[f].val)
  /\ frames'[f].pc \in {"ok", "failed", "adopt", "store", "awaitAll", "producing", "inject"}
  /\ frames'[f].pc \in {"ok", "producing"} => KidsOk(f)
  /\ frames'[f].pc = "adopt" => frames[f].pc = "early"
  /\ frames'[f].pc = "store" => frames[f].pc = "enter"
  /\ frames'[f].pc = "inject" =>
       /\ frames[f].pc = "enter" /\ Wiring[frames[f].token].kind = "factory"
       /\ frames'[f].provider.inject = Wiring[frames[f].token].inject
  /\ frames'[f].err = "circular" =>
       \/ frames[f].err = "circular"
       \/ \E i \in DOMAIN frames[f].kids : frames[frames[f].kids[i]].err = "circular"
       \/ /\ frames[f].pc = "enter" /\ frames[f].fn # "constructClass"
          /\ frames[f].token \in resolving

Asking(f) ==
  /\ Busy(f)
  /\ frames'[f].err = frames[f].err
  /\ \E pc, fn, t :
       /\ Invoked(f, pc, fn, t)
       /\ \/ /\ pc \in {"early", "class"} /\ frames[f].pc = "enter"
             /\ fn = "constructClass" /\ t = frames[f].token
             /\ frames[f].fn # "constructClass" /\ Wiring[t].kind # "factory"
          \/ /\ pc = "deps" /\ frames[f].pc \in {"enter", "deps"}
             /\ fn = "resolve" /\ frames[f].fn = "constructClass"
             /\ KidsOk(f) /\ t \in Needs({frames[f].token})
          \/ /\ pc = "inject" /\ frames[f].pc = "inject"
             /\ fn = "resolve" /\ frames'[f].provider = frames[f].provider
             /\ Len(frames[f].kids) < Len(frames[f].provider.inject)
             /\ t = frames[f].provider.inject[Len(frames[f].kids) + 1]

LEMMA FrameFacts ==
  ASSUME Base, NEW f \in FrameId
  PROVE  /\ frames[f] \in Frame /\ frames[f].token \in Token /\ frames[f].kids \in Seq(FrameId)
         /\ f \in Nat /\ calls \in Nat
         /\ frames[f].pc # "idle" <=> f <= calls
         /\ \A i \in DOMAIN frames[f].kids :
              /\ frames[f].kids[i] \in FrameId /\ frames[f].kids[i] <= calls
              /\ f < frames[f].kids[i] /\ frames[f].kids[i] # f
  <1> USE WiringAssumption
  <1>1. IInv /\ Orderly /\ MachineOK
    BY Parts DEF Base
  <1>2. /\ frames[f] \in Frame /\ frames[f].token \in Token /\ frames[f].kids \in Seq(FrameId)
        /\ f \in Nat /\ calls \in Nat /\ (frames[f].pc = "idle" <=> f > calls)
    BY <1>1, FrameType DEF MachineOK, FrameOK, FrameId
  <1>3. ASSUME NEW i \in DOMAIN frames[f].kids
        PROVE  /\ frames[f].kids[i] \in FrameId /\ frames[f].kids[i] <= calls
               /\ f < frames[f].kids[i] /\ frames[f].kids[i] # f
    <2>1. frames[f].kids[i] \in f + 1 .. calls
      BY <1>1 DEF Orderly
    <2>2. frames[f].kids[i] \in FrameId
      BY <1>2
    <2> QED BY <1>2, <2>1, <2>2
  <1> QED BY <1>2, <1>3

(* A token found in `resolving` is on a cycle: its holder is at work on    *)
(* behalf of itself.                                                       *)
LEMMA CaughtOnCycle ==
  ASSUME Base, CycInv, NEW f \in FrameId,
         frames[f].pc = "enter", frames[f].fn # "constructClass", frames[f].token \in resolving
  PROVE  OnCycle(frames[f].token)
  <1> DEFINE t == frames[f].token
  <1>0. \A h \in FrameId : h \in Nat
    BY WiringAssumption DEF FrameId
  <1>1. PICK g \in FrameId : Holding(g) /\ frames[g].token = t
    BY DEF Base, LockDiscipline
  <1>2. /\ Busy(f) /\ Busy(g) /\ NotOk(f) /\ NotOk(g) /\ f # g
    BY <1>1 DEF Holding, HoldingPc, Busy, NotOk
  <1>3. t \in Token /\ f <= calls /\ g <= calls /\ f \in Nat /\ g \in Nat /\ calls \in Nat
    BY <1>2, FrameFacts DEF NotOk
  <1>4. t \in Closure(t)
    BY <1>3, ClosureIs
  <1>5. ASSUME NEW h \in FrameId, Busy(h), NEW k \in FrameId, h <= k, k <= calls
        PROVE  Same(h, k)
    <2>1. ASSUME NEW r \in FrameId, h < r, r <= k PROVE frames[r].parent # None
      <3>1. r \in Nat /\ k \in Nat /\ calls \in Nat
        BY FrameFacts
      <3>2. r <= calls
        BY <1>5, <2>1, <3>1
      <3> QED BY <1>5, <2>1, <3>2 DEF CycInv, Era
    <2> QED BY <2>1 DEF Same
  <1>6. CASE f < g
    <2>1. Same(f, g)
      BY <1>2, <1>3, <1>5, <1>6
    <2>2. ~Apart(f, g)
      BY <1>1, <1>4 DEF Apart
    <2>3. Behalf(f, g)
      BY <1>2, <1>6, <2>1, <2>2 DEF CycInv, Branches
    <2>4. frames[f].kids = <<>>
      BY DEF CycInv, Sound
    <2> QED BY <2>3, <2>4 DEF Behalf
  <1>7. CASE g < f
    <2>1. Same(g, f)
      BY <1>2, <1>3, <1>5, <1>7
    <2>2. ~Apart(g, f)
      BY <1>1, <1>4 DEF Apart
    <2>3. Behalf(g, f)
      BY <1>2, <1>7, <2>1, <2>2 DEF CycInv, Branches
    <2>4. PICK i \in DOMAIN frames[g].kids :
             /\ frames[g].kids[i] <= f /\ frames[frames[g].kids[i]].pc # "ok"
             /\ Closure(t) \subseteq Closure(frames[frames[g].kids[i]].token)
      BY <2>3 DEF Behalf
    <2>5. PICK a \in FrameId : a = frames[g].kids[i] /\ g < a /\ a <= calls
      BY <2>4, FrameFacts
    <2>6. Asked(g, a)
      BY <2>5 DEF CycInv, Sound
    <2>7. CASE frames[a].fn # "constructClass"
      BY <1>1, <1>4, <2>4, <2>5, <2>6, <2>7 DEF Asked, OnCycle
    <2>8. CASE frames[a].fn = "constructClass"
      <3>1. frames[a].token = t /\ a # f
        BY <1>1, <2>6, <2>8 DEF Asked
      <3>2. a \in Nat /\ a <= f /\ a < f
        <4>1. a \in Nat /\ f \in Nat
          BY <1>0
        <4>2. a <= f
          BY <2>4, <2>5
        <4> QED BY <3>1, <4>1, <4>2
      <3>3. Same(a, f)
        <4>1. ASSUME NEW r \in FrameId, a < r, r <= f PROVE frames[r].parent # None
          <5>1. g < r
            BY <1>0, <2>5, <4>1
          <5> QED BY <2>1, <4>1, <5>1 DEF Same
        <4> QED BY <4>1 DEF Same
      <3>4. frames[a].pc # "idle" /\ NotOk(a)
        BY <2>4, <2>5, FrameFacts DEF NotOk
      <3>5. ~Apart(a, f)
        BY <1>4, <3>1 DEF Apart
      <3>6. Behalf(a, f)
        BY <1>2, <3>2, <3>3, <3>4, <3>5 DEF CycInv, Branches
      <3>7. PICK j \in DOMAIN frames[a].kids :
               Closure(t) \subseteq Closure(frames[frames[a].kids[j]].token)
        BY <3>6 DEF Behalf
      <3>8. Asked(a, frames[a].kids[j])
        BY DEF CycInv, Sound
      <3> QED BY <1>4, <2>8, <3>1, <3>7, <3>8 DEF Asked, OnCycle
    <2> QED BY <2>7, <2>8
  <1> QED BY <1>2, <1>3, <1>6, <1>7

LEMMA SoundStays ==
  ASSUME Base, NEW g \in FrameId, Sound(g),
         frames'[g].fn = frames[g].fn, frames'[g].token = frames[g].token,
         frames'[g].pc = frames[g].pc, frames'[g].kids = frames[g].kids,
         frames'[g].provider = frames[g].provider,
         \A k \in FrameId : k <= calls =>
           /\ frames'[k].fn = frames[k].fn /\ frames'[k].token = frames[k].token
           /\ frames[k].pc = "ok" => frames'[k].pc = "ok"
  PROVE  Sound(g)'
  <1>1. PICK q : q = frames[g].kids
    OBVIOUS
  <1>2. \A i \in DOMAIN q : q[i] \in FrameId /\ q[i] <= calls
    BY <1>1, FrameFacts
  <1>3. frames'[g].kids = q
    BY <1>1
  <1>4. \A i \in DOMAIN q : Asked(g, q[i])'
    <2> TAKE i \in DOMAIN q
    <2>1. Asked(g, q[i])
      BY <1>1 DEF Sound
    <2> QED BY <1>2, <2>1 DEF Asked
  <1>5. KidsOk(g) => KidsOk(g)'
    BY <1>1, <1>2, <1>3 DEF KidsOk
  <1> QED BY <1>1, <1>2, <1>3, <1>4, <1>5 DEF Sound

LEMMA MovingKeeps ==
  ASSUME Base, CycInv, NEW f \in FrameId, Moving(f), UNCHANGED providers
  PROVE  CycInv'
  <1>0. /\ frames'[f].fn = frames[f].fn /\ frames'[f].token = frames[f].token
        /\ frames'[f].parent = frames[f].parent /\ frames'[f].kids = frames[f].kids
        /\ \A g \in FrameId \ {f} : frames'[g] = frames[g]
        /\ calls' = calls /\ f \in Nat
    BY FrameFacts DEF Moving, Turned
  <1>1. /\ Busy(f) /\ NotOk(f)
        /\ \A g \in FrameId : /\ frames'[g].fn = frames[g].fn /\ frames'[g].token = frames[g].token
                              /\ frames'[g].kids = frames[g].kids
                              /\ frames'[g].parent = frames[g].parent
                              /\ NotOk(g)' => NotOk(g)
                              /\ Busy(g)' => Busy(g)
                              /\ frames[g].pc = "ok" => frames'[g].pc = "ok"
    BY <1>0 DEF Moving, Busy, NotOk
  <1>2. \A k \in FrameId : k <= calls =>
           /\ frames'[k].fn = frames[k].fn /\ frames'[k].token = frames[k].token
           /\ frames[k].pc = "ok" => frames'[k].pc = "ok"
    BY <1>1
  <1>3. ASSUME NEW g \in FrameId PROVE Sound(g)'
    <2>1. CASE g # f
      BY <1>0, <1>2, <2>1, SoundStays DEF CycInv
    <2>2. CASE g = f
      <3>1. Sound(f)
        BY DEF CycInv
      <3>2. PICK q : q = frames[f].kids
        OBVIOUS
      <3>3. ASSUME NEW i \in DOMAIN q PROVE Asked(f, q[i])'
        <4>1. PICK k \in FrameId : k = q[i] /\ Asked(f, k)
          BY <3>1, <3>2, FrameFacts DEF Sound
        <4>2. /\ frames'[k].fn = frames[k].fn /\ frames'[k].token = frames[k].token
              /\ frames'[f].fn = frames[f].fn /\ frames'[f].token = frames[f].token
          BY <1>1
        <4> QED BY <4>1, <4>2 DEF Asked
      <3>4. KidsOk(f) => KidsOk(f)'
        <4>1. \A i \in DOMAIN q : q[i] \in FrameId
          BY <3>2, FrameFacts
        <4> QED BY <1>0, <1>1, <3>2, <4>1 DEF KidsOk
      <3>5. frames'[f].kids = q
        BY <1>0, <3>2
      <3>6. frames'[f].pc = "inject" => frames'[f].kids = <<>>
        BY <1>0, <3>1 DEF Sound, Moving
      <3>7. frames'[f].pc = "inject" =>
               /\ Wiring[frames'[f].token].kind = "factory"
               /\ frames'[f].provider.inject = Wiring[frames'[f].token].inject
        BY <1>0 DEF Moving
      <3>8. /\ frames'[f].pc = "adopt" => Len(frames'[f].kids) = 1
            /\ frames'[f].pc = "store" => frames'[f].kids = <<>>
        BY <1>0, <3>1 DEF Sound, Moving
      <3>9. frames'[f].pc \notin {"deps", "early", "class", "enter"}
        BY DEF Moving
      <3>10. frames'[f].pc \in {"ok", "producing"} => KidsOk(f)'
        BY <3>4 DEF Moving
      <3>11. /\ frames'[f].fn = "constructClass" => Wiring[frames'[f].token].kind # "factory"
             /\ frames'[f].fn = "resolveClass" => frames'[f].token \in Direct
        BY <1>0, <3>1 DEF Sound
      <3> QED
        BY <2>2, <3>3, <3>5, <3>6, <3>7, <3>8, <3>9, <3>10, <3>11 DEF Sound
    <2> QED BY <2>1, <2>2
  <1>4. Era'
    BY <1>0, <1>1 DEF CycInv, Era
  <1>5. Registry'
    BY DEF CycInv, Registry
  <1>6. CircularIsCycle'
    <2> SUFFICES ASSUME NEW g \in FrameId, frames'[g].err = "circular" PROVE Circular(g)'
      BY DEF CircularIsCycle
    <2>1. Circular(g)' <=> Circular(g)
      BY <1>1 DEF Circular
    <2>2. CASE frames[g].err = "circular"
      BY <2>1, <2>2 DEF CycInv, CircularIsCycle
    <2>3. CASE frames[g].err # "circular"
      <3>1. g = f
        BY <1>0, <2>3
      <3>2. CASE \E i \in DOMAIN frames[f].kids : frames[frames[f].kids[i]].err = "circular"
        <4>1. PICK i \in DOMAIN frames[f].kids : frames[frames[f].kids[i]].err = "circular"
          BY <3>2
        <4>2. PICK k \in FrameId : k = frames[f].kids[i]
          BY FrameFacts
        <4>3. PICK u \in Closure(frames[k].token) : OnCycle(u)
          BY <4>1, <4>2 DEF CycInv, CircularIsCycle, Circular
        <4>4. Asked(f, k)
          BY <4>2 DEF CycInv, Sound
        <4>5. Closure(frames[k].token) \subseteq Closure(frames[f].token)
          <5>1. frames[f].token \in Token
            BY FrameFacts
          <5> QED BY <4>4, <5>1, ClosureIs DEF Asked
        <4> QED BY <2>1, <3>1, <4>3, <4>5 DEF Circular
      <3>3. CASE /\ frames[f].pc = "enter" /\ frames[f].fn # "constructClass"
                 /\ frames[f].token \in resolving
        <4>1. OnCycle(frames[f].token)
          BY <3>3, CaughtOnCycle
        <4>2. frames[f].token \in Closure(frames[f].token)
          BY FrameFacts, ClosureIs
        <4> QED BY <2>1, <3>1, <4>1, <4>2 DEF Circular
      <3> QED BY <2>3, <3>1, <3>2, <3>3 DEF Moving
    <2> QED BY <2>2, <2>3
  <1>7. ASSUME NEW p \in FrameId, NEW g \in FrameId, p < g,
               NotOk(p)', NotOk(g)', Same(p, g)'
        PROVE  (Apart(p, g) \/ Behalf(p, g))'
    <2>1. NotOk(p) /\ NotOk(g) /\ Same(p, g)
      BY <1>1, <1>7 DEF Same
    <2>2. CASE Apart(p, g)
      BY <1>1, <2>2 DEF Apart
    <2>3. CASE Behalf(p, g)
      <3>1. PICK i \in DOMAIN frames[p].kids :
               /\ frames[p].kids[i] <= g /\ frames[frames[p].kids[i]].pc # "ok"
               /\ Closure(frames[g].token) \subseteq Closure(frames[frames[p].kids[i]].token)
        BY <2>3 DEF Behalf
      <3>2. PICK k \in FrameId : k = frames[p].kids[i] /\ p < k
        BY FrameFacts
      <3>3. k <= g /\ frames[k].pc # "ok"
            /\ Closure(frames[g].token) \subseteq Closure(frames[k].token)
        BY <3>1, <3>2
      <3>4. CASE frames'[k].pc # "ok"
        <4>1. frames'[p].kids = frames[p].kids /\ frames'[k].token = frames[k].token
              /\ frames'[g].token = frames[g].token
          BY <1>1
        <4> QED BY <3>2, <3>3, <3>4, <4>1 DEF Behalf
      <3>5. CASE frames'[k].pc = "ok"
        <4>1. k = f
          BY <1>0, <3>3, <3>5
        <4>2. KidsOk(f)
          BY <3>5, <4>1 DEF Moving
        <4>3. g # f
          BY <1>7, <3>5, <4>1 DEF NotOk
        <4>4. f < g /\ p < f
          <5>1. f \in Nat /\ g \in Nat
            BY FrameFacts
          <5> QED BY <3>2, <3>3, <4>1, <4>3, <5>1
        <4>5. Same(f, g)
          <5>1. ASSUME NEW r \in FrameId, f < r, r <= g PROVE frames[r].parent # None
            <6>1. p \in Nat /\ f \in Nat /\ r \in Nat
              BY FrameFacts
            <6>2. p < r
              BY <4>4, <5>1, <6>1
            <6> QED BY <2>1, <5>1, <6>2 DEF Same
          <5> QED BY <5>1 DEF Same
        <4>6. ~Apart(f, g)
          <5>1. frames[g].token \in Closure(frames[g].token)
            BY FrameFacts, ClosureIs
          <5> QED BY <3>3, <4>1, <5>1 DEF Apart
        <4>7. Behalf(f, g)
          BY <1>1, <2>1, <4>4, <4>5, <4>6 DEF CycInv, Branches
        <4> QED BY <4>2, <4>7 DEF Behalf, KidsOk
      <3> QED BY <3>4, <3>5
    <2> QED BY <2>1, <2>2, <2>3, <1>7 DEF CycInv, Branches
  <1>8. Branches'
    BY <1>7 DEF Branches
  <1> QED BY <1>3, <1>4, <1>5, <1>6, <1>8 DEF CycInv

LEMMA AskingKeeps ==
  ASSUME Straight, Base, CycInv, NEW f \in FrameId, Asking(f), UNCHANGED providers
  PROVE  CycInv'
  <1>n. PICK n : n = calls + 1
    OBVIOUS
  <1>q. PICK q : q = frames[f].kids
    OBVIOUS
  <1>0. PICK pc, fn, t :
       /\ Invoked(f, pc, fn, t)
       /\ \/ /\ pc \in {"early", "class"} /\ frames[f].pc = "enter"
             /\ fn = "constructClass" /\ t = frames[f].token
             /\ frames[f].fn # "constructClass" /\ Wiring[t].kind # "factory"
          \/ /\ pc = "deps" /\ frames[f].pc \in {"enter", "deps"}
             /\ fn = "resolve" /\ frames[f].fn = "constructClass"
             /\ KidsOk(f) /\ t \in Needs({frames[f].token})
          \/ /\ pc = "inject" /\ frames[f].pc = "inject"
             /\ fn = "resolve" /\ frames'[f].provider = frames[f].provider
             /\ Len(frames[f].kids) < Len(frames[f].provider.inject)
             /\ t = frames[f].provider.inject[Len(frames[f].kids) + 1]
    BY DEF Asking
  <1>1. /\ n \in FrameId /\ n # f /\ f <= calls /\ frames[n].pc = "idle"
        /\ Busy(f) /\ NotOk(f) /\ q \in Seq(FrameId)
        /\ f \in Nat /\ calls \in Nat /\ n \in Nat /\ n > calls /\ frames[f].token \in Token
    <2>1. n \in FrameId /\ n # f /\ frames[n].pc = "idle" /\ Busy(f) /\ NotOk(f)
      BY <1>n, <1>0 DEF Asking, Invoked, Started, Busy, NotOk
    <2> QED BY <1>n, <1>q, <2>1, FrameFacts DEF NotOk
  <1>2. /\ frames'[f].fn = frames[f].fn /\ frames'[f].token = frames[f].token
        /\ frames'[f].parent = frames[f].parent /\ frames'[f].kids = Append(q, n)
        /\ frames'[f].pc = pc /\ frames'[f].err = frames[f].err
        /\ \A g \in FrameId \ {f, n} : frames'[g] = frames[g]
        /\ calls' = n
        /\ frames'[n].fn = fn /\ frames'[n].token = t /\ frames'[n].parent = f
        /\ frames'[n].pc = "enter" /\ frames'[n].kids = <<>> /\ frames'[n].err = "none"
    BY <1>n, <1>q, <1>0 DEF Asking, Invoked, Started, NewFrame
  <1>3. pc \in {"early", "class", "deps", "inject"}
    BY <1>0
  <1>4. ASSUME NEW g \in FrameId, g # n
        PROVE  /\ frames'[g].fn = frames[g].fn /\ frames'[g].token = frames[g].token
               /\ frames'[g].parent = frames[g].parent /\ frames'[g].err = frames[g].err
               /\ NotOk(g)' <=> NotOk(g)
               /\ Busy(g)' <=> Busy(g)
               /\ frames'[g].pc = "ok" <=> frames[g].pc = "ok"
               /\ g # f => frames'[g].kids = frames[g].kids
    BY <1>1, <1>2, <1>3, <1>4 DEF Busy, NotOk
  <1>5. \A g \in FrameId : g <= calls => g # n
    BY <1>1
  <1>6. \A k \in FrameId : k <= calls =>
           /\ frames'[k].fn = frames[k].fn /\ frames'[k].token = frames[k].token
           /\ frames[k].pc = "ok" => frames'[k].pc = "ok"
    BY <1>4, <1>5
  <1>7. Len(q) \in Nat /\ DOMAIN q = 1 .. Len(q)
        /\ Append(q, n) \in Seq(FrameId) /\ Len(Append(q, n)) = Len(q) + 1
        /\ DOMAIN Append(q, n) = 1 .. Len(q) + 1
        /\ Append(q, n)[Len(q) + 1] = n
        /\ \A i \in DOMAIN q : Append(q, n)[i] = q[i]
    BY <1>1
  <1>8. \A i \in DOMAIN q : /\ q[i] \in FrameId /\ q[i] <= calls /\ q[i] # n
                            /\ f < q[i] /\ Asked(f, q[i])
    BY <1>q, <1>1, <1>5, FrameFacts DEF CycInv, Sound
  <1>9. /\ fn = "constructClass" => frames[f].fn # "constructClass" /\ t = frames[f].token
                                    /\ Wiring[t].kind # "factory"
        /\ fn # "constructClass" => fn = "resolve" /\ t \in Needs({frames[f].token})
    <2>1. CASE pc = "inject"
      <3>1. /\ Wiring[frames[f].token].kind = "factory"
            /\ frames[f].provider.inject = Wiring[frames[f].token].inject
            /\ Len(q) < Len(frames[f].provider.inject)
            /\ t = frames[f].provider.inject[Len(q) + 1] /\ fn = "resolve"
        BY <1>q, <1>0, <2>1 DEF CycInv, Sound
      <3>2. PICK s \in Seq(Token) : s = Wiring[frames[f].token].inject
        BY <1>1, WiringAssumption
      <3>3. NeedsOf(frames[f].token) = s
        BY <3>1, <3>2 DEF NeedsOf
      <3>4. PICK j \in DOMAIN s : j = Len(q) + 1
        BY <1>7, <3>1, <3>2
      <3>5. t = s[j]
        BY <3>1, <3>2, <3>4
      <3> QED BY <1>1, <3>1, <3>3, <3>5, NeedsAre
    <2>2. CASE pc # "inject"
      BY <1>0, <2>2
    <2> QED BY <2>1, <2>2
  <1>10. t \in Token /\ Closure(t) \subseteq Closure(frames[f].token)
    BY <1>1, <1>9, ClosureIs
  <1>11. ASSUME NEW g \in FrameId PROVE Sound(g)'
    <2>1. CASE g \notin {f, n}
      <3>1. frames'[g] = frames[g]
        BY <1>2, <2>1
      <3>2. Sound(g)
        BY DEF CycInv
      <3> QED BY <1>6, <3>1, <3>2, SoundStays
    <2>2. CASE g = n
      <3>1. DOMAIN frames'[n].kids = {}
        BY <1>2
      <3> QED BY <1>2, <1>9, <2>2, <3>1 DEF Sound
    <2>3. CASE g = f
      <3>1. Sound(f)
        BY DEF CycInv
      <3>2. ASSUME NEW i \in DOMAIN Append(q, n) PROVE Asked(f, Append(q, n)[i])'
        <4>1. CASE i \in DOMAIN q
          <5>1. PICK k \in FrameId : k = q[i] /\ k # n /\ Asked(f, k)
            BY <1>8, <4>1
          <5>2. /\ frames'[k].fn = frames[k].fn /\ frames'[k].token = frames[k].token
                /\ frames'[f].fn = frames[f].fn /\ frames'[f].token = frames[f].token
            BY <1>2, <1>4, <5>1
          <5>3. Append(q, n)[i] = k
            BY <1>7, <4>1, <5>1
          <5> QED BY <5>1, <5>2, <5>3 DEF Asked
        <4>2. CASE i = Len(q) + 1
          <5>1. Append(q, n)[i] = n
            BY <1>7, <4>2
          <5> QED BY <1>2, <1>9, <5>1 DEF Asked
        <4> QED BY <1>7, <4>1, <4>2
      <3>3. pc \in {"early", "class"} => Len(Append(q, n)) = 1
        <4>1. pc \in {"early", "class"} => q = <<>>
          BY <1>q, <1>0, <3>1 DEF Sound
        <4>2. q = <<>> => Len(q) = 0
          OBVIOUS
        <4> QED BY <1>7, <4>1, <4>2
      <3>4. pc = "deps" => \A i \in DOMAIN Append(q, n) :
               i # Len(Append(q, n)) => frames'[Append(q, n)[i]].pc = "ok"
        <4>1. ASSUME pc = "deps", NEW i \in DOMAIN q PROVE frames'[Append(q, n)[i]].pc = "ok"
          BY <1>q, <1>0, <1>4, <1>7, <1>8, <4>1 DEF KidsOk
        <4> QED BY <1>7, <4>1
      <3>5. pc = "inject" =>
               /\ Wiring[frames'[f].token].kind = "factory"
               /\ frames'[f].provider.inject = Wiring[frames'[f].token].inject
               /\ \A i \in DOMAIN Append(q, n) :
                    frames'[Append(q, n)[i]].token = frames'[f].provider.inject[i]
        <4> SUFFICES ASSUME pc = "inject"
                     PROVE  /\ Wiring[frames'[f].token].kind = "factory"
                            /\ frames'[f].provider.inject = Wiring[frames'[f].token].inject
                            /\ \A i \in DOMAIN Append(q, n) :
                                 frames'[Append(q, n)[i]].token = frames'[f].provider.inject[i]
          OBVIOUS
        <4>1. /\ frames'[f].provider = frames[f].provider /\ frames[f].pc = "inject"
              /\ t = frames[f].provider.inject[Len(q) + 1]
          BY <1>q, <1>0
        <4>2. \A i \in DOMAIN q : frames[q[i]].token = frames[f].provider.inject[i]
          BY <1>q, <3>1, <4>1 DEF Sound
        <4>3. \A i \in DOMAIN q : frames'[Append(q, n)[i]].token = frames'[f].provider.inject[i]
          BY <1>4, <1>7, <1>8, <4>1, <4>2
        <4>4. frames'[Append(q, n)[Len(q) + 1]].token = frames'[f].provider.inject[Len(q) + 1]
          BY <1>2, <1>7, <4>1
        <4>5. \A i \in DOMAIN Append(q, n) : i \in DOMAIN q \/ i = Len(q) + 1
          BY <1>7
        <4>6. ASSUME NEW i \in DOMAIN Append(q, n)
              PROVE  frames'[Append(q, n)[i]].token = frames'[f].provider.inject[i]
          BY <4>3, <4>4, <4>5
        <4>7. /\ Wiring[frames'[f].token].kind = "factory"
              /\ frames'[f].provider.inject = Wiring[frames'[f].token].inject
          BY <1>2, <3>1, <4>1 DEF Sound
        <4> QED BY <4>6, <4>7
      <3>6. /\ frames'[f].fn = "constructClass" => Wiring[frames'[f].token].kind # "factory"
            /\ frames'[f].fn = "resolveClass" => frames'[f].token \in Direct
            /\ frames'[f].pc = "deps" => frames'[f].fn = "constructClass"
        BY <1>0, <1>2, <3>1 DEF Sound
      <3>7. /\ frames'[f].kids = Append(q, n) /\ frames'[f].pc = pc
            /\ pc \in {"early", "class", "deps", "inject"}
        BY <1>2, <1>3
      <3>8. frames'[f].pc \in {"early", "class", "adopt"} => Len(frames'[f].kids) = 1
        BY <3>3, <3>7
      <3>9. frames'[f].pc = "deps" => \A i \in DOMAIN frames'[f].kids :
              i # Len(frames'[f].kids) => frames'[frames'[f].kids[i]].pc = "ok"
        BY <3>4, <3>7
      <3>10. frames'[f].pc = "inject" =>
               /\ Wiring[frames'[f].token].kind = "factory"
               /\ frames'[f].provider.inject = Wiring[frames'[f].token].inject
               /\ \A i \in DOMAIN frames'[f].kids :
                    frames'[frames'[f].kids[i]].token = frames'[f].provider.inject[i]
        BY <3>5, <3>7
      <3>11. \A i \in DOMAIN frames'[f].kids : Asked(f, frames[f].kids[i])'
        BY <3>2, <3>7 DEF Asked
      <3>12. frames'[f].pc \notin {"enter", "store", "ok", "producing"}
        BY <3>7
      <3> QED BY <2>3, <3>6, <3>8, <3>9, <3>10, <3>11, <3>12 DEF Sound
    <2> QED BY <2>1, <2>2, <2>3
  <1>12. Registry'
    BY DEF CycInv, Registry
  <1>13. Era'
    <2> SUFFICES ASSUME NEW g \in FrameId, NEW r \in FrameId, Busy(g)', g < r, r <= calls'
                 PROVE  frames'[r].parent # None
      BY DEF Era
    <2>1. CASE r = n
      <3>1. f # None
        BY WiringAssumption DEF FrameId, None
      <3> QED BY <1>2, <2>1, <3>1
    <2>2. CASE r # n
      <3>1. r <= calls /\ g # n
        <4>1. r \in Nat /\ g \in Nat
          BY FrameFacts
        <4> QED BY <1>n, <1>1, <1>2, <2>2, <4>1
      <3> QED BY <1>4, <2>2, <3>1 DEF CycInv, Era
    <2> QED BY <2>1, <2>2
  <1>14. CircularIsCycle'
    <2> SUFFICES ASSUME NEW g \in FrameId, frames'[g].err = "circular" PROVE Circular(g)'
      BY DEF CircularIsCycle
    <2>1. g # n
      BY <1>2
    <2> QED BY <1>4, <2>1 DEF CycInv, CircularIsCycle, Circular
  <1>15. ASSUME NEW p \in FrameId, NEW g \in FrameId, p < g,
                NotOk(p)', NotOk(g)', Same(p, g)'
         PROVE  (Apart(p, g) \/ Behalf(p, g))'
    <2>0. p \in Nat /\ g \in Nat
      BY FrameFacts
    <2>1. p # n
      <3>1. CASE g = n
        BY <1>15, <2>0, <3>1, <1>1
      <3>2. CASE g # n
        <4>1. NotOk(g)
          BY <1>4, <1>15, <3>2
        <4>2. g <= calls
          BY <4>1, FrameFacts DEF NotOk
        <4> QED BY <1>1, <1>15, <2>0, <4>2
      <3> QED BY <3>1, <3>2
    <2>2. NotOk(p) /\ p <= calls
      <3>1. NotOk(p)
        BY <1>4, <1>15, <2>1
      <3> QED BY <3>1, FrameFacts DEF NotOk
    <2>3. ASSUME NEW h \in FrameId, h # n, p <= h, h <= g, p # h, NotOk(p), NotOk(h)
          PROVE  Apart(p, h) \/ Behalf(p, h)
      <3>1. h \in Nat /\ p < h
        BY <2>0, <2>3, FrameFacts
      <3>2. h <= calls
        BY <2>3, FrameFacts DEF NotOk
      <3>3. ASSUME NEW r \in FrameId, p < r, r <= h PROVE frames[r].parent # None
        <4>1. r \in Nat
          BY FrameFacts
        <4>2. r <= g /\ r <= calls
          BY <2>0, <2>3, <3>1, <3>2, <3>3, <4>1, <1>1
        <4>3. r # n
          BY <1>5, <4>2
        <4>4. frames'[r].parent # None
          BY <1>15, <3>3, <4>2 DEF Same
        <4> QED BY <1>4, <4>3, <4>4
      <3>4. Same(p, h)
        BY <3>3 DEF Same
      <3> QED BY <2>3, <3>1, <3>4 DEF CycInv, Branches
    <2>4. ASSUME NEW h \in FrameId, h # n, h <= g, Behalf(p, h),
                 Closure(frames'[g].token) \subseteq Closure(frames[h].token)
          PROVE  Behalf(p, g)'
      <3>1. PICK i \in DOMAIN frames[p].kids :
               /\ frames[p].kids[i] <= h /\ frames[frames[p].kids[i]].pc # "ok"
               /\ Closure(frames[h].token) \subseteq Closure(frames[frames[p].kids[i]].token)
        BY <2>4 DEF Behalf
      <3>2. PICK k \in FrameId : k = frames[p].kids[i] /\ k <= calls
        BY FrameFacts
      <3>3. /\ k <= h /\ frames[k].pc # "ok" /\ k # n
            /\ Closure(frames[h].token) \subseteq Closure(frames[k].token)
        BY <1>5, <3>1, <3>2
      <3>4. k <= g
        <4>1. k \in Nat /\ h \in Nat
          BY FrameFacts
        <4> QED BY <2>0, <2>4, <3>3, <4>1
      <3>5. frames'[k].pc # "ok" /\ frames'[k].token = frames[k].token
        BY <1>4, <3>3
      <3>6. i \in DOMAIN frames'[p].kids /\ frames'[p].kids[i] = k
        <4>1. CASE p = f
          BY <1>q, <1>2, <1>7, <3>2, <4>1
        <4>2. CASE p # f
          BY <1>4, <2>1, <3>2, <4>2
        <4> QED BY <4>1, <4>2
      <3>7. Closure(frames'[g].token) \subseteq Closure(frames'[k].token)
        BY <2>4, <3>3, <3>5
      <3> QED BY <3>4, <3>5, <3>6, <3>7 DEF Behalf
    <2>5. CASE g # n
      <3>1. NotOk(g)
        BY <1>4, <1>15, <2>5
      <3>2. Apart(p, g) \/ Behalf(p, g)
        BY <1>15, <2>0, <2>2, <2>3, <2>5, <3>1
      <3>3. frames'[g].token = frames[g].token /\ frames'[p].token = frames[p].token
        BY <1>4, <2>1, <2>5
      <3>4. Apart(p, g) => Apart(p, g)'
        BY <3>3 DEF Apart
      <3>5. Behalf(p, g) => Behalf(p, g)'
        BY <2>0, <2>4, <2>5, <3>3
      <3> QED BY <3>2, <3>4, <3>5
    <2>6. CASE g = n
      <3>0. /\ frames'[g].token = t /\ frames'[p].token = frames[p].token
            /\ frames'[f].token = frames[f].token
        BY <1>2, <1>4, <2>1, <2>6
      <3>1. CASE p = f
        <4>1. /\ Len(q) + 1 \in DOMAIN frames'[f].kids
              /\ frames'[f].kids[Len(q) + 1] = n
          BY <1>2, <1>7
        <4>2. n <= g /\ frames'[n].pc # "ok"
              /\ Closure(frames'[g].token) \subseteq Closure(frames'[n].token)
          BY <1>2, <1>1, <2>6
        <4> QED BY <3>1, <4>1, <4>2 DEF Behalf
      <3>2. CASE p < f
        <4>1. f # n /\ p <= f /\ f <= g /\ p # f
          BY <1>1, <2>0, <2>6, <3>2
        <4>2. Apart(p, f) \/ Behalf(p, f)
          BY <1>1, <2>2, <2>3, <4>1
        <4>3. Apart(p, f) => Apart(p, g)'
          BY <1>10, <3>0 DEF Apart
        <4>4. Behalf(p, f) => Behalf(p, g)'
          BY <1>10, <2>4, <3>0, <4>1
        <4> QED BY <4>2, <4>3, <4>4
      <3>3. CASE f < p
        <4>1. ASSUME NEW r \in FrameId, f < r, r <= p PROVE frames[r].parent # None
          <5>1. r \in Nat
            BY FrameFacts
          <5>2. r <= calls
            BY <1>1, <2>0, <2>2, <4>1, <5>1
          <5> QED BY <1>1, <4>1, <5>2 DEF CycInv, Era
        <4>2. Same(f, p)
          BY <4>1 DEF Same
        <4>3. Apart(f, p) \/ Behalf(f, p)
          BY <1>1, <2>2, <3>3, <4>2 DEF CycInv, Branches
        <4>4. CASE Apart(f, p)
          BY <1>10, <3>0, <4>4 DEF Apart
        <4>5. CASE Behalf(f, p)
          <5>1. PICK i \in DOMAIN q :
                   /\ frames[q[i]].pc # "ok"
                   /\ Closure(frames[p].token) \subseteq Closure(frames[q[i]].token)
            BY <1>q, <4>5 DEF Behalf
          <5>2. frames[f].pc = "enter" => q = <<>>
            BY <1>q DEF CycInv, Sound
          <5>3. ~KidsOk(f) /\ frames[f].pc # "enter"
            BY <1>q, <5>1, <5>2 DEF KidsOk
          <5>4. /\ pc = "inject" /\ frames[f].pc = "inject"
                /\ t = frames[f].provider.inject[Len(q) + 1]
                /\ Len(q) < Len(frames[f].provider.inject)
            BY <1>q, <1>0, <5>2, <5>3, <1>7
          <5>5. /\ Wiring[frames[f].token].kind = "factory"
                /\ frames[f].provider.inject = Wiring[frames[f].token].inject
                /\ frames[q[i]].token = frames[f].provider.inject[i]
            BY <1>q, <5>1, <5>4 DEF CycInv, Sound
          <5>6. PICK s \in Seq(Token) : s = Wiring[frames[f].token].inject
            BY <1>1, WiringAssumption
          <5>7. i \in DOMAIN s /\ Len(q) + 1 \in DOMAIN s /\ i # Len(q) + 1
            BY <1>7, <5>1, <5>4, <5>5, <5>6
          <5>8. Closure(s[i]) \cap Closure(s[Len(q) + 1]) = {}
            BY <1>1, <5>5, <5>6, <5>7 DEF Straight
          <5>9. Closure(frames[p].token) \cap Closure(t) = {}
            BY <5>1, <5>4, <5>5, <5>6, <5>8
          <5> QED BY <3>0, <5>9 DEF Apart
        <4> QED BY <4>3, <4>4, <4>5
      <3> QED BY <1>1, <2>0, <3>1, <3>2, <3>3
    <2> QED BY <2>5, <2>6
  <1>16. Branches'
    BY <1>15 DEF Branches
  <1> QED BY <1>11, <1>12, <1>13, <1>14, <1>16 DEF CycInv

-----------------------------------------------------------------------------
LEMMA SetErr ==
  ASSUME Base, NEW f \in FrameId, NEW fr, frames' = [frames EXCEPT ![f] = fr]
  PROVE  frames'[f] = fr
  <1>1. frames \in [FrameId -> Frame]
    BY Parts DEF Base, MachineOK
  <1> QED BY <1>1

LEMMA InvokeErr ==
  ASSUME Base, NEW f \in FrameId, f <= calls, NEW fr \in Frame, NEW fn, NEW t, NEW below,
         Invoke(f, fr, fn, t, below)
  PROVE  frames'[f].err = fr.err
  <1> DEFINE fk == [fr EXCEPT !.kids = Append(@, calls + 1)]
  <1>1. MachineOK /\ f \in Nat /\ calls \in Nat
    BY Parts, FrameFacts DEF Base
  <1>2. frames' = [frames EXCEPT ![f] = fk, ![calls + 1] = NewFrame(fn, t, f)]
    BY DEF Invoke
  <1>3. fk.err = fr.err
    BY DEF Frame
  <1> HIDE DEF fk
  <1>4. frames'[f] = fk
    BY <1>1, <1>2 DEF MachineOK
  <1> QED BY <1>3, <1>4

LEMMA KidsOkIf ==
  ASSUME Base, CycInv, NEW f \in FrameId
  PROVE  /\ frames[f].pc \in {"enter", "store", "producing"} => KidsOk(f)
         /\ frames[f].pc \in {"early", "class", "adopt", "deps"} =>
              /\ LastKid(f) \in FrameId
              /\ \E i \in DOMAIN frames[f].kids : LastKid(f) = frames[f].kids[i]
              /\ frames[LastKid(f)].pc = "ok" => KidsOk(f)
  <1>1. Sound(f)
    BY DEF CycInv
  <1>2. PICK q \in Seq(FrameId) : q = frames[f].kids
    BY FrameFacts
  <1>3. q = <<>> => KidsOk(f)
    BY <1>2 DEF KidsOk
  <1>4. frames[f].pc \in {"enter", "store", "producing"} => KidsOk(f)
    BY <1>1, <1>2, <1>3 DEF Sound
  <1>5. ASSUME frames[f].pc \in {"early", "class", "adopt", "deps"}
        PROVE  /\ LastKid(f) \in FrameId
               /\ \E i \in DOMAIN frames[f].kids : LastKid(f) = frames[f].kids[i]
               /\ frames[LastKid(f)].pc = "ok" => KidsOk(f)
    <2>1. q # <<>>
      BY <1>2, <1>5, Parts DEF Base, MachineOK, FrameOK
    <2>2. Len(q) \in DOMAIN q /\ LastKid(f) = q[Len(q)] /\ LastKid(f) \in FrameId
      BY <1>2, <2>1 DEF LastKid
    <2>3. CASE frames[f].pc = "deps"
      <3>1. \A i \in DOMAIN q : i # Len(q) => frames[q[i]].pc = "ok"
        BY <1>1, <1>2, <2>3 DEF Sound
      <3>2. frames[LastKid(f)].pc = "ok" => KidsOk(f)
        BY <1>2, <2>2, <3>1 DEF KidsOk
      <3> QED BY <1>2, <2>2, <3>2
    <2>4. CASE frames[f].pc # "deps"
      <3>1. Len(q) = 1
        BY <1>1, <1>2, <1>5, <2>4 DEF Sound
      <3>2. \A i \in DOMAIN q : i = Len(q)
        BY <3>1
      <3>3. frames[LastKid(f)].pc = "ok" => KidsOk(f)
        BY <1>2, <2>2, <3>2 DEF KidsOk
      <3> QED BY <1>2, <2>2, <3>3
    <2> QED BY <2>3, <2>4
  <1> QED BY <1>4, <1>5

(* What constructClass asks for is what its token needs.                   *)
LEMMA DepsNeeded ==
  ASSUME Straight, Base, CycInv, NEW f \in FrameId,
         frames[f].fn = "constructClass", NEW i \in DOMAIN DepsOf(f)
  PROVE  DepsOf(f)[i] \in Needs({frames[f].token})
  <1>1. frames[f].token \in ClassToken /\ frames[f].token \in Token
    BY Parts, FrameFacts DEF Base, MachineOK, FrameOK
  <1>2. Wiring[frames[f].token].kind # "factory"
    BY DEF CycInv, Sound
  <1>3. NeedsOf(frames[f].token) = DepsOf(f)
    BY <1>1, <1>2, WiringAssumption DEF NeedsOf, DepsOf, Straight
  <1> QED BY <1>1, <1>3, NeedsAre

LEMMA SynchronousDoes ==
  ASSUME Straight, Base, CycInv, NEW f \in FrameId, Synchronous(f)
  PROVE  (Moving(f) \/ Asking(f)) /\ UNCHANGED providers
  <1> USE WiringAssumption
  <1>0. IInv /\ MachineOK /\ StoreOK
    BY Parts DEF Base
  <1>1. /\ frames[f] \in Frame /\ frames[f].token \in Token
        /\ frames[f].provider \in Provider /\ frames[f].kids \in Seq(FrameId)
    BY <1>0 DEF MachineOK, Frame
  <1>2. OnTop(f) /\ f <= calls /\ frames[f].pc \in {"enter", "early", "inject"} /\ Busy(f)
    <2>1. OnTop(f) /\ frames[f].pc \in {"enter", "early", "inject"}
      BY DEF Synchronous, EnterCached, EnterCircular, EnterMissing, EnterUnregistered,
             ReleaseEarly, EnterValue, EnterClass, EnterFactory, InjectNext, InjectAll,
             ConstructRefused, ConstructLeaf, ConstructLeafThrows, ConstructBegin,
             Fresh, Uncached, Entering
    <2> QED BY <1>0, <2>1, Running DEF Busy
  <1>3. ProviderOf(f) \in Provider
    BY <1>0, <1>1 DEF ProviderOf, StoreOK
  <1>4. frames[f].pc = "enter" => KidsOk(f)
    BY KidsOkIf
  <1>5. ProviderOf(f) = Wiring[frames[f].token] \/ ProviderOf(f).kind = "value"
    BY <1>1 DEF ProviderOf, CycInv, Registry
  <1>6. UNCHANGED providers
    BY DEF Synchronous, EnterCached, EnterCircular, EnterMissing, EnterUnregistered,
           ReleaseEarly, EnterValue, EnterClass, EnterFactory, InjectNext, InjectAll,
           ConstructRefused, ConstructLeaf, ConstructLeafThrows, ConstructBegin, store
  <1>EnterCached. CASE EnterCached(f) \/ ConstructLeaf(f)
    <2>1. PICK o \in Nat : Return(f, Ok(f, o)) /\ frames[f].pc = "enter"
      <3>1. instances[frames[f].token] \in Nat /\ NextObject \in Nat
        BY <1>0, <1>1 DEF StoreOK, NextObject
      <3> QED
        BY <3>1, <1>EnterCached DEF EnterCached, ConstructLeaf, Uncached, Entering
    <2>2. Turned(f, "ok", o)
      BY <1>0, <2>1, OkTurned DEF Return
    <2>3. frames'[f] = Ok(f, o)
      BY <2>1, SetErr DEF Return
    <2>4. frames'[f].err = frames[f].err /\ frames'[f].pc = "ok" /\ frames'[f].val = o
      BY <1>1, <2>3 DEF Ok, Frame
    <2> QED BY <1>2, <1>4, <1>6, <2>1, <2>2, <2>4 DEF Moving
  <1>Failing. CASE EnterCircular(f) \/ EnterMissing(f) \/ ConstructRefused(f)
                   \/ ConstructLeafThrows(f)
    <2>1. PICK e \in Reason : /\ Return(f, Failed(f, e)) /\ frames[f].pc = "enter"
                              /\ e = "circular" => /\ frames[f].fn # "constructClass"
                                                   /\ frames[f].token \in resolving
      BY <1>Failing DEF EnterCircular, EnterMissing, ConstructRefused, ConstructLeafThrows,
                        Reason, Fresh, Uncached, Entering
    <2>2. Turned(f, "failed", frames[f].val)
      BY <1>0, <2>1, FailedTurned DEF Return
    <2>3. frames'[f] = Failed(f, e)
      BY <2>1, SetErr DEF Return
    <2>4. frames'[f].err = e /\ frames'[f].pc = "failed" /\ frames'[f].val = frames[f].val
      BY <1>1, <2>3 DEF Failed, Frame
    <2> QED BY <1>2, <1>6, <2>1, <2>2, <2>4 DEF Moving
  <1>EnterUnregistered. CASE EnterUnregistered(f)
    <2> DEFINE fr == [frames[f] EXCEPT !.pc = "early"]
    <2>1. /\ fr \in Frame /\ fr.fn = frames[f].fn /\ fr.token = frames[f].token
          /\ fr.parent = frames[f].parent /\ fr.kids = frames[f].kids
          /\ fr.val = frames[f].val /\ fr.pc = "early" /\ fr.err = frames[f].err
      BY <1>1 DEF Frame, Pc, HoldingPc
    <2>2. /\ Invoke(f, fr, "constructClass", frames[f].token, stack) /\ frames[f].pc = "enter"
          /\ frames[f].fn \in {"resolve", "resolveClass"}
          /\ frames[f].fn = "resolveClass" \/ ProviderOf(f).kind = "none"
      BY <1>EnterUnregistered DEF EnterUnregistered, Fresh, Uncached, Entering
    <2>3. Invoked(f, fr.pc, "constructClass", frames[f].token)
      BY <1>0, <1>2, <2>1, <2>2, InvokeInvoked
    <2>4. frames'[f].err = frames[f].err
      BY <1>2, <2>1, <2>2, InvokeErr
    <2>5. Wiring[frames[f].token].kind # "factory"
      <3>1. CASE frames[f].fn = "resolveClass"
        BY <3>1 DEF CycInv, Sound, Straight
      <3>2. CASE ProviderOf(f).kind = "none"
        BY <1>5, <3>2
      <3> QED BY <2>2, <3>1, <3>2
    <2>6. Invoked(f, "early", "constructClass", frames[f].token)
      BY <2>1, <2>3
    <2>7. Asking(f)
      BY <1>2, <2>2, <2>4, <2>5, <2>6 DEF Asking
    <2> QED BY <1>6, <2>7
  <1>Moved. ASSUME NEW pc \in {"adopt", "store", "awaitAll", "producing", "inject"}, NEW p \in Provider,
                   frames' = [frames EXCEPT ![f] = [frames[f] EXCEPT !.pc = pc, !.provider = p]],
                   calls' = calls,
                   pc = "producing" => frames[f].pc = "enter",
                   pc = "adopt" => frames[f].pc = "early",
                   pc = "store" => frames[f].pc = "enter",
                   pc = "inject" =>
                     /\ frames[f].pc = "enter" /\ Wiring[frames[f].token].kind = "factory"
                     /\ p.inject = Wiring[frames[f].token].inject
            PROVE  Moving(f)
    <2>1. Turned(f, pc, frames[f].val)
      BY <1>0, <1>Moved, MovedTurned DEF Pc, HoldingPc
    <2>2. frames'[f] = [frames[f] EXCEPT !.pc = pc, !.provider = p]
      BY <1>Moved, SetErr
    <2>3. /\ frames'[f].err = frames[f].err /\ frames'[f].pc = pc
          /\ frames'[f].val = frames[f].val /\ frames'[f].provider = p
      BY <1>1, <2>2 DEF Frame
    <2> QED BY <1>2, <1>4, <1>Moved, <2>1, <2>3 DEF Moving
  <1>ReleaseEarly. CASE ReleaseEarly(f)
    <2>1. [frames[f] EXCEPT !.pc = "adopt", !.provider = frames[f].provider]
            = [frames[f] EXCEPT !.pc = "adopt"]
      BY <1>1 DEF Frame
    <2> QED BY <1>1, <1>6, <1>Moved, <2>1, <1>ReleaseEarly DEF ReleaseEarly, Return
  <1>EnterValue. CASE EnterValue(f)
    BY <1>3, <1>6, <1>Moved, <1>EnterValue DEF EnterValue, Return, Fresh, Uncached, Entering
  <1>EnterClass. CASE EnterClass(f)
    <2> DEFINE fr == [frames[f] EXCEPT !.pc = "class", !.provider = ProviderOf(f)]
    <2>1. /\ fr \in Frame /\ fr.fn = frames[f].fn /\ fr.token = frames[f].token
          /\ fr.parent = frames[f].parent /\ fr.kids = frames[f].kids
          /\ fr.val = frames[f].val /\ fr.pc = "class" /\ fr.err = frames[f].err
      BY <1>1, <1>3 DEF Frame, Pc, HoldingPc
    <2>2. /\ Invoke(f, fr, "constructClass", ProviderOf(f).useClass, Tail(stack))
          /\ frames[f].pc = "enter" /\ frames[f].fn = "resolve" /\ ProviderOf(f).kind = "class"
      BY <1>EnterClass DEF EnterClass, Fresh, Uncached, Entering
    <2>3. Invoked(f, fr.pc, "constructClass", ProviderOf(f).useClass)
      BY <1>0, <1>2, <2>1, <2>2, InvokeInvoked
    <2>4. frames'[f].err = frames[f].err
      BY <1>2, <2>1, <2>2, InvokeErr
    <2>5. ProviderOf(f).useClass = frames[f].token /\ Wiring[frames[f].token].kind # "factory"
      BY <1>1, <1>5, <2>2 DEF Straight
    <2>6. Invoked(f, "class", "constructClass", frames[f].token)
      BY <2>1, <2>3, <2>5
    <2>7. Asking(f)
      BY <1>2, <2>2, <2>4, <2>5, <2>6 DEF Asking
    <2> QED BY <1>6, <2>7
  <1>EnterFactory. CASE EnterFactory(f)
    <2>1. PICK pc \in {"producing", "inject"} :
            /\ frames' = [frames EXCEPT ![f] =
                            [frames[f] EXCEPT !.pc = pc, !.provider = ProviderOf(f)]]
            /\ calls' = calls
      BY <1>EnterFactory DEF EnterFactory, Return, Continue
    <2>2. /\ frames[f].pc = "enter" /\ ProviderOf(f) = Wiring[frames[f].token]
          /\ Wiring[frames[f].token].kind = "factory"
      BY <1>5, <1>EnterFactory DEF EnterFactory, Fresh, Uncached, Entering
    <2> QED BY <1>3, <1>6, <1>Moved, <2>1, <2>2
  <1>InjectNext. CASE InjectNext(f)
    <2> DEFINE t == frames[f].provider.inject[Len(frames[f].kids) + 1]
    <2>1. /\ Invoke(f, frames[f], "resolve", t, stack) /\ frames[f].pc = "inject"
          /\ Len(frames[f].kids) < Len(frames[f].provider.inject)
      BY <1>InjectNext DEF InjectNext
    <2>2. Invoked(f, frames[f].pc, "resolve", t) /\ frames'[f].provider = frames[f].provider
      BY <1>0, <1>1, <1>2, <2>1, InvokeInvoked
    <2>3. frames'[f].err = frames[f].err
      BY <1>1, <1>2, <2>1, InvokeErr
    <2>4. Asking(f)
      BY <1>2, <2>1, <2>2, <2>3 DEF Asking
    <2> QED BY <1>6, <2>4
  <1>InjectAll. CASE InjectAll(f)
    <2>1. [frames[f] EXCEPT !.pc = "awaitAll", !.provider = frames[f].provider]
            = [frames[f] EXCEPT !.pc = "awaitAll"]
      BY <1>1 DEF Frame
    <2> QED BY <1>1, <1>6, <1>Moved, <2>1, <1>InjectAll DEF InjectAll, Return
  <1>ConstructBegin. CASE ConstructBegin(f)
    <2> DEFINE fr == [frames[f] EXCEPT !.pc = "deps"]
    <2>1. /\ frames[f].token \in ClassToken /\ frames[f].pc = "enter"
          /\ frames[f].fn = "constructClass"
      BY <1>0, <1>ConstructBegin DEF ConstructBegin, Uncached, Entering, MachineOK, FrameOK
    <2>2. DepsOf(f) \in Seq(Token) /\ DepsOf(f) # <<>>
      BY <2>1, <1>ConstructBegin DEF ConstructBegin, DepsOf
    <2>3. 1 \in DOMAIN DepsOf(f)
      BY <2>2
    <2>4. /\ fr \in Frame /\ fr.fn = frames[f].fn /\ fr.token = frames[f].token
          /\ fr.parent = frames[f].parent /\ fr.kids = frames[f].kids
          /\ fr.val = frames[f].val /\ fr.pc = "deps" /\ fr.err = frames[f].err
      BY <1>1 DEF Frame, Pc, HoldingPc
    <2>5. Invoke(f, fr, "resolve", DepsOf(f)[1], Tail(stack))
      BY <1>ConstructBegin DEF ConstructBegin
    <2>6. Invoked(f, fr.pc, "resolve", DepsOf(f)[1])
      BY <1>0, <1>2, <2>4, <2>5, InvokeInvoked
    <2>7. frames'[f].err = frames[f].err
      BY <1>2, <2>4, <2>5, InvokeErr
    <2>8. DepsOf(f)[1] \in Needs({frames[f].token})
      BY <2>1, <2>3, DepsNeeded
    <2>9. Invoked(f, "deps", "resolve", DepsOf(f)[1])
      BY <2>4, <2>6
    <2>10. Asking(f)
      BY <1>2, <1>4, <2>1, <2>7, <2>8, <2>9 DEF Asking
    <2> QED BY <1>6, <2>10
  <1> QED
    BY <1>EnterCached, <1>Failing, <1>EnterUnregistered, <1>ReleaseEarly, <1>EnterValue,
       <1>EnterClass, <1>EnterFactory, <1>InjectNext, <1>InjectAll, <1>ConstructBegin
    DEF Synchronous

LEMMA ContinuationDoes ==
  ASSUME Straight, Base, CycInv, NEW f \in FrameId, Continuation(f)
  PROVE  (Moving(f) \/ Asking(f)) /\ UNCHANGED providers
  <1> USE WiringAssumption
  <1>0. IInv /\ MachineOK /\ StoreOK
    BY Parts DEF Base
  <1>1. /\ frames[f] \in Frame /\ frames[f].token \in Token
        /\ frames[f].provider \in Provider /\ frames[f].kids \in Seq(FrameId)
    BY <1>0 DEF MachineOK, Frame
  <1>2. /\ frames[f].pc \in {"adopt", "store", "class", "awaitAll", "producing", "deps"}
        /\ Busy(f)
    BY DEF Continuation, Adopt, StoreValue, StoreClass, Produce, Reject, FactoryReturns,
           FactoryThrows, ConstructNext, ConstructFinish, ConstructThrows,
           ConstructReject, DepReady, Resumed, Busy
  <1>3. f <= calls
    BY <1>0, <1>2, Running
  <1>4. NextObject \in Nat /\ frames[f].provider.value \in Nat
    BY <1>0, <1>1 DEF NextObject, StoreOK, Provider
  <1>5. ASSUME NEW k \in FrameId
        PROVE frames[k].val \in Nat /\ frames[k].err \in Reason
    BY <1>0 DEF MachineOK, Frame
  <1>6. /\ frames[f].pc \in {"store", "producing"} => KidsOk(f)
        /\ frames[f].pc \in {"adopt", "class", "deps"} =>
             /\ LastKid(f) \in FrameId
             /\ \E i \in DOMAIN frames[f].kids : LastKid(f) = frames[f].kids[i]
             /\ frames[LastKid(f)].pc = "ok" => KidsOk(f)
    BY KidsOkIf
  <1>7. UNCHANGED providers
    BY DEF Continuation, Adopt, StoreValue, StoreClass, Produce, Reject, FactoryReturns,
           FactoryThrows, ConstructNext, ConstructFinish, ConstructThrows,
           ConstructReject, store
  <1>Oks. ASSUME NEW o \in Nat, Continue(f, Ok(f, o)), KidsOk(f) PROVE Moving(f)
    <2>1. Turned(f, "ok", o)
      BY <1>0, <1>Oks, OkTurned DEF Continue
    <2>2. frames'[f] = Ok(f, o)
      BY <1>Oks, SetErr DEF Continue
    <2>3. frames'[f].err = frames[f].err /\ frames'[f].pc = "ok" /\ frames'[f].val = o
      BY <1>1, <2>2 DEF Ok, Frame
    <2> QED BY <1>2, <1>Oks, <2>1, <2>3 DEF Moving
  <1>Fails. ASSUME NEW e \in Reason, Continue(f, Failed(f, e)),
                   \/ e # "circular"
                   \/ \E i \in DOMAIN frames[f].kids : frames[frames[f].kids[i]].err = e
            PROVE  Moving(f)
    <2>1. Turned(f, "failed", frames[f].val)
      BY <1>0, <1>Fails, FailedTurned DEF Continue
    <2>2. frames'[f] = Failed(f, e)
      BY <1>Fails, SetErr DEF Continue
    <2>3. frames'[f].err = e /\ frames'[f].pc = "failed" /\ frames'[f].val = frames[f].val
      BY <1>1, <2>2 DEF Failed, Frame
    <2> QED BY <1>2, <1>Fails, <2>1, <2>3 DEF Moving
  <1>Adopt. CASE Adopt(f)
    <2>0. PICK k \in FrameId : k = LastKid(f)
      BY <1>6, <1>Adopt DEF Adopt, Resumed
    <2> DEFINE fr == [frames[f] EXCEPT !.pc = frames[k].pc, !.val = frames[k].val,
                                       !.err = frames[k].err]
    <2>1. frames[k].pc \in {"ok", "failed"} /\ frames[f].pc = "adopt"
      BY <2>0, <1>Adopt DEF Adopt, Resumed, Settled
    <2>2. frames[k].pc \in Pc /\ frames[k].val \in Nat /\ frames[k].err \in Reason
      BY <1>5, <2>1 DEF Pc
    <2>3. /\ fr \in Frame /\ fr.fn = frames[f].fn /\ fr.token = frames[f].token
          /\ fr.parent = frames[f].parent /\ fr.kids = frames[f].kids
          /\ fr.pc = frames[k].pc /\ fr.err = frames[k].err
      BY <1>1, <2>2 DEF Frame
    <2>4. Continue(f, fr)
      BY <2>0, <1>Adopt DEF Adopt
    <2> HIDE DEF fr
    <2>5. Turned(f, fr.pc, fr.val)
      BY <1>0, <2>3, <2>4, SetTurned DEF Continue
    <2>6. frames'[f] = fr
      BY <2>4, SetErr DEF Continue
    <2>7. frames'[f].pc = "ok" => KidsOk(f)
      BY <1>6, <2>0, <2>1, <2>3, <2>6
    <2>8. PICK i \in DOMAIN frames[f].kids : k = frames[f].kids[i]
      BY <1>6, <2>0, <2>1
    <2>9. Moving(f)
      BY <1>2, <2>1, <2>3, <2>5, <2>6, <2>7, <2>8 DEF Moving
    <2> QED BY <1>7, <2>9
  <1>StoreValue. CASE StoreValue(f)
    BY <1>4, <1>6, <1>7, <1>Oks, <1>StoreValue DEF StoreValue, Resumed
  <1>StoreClass. CASE StoreClass(f)
    <2>1. LastKid(f) \in FrameId /\ KidsOk(f)
      BY <1>6, <1>StoreClass DEF StoreClass, Resumed
    <2> QED
      BY <1>5, <1>7, <1>Oks, <2>1, <1>StoreClass DEF StoreClass
  <1>Produce. CASE Produce(f)
    <2>1. [frames[f] EXCEPT !.pc = "producing", !.provider = frames[f].provider]
            = [frames[f] EXCEPT !.pc = "producing"]
      BY <1>1 DEF Frame
    <2>2. Turned(f, "producing", frames[f].val)
      BY <1>0, <1>1, <2>1, <1>Produce, MovedTurned DEF Produce, Resumed, Continue, Pc, HoldingPc
    <2>3. frames'[f] = [frames[f] EXCEPT !.pc = "producing"]
      BY <1>Produce, SetErr DEF Produce, Continue
    <2>4. /\ frames'[f].err = frames[f].err /\ frames'[f].pc = "producing"
          /\ frames'[f].val = frames[f].val
      BY <1>1, <2>3 DEF Frame
    <2>5. KidsOk(f)
      BY <1>Produce DEF Produce, KidsOk
    <2>6. Moving(f)
      BY <1>2, <2>2, <2>4, <2>5 DEF Moving
    <2> QED BY <1>7, <2>6
  <1>Reject. CASE Reject(f)
    <2>1. PICK i \in DOMAIN frames[f].kids :
                 Continue(f, Failed(f, frames[frames[f].kids[i]].err))
      BY <1>Reject DEF Reject
    <2>2. frames[f].kids[i] \in FrameId
      BY <1>1
    <2> QED
      BY <1>5, <1>7, <1>Fails, <2>1, <2>2
  <1>Throws. CASE FactoryThrows(f) \/ ConstructThrows(f)
    BY <1>7, <1>Fails, <1>Throws, ReasonFacts DEF FactoryThrows, ConstructThrows
  <1>ConstructReject. CASE ConstructReject(f)
    <2>1. LastKid(f) \in FrameId /\ \E i \in DOMAIN frames[f].kids : LastKid(f) = frames[f].kids[i]
      BY <1>6, <1>ConstructReject DEF ConstructReject, Resumed
    <2> QED
      BY <1>5, <1>7, <1>Fails, <2>1, <1>ConstructReject DEF ConstructReject
  <1>Makes. CASE FactoryReturns(f) \/ ConstructFinish(f)
    <2>1. KidsOk(f)
      BY <1>6, <1>Makes DEF FactoryReturns, ConstructFinish, DepReady, Resumed
    <2> QED
      BY <1>4, <1>7, <1>Oks, <1>Makes, <2>1 DEF FactoryReturns, ConstructFinish
  <1>ConstructNext. CASE ConstructNext(f)
    <2> DEFINE t == DepsOf(f)[Len(frames[f].kids) + 1]
    <2>1. /\ Invoke(f, frames[f], "resolve", t, <<>>) /\ frames[f].pc = "deps"
          /\ Len(frames[f].kids) < Len(DepsOf(f)) /\ KidsOk(f)
      BY <1>6, <1>ConstructNext DEF ConstructNext, DepReady, Resumed
    <2>2. Invoked(f, frames[f].pc, "resolve", t)
      BY <1>0, <1>1, <1>3, <2>1, InvokeInvoked
    <2>3. frames'[f].err = frames[f].err
      BY <1>1, <1>3, <2>1, InvokeErr
    <2>4. frames[f].fn = "constructClass"
      BY <2>1 DEF CycInv, Sound
    <2>5. DepsOf(f) \in Seq(Token)
      BY <1>0, <2>1 DEF DepsOf, MachineOK, FrameOK
    <2>6. Len(frames[f].kids) + 1 \in DOMAIN DepsOf(f)
      BY <1>1, <2>1, <2>5
    <2>7. t \in Needs({frames[f].token})
      BY <2>4, <2>6, DepsNeeded
    <2> HIDE DEF t
    <2>8. Asking(f)
      BY <1>2, <2>1, <2>2, <2>3, <2>4, <2>7 DEF Asking
    <2> QED BY <1>7, <2>8
  <1> QED
    BY <1>Adopt, <1>StoreValue, <1>StoreClass, <1>Produce, <1>Reject, <1>Throws,
       <1>ConstructReject, <1>Makes, <1>ConstructNext DEF Continuation

-----------------------------------------------------------------------------
LEMMA CallKeeps ==
  ASSUME Base, CycInv, NEW fn \in {"resolve", "resolveClass"}, NEW t \in Token,
         fn = "resolveClass" => t \in Direct, Call(fn, t), \A f \in FrameId : ~Busy(f)
  PROVE  CycInv'
  <1>0. PICK n : n = calls + 1
    OBVIOUS
  <1>1. MachineOK
    BY Parts DEF Base
  <1>2. n \in FrameId /\ n \in Nat /\ calls \in Nat /\ calls' = n /\ n > calls
    BY <1>0, <1>1, WiringAssumption DEF MachineOK, Call, FrameId
  <1>3. frames' = [frames EXCEPT ![n] = NewFrame(fn, t, None)] /\ UNCHANGED providers
    BY <1>0 DEF Call, store
  <1>4. /\ frames'[n].fn = fn /\ frames'[n].token = t /\ frames'[n].parent = None
        /\ frames'[n].pc = "enter" /\ frames'[n].kids = <<>> /\ frames'[n].err = "none"
        /\ \A g \in FrameId \ {n} : frames'[g] = frames[g]
    BY <1>1, <1>2, <1>3 DEF MachineOK, NewFrame
  <1>5. \A k \in FrameId : k <= calls => k # n
    BY <1>2
  <1>6. \A k \in FrameId : k <= calls =>
           /\ frames'[k].fn = frames[k].fn /\ frames'[k].token = frames[k].token
           /\ frames[k].pc = "ok" => frames'[k].pc = "ok"
    BY <1>4, <1>5
  <1>7. ASSUME NEW g \in FrameId PROVE Sound(g)'
    <2>1. CASE g # n
      BY <1>4, <1>6, <2>1, SoundStays DEF CycInv
    <2>2. CASE g = n
      <3>1. DOMAIN frames'[n].kids = {}
        BY <1>4
      <3> QED BY <1>4, <2>2, <3>1 DEF Sound
    <2> QED BY <2>1, <2>2
  <1>8. Registry'
    BY <1>3 DEF CycInv, Registry
  <1>9. Era'
    <2> SUFFICES ASSUME NEW g \in FrameId, NEW r \in FrameId, Busy(g)', g < r, r <= calls'
                 PROVE  FALSE
      BY DEF Era
    <2>1. g = n
      BY <1>4 DEF Busy
    <2> QED BY <1>2, <2>1
  <1>10. ASSUME NEW p \in FrameId, NEW g \in FrameId, p < g,
                NotOk(p)', NotOk(g)', Same(p, g)'
         PROVE  (Apart(p, g) \/ Behalf(p, g))'
    <2>0. p \in Nat /\ g \in Nat
      BY FrameFacts
    <2>1. g # n
      <3>1. CASE g = n
        <4>1. frames'[n].parent # None
          BY <1>2, <1>10, <3>1, <2>0 DEF Same
        <4> QED BY <1>4, <4>1
      <3> QED BY <3>1
    <2>2. NotOk(g) /\ g <= calls
      <3>1. NotOk(g)
        BY <1>4, <1>10, <2>1 DEF NotOk
      <3> QED BY <3>1, FrameFacts DEF NotOk
    <2>3. p # n
      BY <1>2, <1>10, <2>0, <2>2
    <2>4. NotOk(p)
      BY <1>4, <1>10, <2>3 DEF NotOk
    <2>5. ASSUME NEW r \in FrameId, p < r, r <= g PROVE frames[r].parent # None
      <3>1. r \in Nat
        BY FrameFacts
      <3>2. r # n
        BY <1>2, <2>0, <2>2, <2>5, <3>1
      <3>3. frames'[r].parent # None
        BY <1>10, <2>5 DEF Same
      <3> QED BY <1>4, <3>2, <3>3
    <2>6. Apart(p, g) \/ Behalf(p, g)
      BY <1>10, <2>2, <2>4, <2>5 DEF CycInv, Branches, Same
    <2>7. frames'[p] = frames[p] /\ frames'[g] = frames[g]
      BY <1>4, <2>1, <2>3
    <2>8. Apart(p, g) => Apart(p, g)'
      BY <2>7 DEF Apart
    <2>9. ASSUME Behalf(p, g) PROVE Behalf(p, g)'
      <3>1. PICK i \in DOMAIN frames[p].kids :
               /\ frames[p].kids[i] <= g /\ frames[frames[p].kids[i]].pc # "ok"
               /\ Closure(frames[g].token) \subseteq Closure(frames[frames[p].kids[i]].token)
        BY <2>9 DEF Behalf
      <3>2. PICK k \in FrameId : k = frames[p].kids[i] /\ k # n
        BY <1>5, FrameFacts
      <3>3. frames'[k] = frames[k]
        BY <1>4, <3>2
      <3> QED BY <2>7, <3>1, <3>2, <3>3 DEF Behalf
    <2> QED BY <2>6, <2>8, <2>9
  <1>11. Branches'
    BY <1>10 DEF Branches
  <1>12. CircularIsCycle'
    <2> SUFFICES ASSUME NEW g \in FrameId, frames'[g].err = "circular" PROVE Circular(g)'
      BY DEF CircularIsCycle
    <2>1. frames'[g] = frames[g]
      BY <1>4
    <2> QED BY <2>1 DEF CycInv, CircularIsCycle, Circular
  <1> QED BY <1>7, <1>8, <1>9, <1>11, <1>12 DEF CycInv

LEMMA StandingKeeps ==
  ASSUME CycInv, UNCHANGED <<frames, calls>>, Registry'
  PROVE  CycInv'
  <1>1. \A f \in FrameId : Sound(f)'
    BY DEF CycInv, Sound, KidsOk, Asked
  <1>2. Era'
    BY DEF CycInv, Era, Busy
  <1>3. Branches'
    BY DEF CycInv, Branches, NotOk, Same, Apart, Behalf
  <1>4. CircularIsCycle'
    BY DEF CycInv, CircularIsCycle, Circular
  <1> QED BY <1>1, <1>2, <1>3, <1>4 DEF CycInv

LEMMA CycStep ==
  ASSUME Straight, Base, CycInv, [Next]_vars, [OneByOne]_vars
  PROVE  CycInv'
  <1>1. ASSUME NEW f \in FrameId, Synchronous(f) \/ Continuation(f) PROVE CycInv'
    BY <1>1, SynchronousDoes, ContinuationDoes, MovingKeeps, AskingKeeps
  <1>2. ASSUME NEW fn \in {"resolve", "resolveClass"}, NEW t \in Token,
               fn = "resolveClass" => t \in Direct, Call(fn, t)
        PROVE  CycInv'
    <2>1. calls' # calls
      BY <1>2, Parts DEF Base, MachineOK, Call
    <2>2. OneByOne
      BY <2>1 DEF vars
    <2>3. fn \in Fn
      BY DEF Fn
    <2>4. \A f \in FrameId : ~Busy(f)
      BY <1>2, <2>2, <2>3 DEF OneByOne
    <2> QED BY <1>2, <2>4, CallKeeps
  <1>3. ASSUME NEW r \in Late, Register(r[1], r[2]) PROVE CycInv'
    <2>1. r[2].kind = "value"
      BY DEF Straight
    <2>2. PICK t, p : t = r[1] /\ p = r[2] /\ t \in Token
      BY WiringAssumption
    <2>3. PICK v : providers' = [providers EXCEPT ![t] = [p EXCEPT !.value = v]]
      BY <1>3, <2>1, <2>2 DEF Register
    <2>4. providers \in [Token -> Provider]
      BY Parts DEF Base, StoreOK
    <2>5. p \in [kind: {"class", "factory", "value"}, useClass: ClassToken \cup {"none"},
                 inject: Seq(Token), onClose: BOOLEAN, value: {0}]
      BY <2>2, WiringAssumption
    <2>6. [p EXCEPT !.value = v].kind = "value"
      BY <2>1, <2>2, <2>5
    <2>7. providers'[t].kind = "value" /\ \A u \in Token : u # t => providers'[u] = providers[u]
      BY <2>2, <2>3, <2>4, <2>6
    <2>8. Registry'
      BY <2>7 DEF CycInv, Registry
    <2> QED BY <1>3, <2>8, StandingKeeps DEF Register
  <1>4. ASSUME UNCHANGED <<frames, calls, providers>> PROVE CycInv'
    BY <1>4, StandingKeeps DEF CycInv, Registry
  <1> QED
    BY <1>1, <1>2, <1>3, <1>4, WiringAssumption
    DEF Next, System, Environment, RegisterValue, CloseAll, CloseOne, CloseDone, vars, store

LEMMA InitCyc == Init => CycInv
  <1> SUFFICES ASSUME Init PROVE CycInv
    OBVIOUS
  <1>1. ASSUME NEW f \in FrameId
        PROVE  /\ frames[f].pc = "idle" /\ frames[f].kids = <<>> /\ frames[f].fn = "resolve"
               /\ frames[f].err = "none"
    BY DEF Init, NewFrame
  <1>2. ASSUME NEW f \in FrameId PROVE Sound(f)
    <2>1. DOMAIN frames[f].kids = {}
      BY <1>1
    <2> QED BY <1>1, <2>1 DEF Sound
  <1>3. Registry
    BY DEF Init, Registry
  <1>4. Era /\ Branches /\ CircularIsCycle
    BY <1>1 DEF Era, Busy, Branches, NotOk, CircularIsCycle
  <1> QED BY <1>2, <1>3, <1>4 DEF CycInv

LEMMA AlwaysBase == Spec => []Base
  BY AlwaysOrderly, LockCorrect, PTL DEF Base

(* A "circular" error of the container (container.ts:101) is true, wherever*)
(* the diamonds of the failing run cannot occur: with one call from outside*)
(* at a time, and factories whose injected tokens reach nothing in common, *)
(* it is only said of a token that reaches one which needs itself.         *)
THEOREM CircularIsRight ==
  ASSUME Straight PROVE Spec /\ [][OneByOne]_vars => []CircularIsCycle
  <1>1. Base /\ CycInv /\ [Next]_vars /\ [OneByOne]_vars => CycInv'
    BY CycStep
  <1>2. CycInv => CircularIsCycle
    BY DEF CycInv
  <1> QED BY <1>1, <1>2, AlwaysBase, InitCyc, PTL DEF Spec
=============================================================================
