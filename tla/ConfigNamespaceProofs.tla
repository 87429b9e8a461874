------------------------ MODULE ConfigNamespaceProofs ------------------------
(***************************************************************************)
(* Proofs about a config namespace (ConfigNamespace), for any number of    *)
(* readers and of overlapping fetches, any interval and any latency, and   *)
(* about the layer that makes namespaces and the backends they fetch from  *)
(* (ConfigLayer), for any environments and stores.                         *)
(***************************************************************************)
EXTENDS ConfigNamespace, Sequences, SequenceTheorems, WellFoundedInduction, TLAPS

(* An answer was read from the store after its fetch was sent, and what is *)
(* in memory was read at most one fetch before the moment it is stamped    *)
(* with.                                                                   *)
StampBound ==
  /\ \A r \in Fetch : fetch[r].pc # "free" => fetch[r].seenAge <= fetch[r].age
  /\ values # Unloaded /\ fetchedAge < RefreshInterval => readAge <= fetchedAge + Latency

IInv == TypeOK /\ StampBound

LEMMA FetchType ==
  ASSUME TypeOK, NEW r \in Fetch
  PROVE  /\ fetch[r].pc \in Pc /\ fetch[r].for \in Reader \cup {"none"}
         /\ fetch[r].age \in 0..Latency /\ fetch[r].seen \in 0..MaxVersion
         /\ fetch[r].seenAge \in 0..Latency
         /\ fetch[r] = [pc |-> fetch[r].pc, for |-> fetch[r].for, age |-> fetch[r].age,
                        seen |-> fetch[r].seen, seenAge |-> fetch[r].seenAge]
  BY DEF TypeOK, Slot

LEMMA SlotTypes ==
  ASSUME NEW for \in Reader \cup {"none"}
  PROVE  /\ NoFetch \in Slot
         /\ [pc |-> "sent", for |-> for, age |-> 0, seen |-> 0, seenAge |-> 0] \in Slot
  <1>1. NoFetch \in Slot
    BY IntervalAssumption DEF NoFetch, Pc, Slot
  <1>2. [pc |-> "sent", for |-> for, age |-> 0, seen |-> 0, seenAge |-> 0] \in Slot
    BY IntervalAssumption DEF Pc, Slot
  <1> QED
    BY <1>1, <1>2

(* A step that only sends or frees a fetch.                                *)
LEMMA SlotStep ==
  ASSUME IInv, NEW r \in Fetch, NEW for \in Reader \cup {"none"},
         \/ fetch' = [fetch EXCEPT ![r] = NoFetch]
         \/ fetch' = [fetch EXCEPT ![r] = [pc |-> "sent", for |-> for,
                                           age |-> 0, seen |-> 0, seenAge |-> 0]]
  PROVE  /\ fetch' \in [Fetch -> Slot]
         /\ \A q \in Fetch : fetch'[q].pc # "free" => fetch'[q].seenAge <= fetch'[q].age
  <1>1. fetch' \in [Fetch -> Slot]
    BY SlotTypes DEF IInv, TypeOK
  <1>2. ASSUME NEW q \in Fetch
        PROVE  fetch'[q].pc # "free" => fetch'[q].seenAge <= fetch'[q].age
    <2>1. CASE q = r
      <3>1. NoFetch.seenAge = 0 /\ NoFetch.age = 0
        BY DEF NoFetch
      <3>2. fetch'[q].seenAge = 0 /\ fetch'[q].age = 0
        BY <2>1, <3>1 DEF IInv, TypeOK
      <3> QED
        BY <3>2
    <2>2. CASE q # r
      <3>1. fetch'[q] = fetch[q]
        BY <2>2 DEF IInv, TypeOK
      <3> QED
        BY <3>1 DEF IInv, StampBound
    <2> QED
      BY <2>1, <2>2
  <1> QED
    BY <1>1, <1>2

LEMMA ReaderStep ==
  ASSUME TypeOK, NEW c \in Reader, NEW v \in 0..MaxVersion \cup {Unloaded},
         \/ Answered(c, v)
         \/ reader' = [reader EXCEPT ![c].pc = "waiting"]
         \/ reader' = [reader EXCEPT ![c].pc = "idle"]
         \/ UNCHANGED reader
  PROVE  reader' \in [Reader -> [pc: {"idle", "waiting"},
                                 got: 0..MaxVersion \cup {Unloaded}]]
  BY DEF TypeOK, Answered

THEOREM InitIInv == Init => IInv
  <1> SUFFICES ASSUME Init PROVE IInv
    OBVIOUS
  <1>1. TypeOK
    <2>1. fetch \in [Fetch -> Slot]
      BY SlotTypes DEF Init
    <2>2. reader \in [Reader -> [pc: {"idle", "waiting"},
                                got: 0..MaxVersion \cup {Unloaded}]]
      BY DEF Init
    <2> QED
      BY <2>1, <2>2, IntervalAssumption DEF Init, TypeOK, Oldest
  <1>2. StampBound
    BY DEF Init, StampBound, NoFetch
  <1> QED
    BY <1>1, <1>2 DEF IInv

THEOREM IInvStep == IInv /\ [Next]_vars => IInv'
  <1> SUFFICES ASSUME IInv, [Next]_vars PROVE IInv'
    OBVIOUS
  <1> USE IntervalAssumption
  <1>0. TypeOK /\ StampBound
    BY DEF IInv
  <1>1. ASSUME NEW c \in Reader, FreshGet(c) PROVE IInv'
    <2>1. TypeOK'
      BY <1>0, <1>1, ReaderStep DEF FreshGet, TypeOK
    <2> QED
      BY <1>0, <1>1, <2>1 DEF FreshGet, IInv, StampBound
  <1>2. ASSUME NEW c \in Reader, NEW r \in Fetch, FirstGet(c, r) PROVE IInv'
    <2>1. TypeOK'
      BY <1>0, <1>2, SlotStep, ReaderStep DEF FirstGet, Send, TypeOK
    <2>2. \A q \in Fetch : fetch'[q].pc # "free" => fetch'[q].seenAge <= fetch'[q].age
      BY <1>2, SlotStep DEF FirstGet, Send
    <2> QED
      BY <1>0, <1>2, <2>1, <2>2 DEF FirstGet, IInv, StampBound
  <1>3. ASSUME NEW c \in Reader, NEW r \in Fetch, StaleGet(c, r) PROVE IInv'
    <2>1. TypeOK'
      BY <1>0, <1>3, SlotStep, ReaderStep DEF StaleGet, Send, TypeOK
    <2>2. \A q \in Fetch : fetch'[q].pc # "free" => fetch'[q].seenAge <= fetch'[q].age
      BY <1>3, SlotStep DEF StaleGet, Send
    <2> QED
      BY <1>0, <1>3, <2>1, <2>2 DEF StaleGet, IInv, StampBound
  <1>4. ASSUME NEW r \in Fetch, Settle(r) PROVE IInv'
    <2>0. /\ fetch' = [fetch EXCEPT ![r] = NoFetch]
          /\ \A q \in Fetch : fetch'[q].pc # "free" => fetch'[q].seenAge <= fetch'[q].age
          /\ fetch' \in [Fetch -> Slot]
      <3>1. fetch' = [fetch EXCEPT ![r] = NoFetch]
        BY <1>4 DEF Settle, Loaded, LoadFailed, Refreshed, RefreshFailed
      <3> QED
        BY <3>1, SlotStep
    <2>1. /\ fetch[r].seen \in 0..MaxVersion /\ fetch[r].seenAge \in 0..Latency
          /\ fetch[r].age \in 0..Latency
          /\ fetch[r].pc # "free" => fetch[r].seenAge <= fetch[r].age
      BY <1>0, FetchType DEF StampBound
    <2>2. CASE Loaded(r)
      <3>1. TypeOK'
        BY <1>0, <2>0, <2>1, <2>2, ReaderStep DEF Loaded, TypeOK, Oldest
      <3>2. fetchedAge' < RefreshInterval => readAge' <= fetchedAge' + Latency
        <4>1. CASE fetch[r].age < RefreshInterval
          BY <2>1, <2>2, <4>1 DEF Loaded
        <4>2. CASE ~(fetch[r].age < RefreshInterval)
          BY <2>1, <2>2, <4>2, IntervalAssumption DEF Loaded
        <4> QED
          BY <4>1, <4>2
      <3> QED
        BY <2>0, <3>1, <3>2 DEF IInv, StampBound
    <2>3. CASE Refreshed(r)
      <3>1. TypeOK'
        BY <1>0, <2>0, <2>1, <2>3 DEF Refreshed, TypeOK, Oldest
      <3>2. readAge' <= fetchedAge' + Latency
        BY <2>1, <2>3 DEF Refreshed
      <3> QED
        BY <2>0, <3>1, <3>2 DEF IInv, StampBound
    <2>4. CASE LoadFailed(r)
      <3>1. TypeOK'
        BY <1>0, <2>0, <2>4, ReaderStep DEF LoadFailed, TypeOK
      <3> QED
        BY <1>0, <2>0, <2>4, <3>1 DEF LoadFailed, IInv, StampBound
    <2>5. CASE RefreshFailed(r)
      <3>1. TypeOK'
        BY <1>0, <2>0, <2>5 DEF RefreshFailed, TypeOK
      <3> QED
        BY <1>0, <2>0, <2>5, <3>1 DEF RefreshFailed, IInv, StampBound
    <2> QED
      BY <1>4, <2>2, <2>3, <2>4, <2>5 DEF Settle
  <1>5. ASSUME NEW r \in Fetch, Read(r) PROVE IInv'
    <2>1. fetch'[r].pc = "read" /\ fetch'[r].seenAge = 0 /\ fetch'[r].age = fetch[r].age
      BY <1>0, <1>5 DEF Read, TypeOK
    <2>2. \A q \in Fetch \ {r} : fetch'[q] = fetch[q]
      BY <1>0, <1>5 DEF Read, TypeOK
    <2>3. \A q \in Fetch : fetch'[q].pc # "free" => fetch'[q].seenAge <= fetch'[q].age
      <3>1. fetch'[r].seenAge <= fetch'[r].age
        <4>1. fetch[r].age \in 0..Latency
          BY <1>0, FetchType
        <4> QED
          BY <2>1, <4>1
      <3>2. ASSUME NEW q \in Fetch \ {r}
            PROVE  fetch'[q].pc # "free" => fetch'[q].seenAge <= fetch'[q].age
        BY <1>0, <2>2, <3>2 DEF StampBound
      <3> QED
        BY <3>1, <3>2
    <2>4. TypeOK'
      <3>1. fetch' \in [Fetch -> Slot]
        <4>1. [pc |-> "read", for |-> fetch[r].for, age |-> fetch[r].age,
               seen |-> version, seenAge |-> 0] \in Slot
          BY <1>0, FetchType DEF TypeOK, Pc, Slot
        <4> QED
          BY <1>0, <1>5, <4>1 DEF Read, TypeOK
      <3> QED
        BY <1>0, <1>5, <3>1 DEF Read, TypeOK
    <2> QED
      BY <1>0, <1>5, <2>3, <2>4 DEF Read, IInv, StampBound
  <1>6. CASE Publish
    <2>1. TypeOK'
      BY <1>0, <1>6 DEF Publish, TypeOK
    <2> QED
      BY <1>0, <1>6, <2>1 DEF Publish, IInv, StampBound
  <1>7. CASE Tick
    <2>1. ASSUME NEW r \in Fetch
          PROVE  /\ Aged(fetch[r]) \in Slot
                 /\ Aged(fetch[r]).pc # "free" =>
                      Aged(fetch[r]).seenAge <= Aged(fetch[r]).age
      <3>1. fetch[r].pc # "free" => fetch[r].age < Latency /\ fetch[r].seenAge <= fetch[r].age
        BY <1>0, <1>7 DEF Tick, StampBound
      <3>2. fetch[r] \in Slot
        BY <1>0 DEF TypeOK
      <3>3. /\ fetch[r].pc \in Pc /\ fetch[r].for \in Reader \cup {"none"}
            /\ fetch[r].seen \in 0..MaxVersion
            /\ fetch[r].age \in 0..Latency /\ fetch[r].seenAge \in 0..Latency
        BY <3>2 DEF Slot
      <3>4. /\ Aged(fetch[r]).age \in 0..Latency /\ Aged(fetch[r]).seenAge \in 0..Latency
            /\ Aged(fetch[r]).pc # "free" => Aged(fetch[r]).seenAge <= Aged(fetch[r]).age
        BY <3>1, <3>3 DEF Aged
      <3> QED
        BY <3>3, <3>4 DEF Aged, Slot
    <2>2. fetch' = [r \in Fetch |-> Aged(fetch[r])]
      BY <1>7 DEF Tick
    <2>3. readAge' \in 0..Oldest /\ fetchedAge' \in 0..RefreshInterval
      BY <1>0, <1>7 DEF Tick, TypeOK, Older, Oldest
    <2>4. TypeOK'
      BY <1>0, <1>7, <2>1, <2>2, <2>3 DEF Tick, TypeOK
    <2>5. values' # Unloaded /\ fetchedAge' < RefreshInterval =>
            readAge' <= fetchedAge' + Latency
      BY <1>0, <1>7 DEF Tick, TypeOK, StampBound, Older, Oldest
    <2> QED
      BY <2>1, <2>2, <2>4, <2>5 DEF IInv, StampBound
  <1>8. CASE UNCHANGED vars
    BY <1>0, <1>8 DEF vars, IInv, TypeOK, StampBound
  <1> QED
    BY <1>1, <1>2, <1>3, <1>4, <1>5, <1>6, <1>7, <1>8 DEF Next, Get

(* Every reachable state has the shape TypeOK gives it.                    *)
THEOREM TypeCorrect == Spec => []TypeOK
  <1>1. IInv => TypeOK
    BY DEF IInv
  <1> QED
    BY InitIInv, IInvStep, <1>1, PTL DEF Spec

(* A value served as fresh is at most one interval and one fetch old, in   *)
(* whatever order first fetches and refreshes are answered.                *)
THEOREM Fresh == Spec => []FreshnessBound
  <1>1. IInv => FreshnessBound
    BY IntervalAssumption DEF IInv, TypeOK, StampBound, FreshnessBound
  <1> QED
    BY InitIInv, IInvStep, <1>1, PTL DEF Spec

(* A namespace that has been loaded keeps serving, and no get is answered  *)
(* with nothing.                                                           *)
THEOREM KeepsServing == Spec => NeverUnloads
  <1> DEFINE Kept ==
        /\ values # Unloaded => values' # Unloaded
        /\ \A c \in Reader : reader'[c].got # reader[c].got => reader'[c].got # Unloaded
  <1>1. IInv /\ [Next]_vars => [Kept]_vars
    <2> SUFFICES ASSUME IInv, Next PROVE Kept
      BY DEF vars
    <2>0. TypeOK
      BY DEF IInv
    <2>1. \A r \in Fetch : fetch[r].seen # Unloaded
      <3> SUFFICES ASSUME NEW r \in Fetch PROVE fetch[r].seen # Unloaded
        OBVIOUS
      <3>1. fetch[r].seen \in 0..MaxVersion
        BY <2>0, FetchType
      <3> QED
        BY <3>1 DEF Unloaded
    <2>2. ASSUME NEW c \in Reader, NEW v, v # Unloaded, Answered(c, v)
          PROVE  \A d \in Reader : reader'[d].got # reader[d].got => reader'[d].got # Unloaded
      BY <2>0, <2>2 DEF Answered, TypeOK
    <2>3. ASSUME NEW c \in Reader, NEW pc, reader' = [reader EXCEPT ![c].pc = pc]
          PROVE  \A d \in Reader : reader'[d].got = reader[d].got
      BY <2>0, <2>3 DEF TypeOK
    <2>4. ASSUME NEW c \in Reader, Get(c) PROVE Kept
      BY <2>2, <2>3, <2>4 DEF Get, FreshGet, FirstGet, StaleGet, IsStale
    <2>5. ASSUME NEW r \in Fetch, Settle(r) PROVE Kept
      <3>1. CASE Loaded(r)
        BY <2>1, <2>2, <3>1 DEF Loaded
      <3>2. CASE LoadFailed(r)
        BY <2>0, <2>3, <3>2 DEF LoadFailed
      <3>3. CASE Refreshed(r) \/ RefreshFailed(r)
        BY <2>1, <3>3 DEF Refreshed, RefreshFailed
      <3> QED
        BY <2>5, <3>1, <3>2, <3>3 DEF Settle
    <2>6. CASE Publish \/ Tick \/ \E r \in Fetch : Read(r)
      BY <2>6 DEF Publish, Tick, Read
    <2> QED
      BY <2>4, <2>5, <2>6 DEF Next
  <1> QED
    BY InitIInv, IInvStep, <1>1, PTL DEF Spec, NeverUnloads

(* The reader that awaits a fetch.                                         *)
Awaits(r) == IF fetch[r].pc = "free" THEN "none" ELSE fetch[r].for

(* A reader that waits has one fetch in flight, its own, and a fetch is    *)
(* only awaited by a reader that waits.                                    *)
OneFetchEach ==
  /\ \A r \in Fetch : Awaits(r) \in Reader => reader[Awaits(r)].pc = "waiting"
  /\ \A q, r \in Fetch : Awaits(q) = Awaits(r) /\ Awaits(r) \in Reader => q = r
  /\ \A c \in Reader : reader[c].pc = "waiting" => \E r \in Fetch : Awaits(r) = c

(* Steps that nobody who waits notices.                                    *)
LEMMA AwaitsSame ==
  ASSUME OneFetchEach, \A r \in Fetch : Awaits(r)' = Awaits(r),
         \A c \in Reader : reader'[c].pc = reader[c].pc
  PROVE  OneFetchEach'
  BY DEF OneFetchEach

(* A get that sends a fetch of its own.                                    *)
LEMMA AwaitsSent ==
  ASSUME TypeOK, OneFetchEach, "none" \notin Reader, NEW c \in Reader, NEW r \in Fetch, FirstGet(c, r)
  PROVE  OneFetchEach'
  <1>1. /\ fetch[r].pc = "free" /\ reader[c].pc = "idle"
        /\ fetch'[r].pc = "sent" /\ fetch'[r].for = c
        /\ \A q \in Fetch \ {r} : fetch'[q] = fetch[q]
    BY DEF FirstGet, Send, TypeOK
  <1>2. /\ reader'[c].pc = "waiting"
        /\ \A d \in Reader \ {c} : reader'[d].pc = reader[d].pc
    BY DEF FirstGet, TypeOK
  <1>3. /\ Awaits(r) = "none" /\ Awaits(r)' = c
        /\ \A q \in Fetch \ {r} : Awaits(q)' = Awaits(q)
    BY <1>1 DEF Awaits
  <1>4. \A q \in Fetch : Awaits(q) # c
    BY <1>1 DEF OneFetchEach
  <1>5. ASSUME NEW q \in Fetch, Awaits(q)' \in Reader PROVE reader'[Awaits(q)'].pc = "waiting"
    BY <1>2, <1>3, <1>5 DEF OneFetchEach
  <1>6. ASSUME NEW q \in Fetch, NEW s \in Fetch, Awaits(q)' = Awaits(s)', Awaits(s)' \in Reader
        PROVE  q = s
    BY <1>3, <1>4, <1>6 DEF OneFetchEach
  <1>7. ASSUME NEW d \in Reader, reader'[d].pc = "waiting" PROVE \E q \in Fetch : Awaits(q)' = d
    <2>1. CASE d = c
      BY <1>3, <2>1
    <2>2. CASE d # c
      <3>1. PICK q \in Fetch : Awaits(q) = d
        BY <1>2, <1>7, <2>2 DEF OneFetchEach
      <3>2. q # r
        BY <1>3, <3>1
      <3> QED BY <1>3, <3>1, <3>2
    <2> QED BY <2>1, <2>2
  <1> QED BY <1>5, <1>6, <1>7 DEF OneFetchEach

(* The answer of a first fetch, and its error.                             *)
LEMMA AwaitsSettled ==
  ASSUME TypeOK, OneFetchEach, "none" \notin Reader, NEW r \in Fetch, Loaded(r) \/ LoadFailed(r)
  PROVE  OneFetchEach'
  <1>1. PICK c \in Reader : c = fetch[r].for
    BY DEF Loaded, LoadFailed
  <1>2. /\ fetch[r].pc # "free" /\ fetch'[r] = NoFetch
        /\ \A q \in Fetch \ {r} : fetch'[q] = fetch[q]
    BY DEF Loaded, LoadFailed, TypeOK
  <1>3. /\ reader'[c].pc = "idle"
        /\ \A d \in Reader \ {c} : reader'[d].pc = reader[d].pc
    BY <1>1 DEF Loaded, LoadFailed, Answered, TypeOK
  <1>4. /\ Awaits(r) = c /\ Awaits(r)' = "none"
        /\ \A q \in Fetch \ {r} : Awaits(q)' = Awaits(q)
    BY <1>1, <1>2 DEF Awaits, NoFetch
  <1>5. \A q \in Fetch \ {r} : Awaits(q) # c
    BY <1>4 DEF OneFetchEach
  <1>6. ASSUME NEW q \in Fetch, Awaits(q)' \in Reader PROVE reader'[Awaits(q)'].pc = "waiting"
    BY <1>3, <1>4, <1>5, <1>6 DEF OneFetchEach
  <1>7. ASSUME NEW q \in Fetch, NEW s \in Fetch, Awaits(q)' = Awaits(s)', Awaits(s)' \in Reader
        PROVE  q = s
    BY <1>4, <1>7 DEF OneFetchEach
  <1>8. ASSUME NEW d \in Reader, reader'[d].pc = "waiting" PROVE \E q \in Fetch : Awaits(q)' = d
    <2>1. d # c
      BY <1>3, <1>8
    <2>2. PICK q \in Fetch : Awaits(q) = d
      BY <1>3, <1>8, <2>1 DEF OneFetchEach
    <2>3. q # r
      BY <1>4, <2>1, <2>2
    <2> QED BY <1>4, <2>2, <2>3
  <1> QED BY <1>6, <1>7, <1>8 DEF OneFetchEach

LEMMA AwaitsStep ==
  ASSUME "none" \notin Reader, TypeOK, OneFetchEach, [Next]_vars
  PROVE  OneFetchEach'
  <1>1. ASSUME NEW c \in Reader, Get(c) PROVE OneFetchEach'
    <2>1. CASE FreshGet(c)
      <3>1. \A d \in Reader : reader'[d].pc = reader[d].pc
        BY <2>1 DEF FreshGet, Answered, TypeOK
      <3>2. \A r \in Fetch : Awaits(r)' = Awaits(r)
        BY <2>1 DEF FreshGet, Awaits
      <3> QED BY <3>1, <3>2, AwaitsSame
    <2>2. ASSUME NEW r \in Fetch, FirstGet(c, r) PROVE OneFetchEach'
      BY <2>2, AwaitsSent
    <2>3. ASSUME NEW r \in Fetch, StaleGet(c, r) PROVE OneFetchEach'
      <3>1. \A d \in Reader : reader'[d].pc = reader[d].pc
        BY <2>3 DEF StaleGet, Answered, TypeOK
      <3>2. /\ fetch[r].pc = "free" /\ fetch'[r].pc = "sent" /\ fetch'[r].for = "none"
            /\ \A q \in Fetch \ {r} : fetch'[q] = fetch[q]
        BY <2>3 DEF StaleGet, Send, TypeOK
      <3>3. \A q \in Fetch : Awaits(q)' = Awaits(q)
        BY <3>2 DEF Awaits
      <3> QED BY <3>1, <3>3, AwaitsSame
    <2> QED BY <1>1, <2>1, <2>2, <2>3 DEF Get
  <1>2. ASSUME NEW r \in Fetch, Settle(r) PROVE OneFetchEach'
    <2>1. CASE Loaded(r) \/ LoadFailed(r)
      BY <2>1, AwaitsSettled
    <2>2. CASE Refreshed(r) \/ RefreshFailed(r)
      <3>1. /\ fetch[r].for = "none" /\ fetch'[r] = NoFetch /\ UNCHANGED reader
            /\ \A q \in Fetch \ {r} : fetch'[q] = fetch[q]
        BY <2>2 DEF Refreshed, RefreshFailed, TypeOK
      <3>2. \A q \in Fetch : Awaits(q)' = Awaits(q)
        BY <3>1 DEF Awaits, NoFetch
      <3> QED BY <3>1, <3>2, AwaitsSame
    <2> QED BY <1>2, <2>1, <2>2 DEF Settle
  <1>3. ASSUME NEW r \in Fetch, Read(r) PROVE OneFetchEach'
    <2>1. /\ fetch[r].pc = "sent" /\ fetch'[r].pc = "read" /\ fetch'[r].for = fetch[r].for
          /\ UNCHANGED reader
          /\ \A q \in Fetch \ {r} : fetch'[q] = fetch[q]
      BY <1>3 DEF Read, TypeOK
    <2>2. \A q \in Fetch : Awaits(q)' = Awaits(q)
      BY <2>1 DEF Awaits
    <2> QED BY <2>1, <2>2, AwaitsSame
  <1>4. CASE Tick
    <2>1. UNCHANGED reader /\ \A q \in Fetch : /\ fetch'[q].pc = fetch[q].pc
                                               /\ fetch'[q].for = fetch[q].for
      BY <1>4 DEF Tick, Aged
    <2>2. \A q \in Fetch : Awaits(q)' = Awaits(q)
      BY <2>1 DEF Awaits
    <2> QED BY <2>1, <2>2, AwaitsSame
  <1>5. CASE Publish \/ UNCHANGED vars
    <2>1. UNCHANGED <<fetch, reader>>
      BY <1>5 DEF Publish, vars
    <2>2. \A q \in Fetch : Awaits(q)' = Awaits(q)
      BY <2>1 DEF Awaits
    <2> QED BY <2>1, <2>2, AwaitsSame
  <1> QED BY <1>1, <1>2, <1>3, <1>4, <1>5 DEF Next

(* A get that waits has its fetch in flight, exactly one, and no fetch is  *)
(* answered to a get that is over: however gets and answers interleave,    *)
(* nobody waits for nothing and nobody is answered twice.                  *)
THEOREM WaitedFor == ASSUME "none" \notin Reader PROVE Spec => []OneFetchEach
  <1>1. Init => OneFetchEach
    <2> SUFFICES ASSUME Init PROVE OneFetchEach
      OBVIOUS
    <2>1. \A r \in Fetch : Awaits(r) = "none"
      BY DEF Init, Awaits, NoFetch
    <2>2. \A c \in Reader : reader[c].pc = "idle"
      BY DEF Init
    <2> QED BY <2>1, <2>2 DEF OneFetchEach
  <1>2. TypeOK /\ OneFetchEach /\ [Next]_vars => OneFetchEach'
    BY AwaitsStep
  <1> QED BY <1>1, <1>2, TypeCorrect, PTL DEF Spec

-----------------------------------------------------------------------------
(* The config layer and its backends.                                      *)

CONSTANTS Environment, Entries, NewValue, Absent, MaxChanges
VARIABLES env, service, stored, loaded, fetching, always, had, past, changes

Config == INSTANCE ConfigLayer WITH entries <- stored, values <- loaded, fetch <- fetching

Path == Seq(STRING)
Space == [ns : STRING, storeId : Path, storeKind : STRING, prefix : STRING \cup {Absent},
          namespace : STRING \cup {Absent}]

(* What the environment and the stores hold is made of strings.            *)
ConfigTyped ==
  /\ \A e \in Environment : e.storeId \in Path /\ e.spaces \in Seq(Space)
  /\ DOMAIN Entries \subseteq Path

LEMMA HasGreatest ==
  ASSUME NEW n \in Nat, NEW S \in SUBSET (1..n), S # {}
  PROVE  \E x \in S : \A y \in S : x >= y
  <1>1. PICK D : D = {n - i : i \in S}
    OBVIOUS
  <1>2. D \subseteq Nat /\ D # {}
    <2>1. \A i \in S : n - i \in Nat
      OBVIOUS
    <2>2. D # {}
      BY <1>1
    <2> QED BY <1>1, <2>1, <2>2
  <1>3. PICK d \in D : \A e \in D : ~(<<e, d>> \in OpToRel(<, Nat))
    BY <1>2, NatLessThanWellFounded, WFMin
  <1>4. \A e \in D : ~(e < d)
    BY <1>2, <1>3 DEF OpToRel
  <1>5. PICK x \in S : d = n - x
    BY <1>1
  <1>6. ASSUME NEW y \in S PROVE x >= y
    <2>1. n - y \in D
      BY <1>1
    <2>2. ~(n - y < n - x)
      BY <1>4, <1>5, <2>1
    <2>3. x \in Int /\ y \in Int
      OBVIOUS
    <2> QED BY <2>2, <2>3
  <1> QED BY <1>6

LEMMA Greatest ==
  ASSUME NEW n \in Nat, NEW S \in SUBSET (1..n), S # {}
  PROVE  Config!Max(S) \in S
  BY HasGreatest DEF Config!Max

LEMMA Part ==
  ASSUME NEW R, NEW n \in Seq(R), NEW a \in Nat \ {0}, NEW b \in Nat, b <= Len(n), a <= b + 1
  PROVE  /\ SubSeq(n, a, b) \in Seq(R) /\ Len(SubSeq(n, a, b)) = b - a + 1
         /\ \A i \in 1..(b - a + 1) : SubSeq(n, a, b)[i] = n[a + i - 1]
  OBVIOUS

LEMMA Joined ==
  ASSUME NEW R, NEW n \in Seq(R), NEW k \in Nat, k <= Len(n)
  PROVE  SubSeq(n, 1, k) \o SubSeq(n, k + 1, Len(n)) = n
  <1>1. Len(n) \in Nat
    OBVIOUS
  <1>2. 1 \in 1..(Len(n) + 1) /\ k \in (1 - 1)..Len(n) /\ Len(n) \in k..Len(n)
    BY <1>1
  <1>3. SubSeq(n, 1, k) \o SubSeq(n, k + 1, Len(n)) = SubSeq(n, 1, Len(n))
    BY <1>2, ConcatAdjacentSubSeq
  <1> QED BY <1>3, SubSeqFull

(* A sequence starts with p exactly when it is longer and p is its part.   *)
LEMMA Starts ==
  ASSUME NEW R, NEW p \in Seq(R), NEW n \in Seq(R)
  PROVE  Config!IsStrictPrefix(p, n) <=>
           Len(p) < Len(n) /\ \A i \in 1..Len(p) : p[i] = n[i]
  <1>1. Len(p) \in Nat /\ Len(n) \in Nat /\ SubSeq(p, 1, Len(p)) = p
    BY LenProperties, SubSeqFull
  <1>2. CASE Len(p) <= Len(n)
    <2>1. /\ SubSeq(n, 1, Len(p)) \in Seq(R) /\ Len(SubSeq(n, 1, Len(p))) = Len(p)
          /\ \A i \in 1..Len(p) : SubSeq(n, 1, Len(p))[i] = n[i]
      <3>1. /\ SubSeq(n, 1, Len(p)) \in Seq(R) /\ Len(SubSeq(n, 1, Len(p))) = Len(p) - 1 + 1
            /\ \A i \in 1..(Len(p) - 1 + 1) : SubSeq(n, 1, Len(p))[i] = n[1 + i - 1]
        BY <1>1, <1>2, Part
      <3> QED BY <1>1, <3>1
    <2>2. p = SubSeq(n, 1, Len(p)) <=> \A i \in 1..Len(p) : p[i] = n[i]
      BY <2>1, SeqEqual
    <2>3. (\A i \in 1..Len(p) : p[i] = n[i]) => (p # n <=> Len(p) # Len(n))
      BY SeqEqual
    <2>4. Len(p) # Len(n) <=> Len(p) < Len(n)
      BY <1>1, <1>2
    <2> QED BY <1>1, <1>2, <2>2, <2>3, <2>4 DEF Config!IsStrictPrefix, Config!IsPrefix
  <1>3. CASE ~(Len(p) <= Len(n))
    BY <1>1, <1>3 DEF Config!IsStrictPrefix, Config!IsPrefix
  <1> QED BY <1>2, <1>3

(* What is left of a name after a path it starts with.                     *)
LEMMA Prefixed ==
  ASSUME NEW R, NEW p \in Seq(R), NEW n \in Seq(R), Config!IsStrictPrefix(p, n)
  PROVE  /\ SubSeq(n, Len(p) + 1, Len(n)) \in Seq(R)
         /\ p \o SubSeq(n, Len(p) + 1, Len(n)) = n
  <1>1. Len(p) \in Nat /\ Len(n) \in Nat /\ SubSeq(p, 1, Len(p)) = p
    BY LenProperties, SubSeqFull
  <1>2. Len(p) < Len(n) /\ p = SubSeq(n, 1, Len(p))
    <2>1. Len(p) < Len(n)
      BY Starts
    <2>2. p = SubSeq(n, 1, Len(p))
      BY <1>1 DEF Config!IsStrictPrefix, Config!IsPrefix
    <2> QED BY <2>1, <2>2
  <1>3. SubSeq(n, Len(p) + 1, Len(n)) \in Seq(R)
    BY <1>1, <1>2, Part
  <1>4. SubSeq(n, 1, Len(p)) \o SubSeq(n, Len(p) + 1, Len(n)) = n
    <2>1. Len(p) <= Len(n)
      BY <1>1, <1>2
    <2> QED BY <1>1, <2>1, Joined
  <1> QED BY <1>2, <1>3, <1>4

(* A name that starts with p and then s.                                   *)
LEMMA PrefixedTwice ==
  ASSUME NEW R, NEW p \in Seq(R), NEW s \in R, NEW n \in Seq(R),
         Config!IsStrictPrefix(p \o <<s>>, n)
  PROVE  /\ Config!IsStrictPrefix(p, n)
         /\ Config!IsStrictPrefix(<<s>>, SubSeq(n, Len(p) + 1, Len(n)))
         /\ LET rest == SubSeq(n, Len(p) + 1, Len(n)) IN
              SubSeq(rest, 2, Len(rest)) = SubSeq(n, Len(p \o <<s>>) + 1, Len(n))
  <1>1. PICK q : q = p \o <<s>>
    OBVIOUS
  <1>2. PICK rest : rest = SubSeq(n, Len(p) + 1, Len(n))
    OBVIOUS
  <1>3. /\ q \in Seq(R) /\ <<s>> \in Seq(R) /\ Len(<<s>>) = 1 /\ <<s>>[1] = s
        /\ Len(q) = Len(p) + 1 /\ Len(p) \in Nat /\ Len(n) \in Nat
        /\ q[Len(p) + 1] = s /\ \A i \in 1..Len(p) : q[i] = p[i]
    <2>1. <<s>> \in Seq(R) /\ Len(<<s>>) = 1 /\ <<s>>[1] = s
      OBVIOUS
    <2>2. Len(p) \in Nat /\ Len(n) \in Nat
      BY LenProperties
    <2>3. /\ q \in Seq(R) /\ Len(q) = Len(p) + 1
          /\ \A i \in 1..(Len(p) + 1) : q[i] = IF i <= Len(p) THEN p[i] ELSE <<s>>[i - Len(p)]
      BY <1>1, <2>1, <2>2, ConcatProperties
    <2>4. q[Len(p) + 1] = s
      BY <2>1, <2>2, <2>3
    <2>5. \A i \in 1..Len(p) : q[i] = p[i]
      BY <2>2, <2>3
    <2> QED BY <2>1, <2>2, <2>3, <2>4, <2>5
  <1>4. Len(q) < Len(n) /\ \A i \in 1..Len(q) : q[i] = n[i]
    <2>1. Config!IsStrictPrefix(q, n) /\ q \in Seq(R)
      BY <1>1, <1>3
    <2> QED BY <2>1, Starts
  <1>5. Config!IsStrictPrefix(p, n)
    <2>1. Len(p) < Len(n) /\ \A i \in 1..Len(p) : p[i] = n[i]
      BY <1>3, <1>4
    <2> QED BY <2>1, Starts
  <1>6. /\ rest \in Seq(R) /\ Len(rest) = Len(n) - Len(p) /\ Len(rest) > 1
        /\ \A i \in 1..Len(rest) : rest[i] = n[Len(p) + i]
    <2>1. /\ rest \in Seq(R) /\ Len(rest) = Len(n) - (Len(p) + 1) + 1
          /\ \A i \in 1..(Len(n) - (Len(p) + 1) + 1) : rest[i] = n[Len(p) + 1 + i - 1]
      <3>1. Len(p) + 1 \in Nat \ {0} /\ Len(p) + 1 <= Len(n) + 1 /\ Len(n) <= Len(n)
        BY <1>3, <1>4
      <3> QED BY <1>2, <1>3, <3>1, Part
    <2> QED BY SMTT(30), <1>3, <1>4, <2>1
  <1>7. Config!IsStrictPrefix(<<s>>, rest)
    <2>1. rest[1] = s
      BY <1>3, <1>4, <1>6
    <2>2. Len(<<s>>) < Len(rest) /\ \A i \in 1..Len(<<s>>) : <<s>>[i] = rest[i]
      BY <1>3, <1>6, <2>1
    <2> QED BY <1>3, <1>6, <2>2, Starts
  <1>8. SubSeq(rest, 2, Len(rest)) = SubSeq(n, Len(q) + 1, Len(n))
    <2>1. PICK l : l = SubSeq(rest, 2, Len(rest))
      OBVIOUS
    <2>2. PICK r : r = SubSeq(n, Len(q) + 1, Len(n))
      OBVIOUS
    <2>3. /\ l \in Seq(R) /\ Len(l) = Len(rest) - 1
          /\ \A i \in 1..(Len(rest) - 1) : l[i] = rest[i + 1]
      <3>1. Len(rest) \in Nat /\ 2 <= Len(rest) + 1 /\ Len(rest) <= Len(rest) /\ 2 \in Nat \ {0}
        BY <1>3, <1>4, <1>6
      <3>2. /\ l \in Seq(R) /\ Len(l) = Len(rest) - 2 + 1
            /\ \A i \in 1..(Len(rest) - 2 + 1) : l[i] = rest[2 + i - 1]
        BY <1>6, <2>1, <3>1, Part
      <3> QED BY <3>1, <3>2
    <2>4. /\ r \in Seq(R) /\ Len(r) = Len(n) - Len(q)
          /\ \A i \in 1..(Len(n) - Len(q)) : r[i] = n[Len(q) + i]
      <3>1. Len(q) + 1 \in Nat \ {0} /\ Len(q) + 1 <= Len(n) + 1 /\ Len(n) <= Len(n)
        BY <1>3, <1>4
      <3>2. /\ r \in Seq(R) /\ Len(r) = Len(n) - (Len(q) + 1) + 1
            /\ \A i \in 1..(Len(n) - (Len(q) + 1) + 1) : r[i] = n[Len(q) + 1 + i - 1]
        BY <1>3, <2>2, <3>1, Part
      <3> QED BY <1>3, <3>1, <3>2
    <2>5. Len(rest) - 1 = Len(n) - Len(q)
      BY <1>3, <1>6
    <2>6. \A i \in 1..(Len(rest) - 1) : rest[i + 1] = n[Len(q) + i]
      BY <1>3, <1>6
    <2>7. Len(l) = Len(r) /\ \A i \in 1..Len(l) : l[i] = r[i]
      BY <2>3, <2>4, <2>5, <2>6
    <2> QED BY <2>1, <2>2, <2>3, <2>4, <2>7, SeqEqual
  <1> QED BY <1>1, <1>2, <1>5, <1>7, <1>8

Rest(p, n) == SubSeq(n, Len(p) + 1, Len(n))

LEMMA BelowFacts ==
  ASSUME NEW id \in Path, NEW content, DOMAIN content \subseteq Path
  PROVE  /\ DOMAIN Config!Below(id, content) \subseteq Path
         /\ \A n \in DOMAIN content :
              Config!IsStrictPrefix(id, n) => Rest(id, n) \in DOMAIN Config!Below(id, content)
         /\ \A k \in DOMAIN Config!Below(id, content) :
              id \o k \in DOMAIN content /\ Config!Below(id, content)[k] = content[id \o k]
  <1>1. PICK rests : rests = {Rest(id, n) : n \in {m \in DOMAIN content : Config!IsStrictPrefix(id, m)}}
    OBVIOUS
  <1>2. Config!Below(id, content) = [k \in rests |-> content[id \o k]]
    BY <1>1 DEF Config!Below, Rest
  <1>3. ASSUME NEW n \in DOMAIN content, Config!IsStrictPrefix(id, n)
        PROVE  Rest(id, n) \in Path /\ id \o Rest(id, n) = n
    <2>1. id \in Seq(STRING) /\ n \in Seq(STRING)
      BY DEF Path
    <2> QED BY <1>3, <2>1, Prefixed DEF Rest, Path
  <1>4. \A k \in rests : k \in Path /\ id \o k \in DOMAIN content
    BY <1>1, <1>3
  <1>5. \A n \in DOMAIN content : Config!IsStrictPrefix(id, n) => Rest(id, n) \in rests
    BY <1>1
  <1> QED BY <1>2, <1>4, <1>5

(* A map has every name below p that was never removed.                    *)
Covers(p, map) ==
  \A n \in always : Config!IsStrictPrefix(p, n) => Rest(p, n) \in DOMAIN map
(* What a map has is what the store had.                                   *)
Faithful(p, map) ==
  DOMAIN map \subseteq Path /\ \A k \in DOMAIN map : <<p \o k, map[k]>> \in had

Root(ns) == ns.storeId \o (IF ns.prefix = Absent THEN <<>> ELSE <<ns.prefix>>)

(* What the store had at some moment.                                      *)
OnceThere(c) ==
  /\ DOMAIN c \subseteq Path /\ always \subseteq DOMAIN c
  /\ \A n \in DOMAIN c : <<n, c[n]>> \in had

LEMMA ReadBelow ==
  ASSUME NEW id \in Path, NEW c, OnceThere(c)
  PROVE  Covers(id, Config!Below(id, c)) /\ Faithful(id, Config!Below(id, c))
  BY ZenonT(40), BelowFacts DEF OnceThere, Covers, Faithful

LEMMA PrefixApplied ==
  ASSUME NEW ns, ns.storeId \in Path, ns.prefix \in STRING \cup {Absent}, always \subseteq Path,
         NEW map, Faithful(ns.storeId, map)
  PROVE  /\ Faithful(Root(ns), Config!ApplyPrefix(ns.prefix, map))
         /\ Covers(ns.storeId, map) => Covers(Root(ns), Config!ApplyPrefix(ns.prefix, map))
  <1>1. PICK id \in Path : id = ns.storeId
    OBVIOUS
  <1>2. CASE ns.prefix = Absent
    <2>1. id \o <<>> = id
      BY ConcatEmptySeq DEF Path
    <2>2. Root(ns) = id
      BY <1>1, <1>2, <2>1 DEF Root
    <2>3. Config!ApplyPrefix(ns.prefix, map) = map
      BY <1>2 DEF Config!ApplyPrefix
    <2> QED BY <1>1, <2>2, <2>3
  <1>3. CASE ns.prefix # Absent
    <2>1. PICK s \in STRING : s = ns.prefix
      BY <1>3
    <2>2. PICK below : below = Config!Below(<<s>>, map)
      OBVIOUS
    <2>3. Root(ns) = id \o <<s>> /\ Config!ApplyPrefix(ns.prefix, map) = below
      BY <1>1, <1>3, <2>1, <2>2 DEF Root, Config!ApplyPrefix
    <2>4. <<s>> \in Path /\ Len(<<s>>) = 1
      <3>1. \A R : \A x \in R : <<x>> \in Seq(R) /\ Len(<<x>>) = 1
        OBVIOUS
      <3> QED BY <3>1 DEF Path
    <2>5. /\ DOMAIN below \subseteq Path
          /\ \A n \in DOMAIN map : Config!IsStrictPrefix(<<s>>, n) => Rest(<<s>>, n) \in DOMAIN below
          /\ \A k \in DOMAIN below : <<s>> \o k \in DOMAIN map /\ below[k] = map[<<s>> \o k]
      BY <2>2, <2>4, BelowFacts DEF Faithful
    <2>6. Faithful(id \o <<s>>, below)
      <3>1. ASSUME NEW k \in DOMAIN below
            PROVE  <<(id \o <<s>>) \o k, below[k]>> \in had
        <4>1. <<id \o (<<s>> \o k), map[<<s>> \o k]>> \in had
          BY <1>1, <2>5 DEF Faithful
        <4>2. id \in Seq(STRING) /\ <<s>> \in Seq(STRING) /\ k \in Seq(STRING)
          BY <2>4, <2>5 DEF Path
        <4>3. (id \o <<s>>) \o k = id \o (<<s>> \o k)
          BY <4>2, ConcatAssociative
        <4> QED BY <2>5, <4>1, <4>3
      <3> QED BY <2>5, <3>1 DEF Faithful
    <2>7. ASSUME Covers(id, map)
          PROVE  Covers(id \o <<s>>, below)
      <3>1. SUFFICES ASSUME NEW n \in always, Config!IsStrictPrefix(id \o <<s>>, n)
                     PROVE  Rest(id \o <<s>>, n) \in DOMAIN below
        BY DEF Covers
      <3>2. id \in Seq(STRING) /\ n \in Seq(STRING)
        BY DEF Path
      <3>3. /\ Config!IsStrictPrefix(id, n)
            /\ Config!IsStrictPrefix(<<s>>, Rest(id, n))
            /\ SubSeq(Rest(id, n), 2, Len(Rest(id, n))) = Rest(id \o <<s>>, n)
        BY <3>1, <3>2, PrefixedTwice DEF Rest
      <3>4. Rest(id, n) \in DOMAIN map
        BY <2>7, <3>3 DEF Covers
      <3>5. Rest(<<s>>, Rest(id, n)) = SubSeq(Rest(id, n), 2, Len(Rest(id, n)))
        <4>1. Len(<<s>>) + 1 = 2
          BY <2>4
        <4> QED BY <4>1 DEF Rest
      <3> QED BY <2>5, <3>3, <3>4, <3>5
    <2> QED BY <1>1, <2>3, <2>6, <2>7
  <1> QED BY <1>2, <1>3

Remote == {"extension", "secrets-manager", "parameter-store"}

LEMMA ServiceFacts ==
  ASSUME ConfigTyped, NEW e \in Environment, NEW n \in DOMAIN Config!BuildConfigService(e)
  PROVE  LET ns == Config!BuildConfigService(e)[n] IN
         /\ ns.storeId \in Path /\ ns.prefix \in STRING \cup {Absent}
         /\ e.platform = "aws" => ns.backend \in Remote
  <1>1. PICK found : found = Config!Discovered(e)
    OBVIOUS
  <1>2. PICK k \in Nat :
          /\ DOMAIN found \subseteq 1..k
          /\ \A i \in DOMAIN found :
               found[i].storeId \in Path /\ found[i].prefix \in STRING \cup {Absent}
    <2>1. CASE e.storeId # <<>>
      <3>1. found = << [name |-> "default", storeId |-> e.storeId, storeKind |-> e.storeKind,
                        prefix |-> Absent] >>
        BY <1>1, <2>1 DEF Config!Discovered, Config!NoStore
      <3>2. DOMAIN found = 1..1 /\ found[1].storeId = e.storeId /\ found[1].prefix = Absent
        BY <3>1
      <3> QED BY <3>2 DEF ConfigTyped
    <2>2. CASE e.storeId = <<>>
      <3>1. PICK spaces \in Seq(Space) : spaces = e.spaces
        BY DEF ConfigTyped
      <3>2. Len(spaces) \in Nat /\ DOMAIN spaces = 1..Len(spaces) /\ \A i \in 1..Len(spaces) : spaces[i] \in Space
        BY LenProperties, ElementOfSeq
      <3>3. /\ DOMAIN found \subseteq DOMAIN spaces
            /\ \A i \in DOMAIN found : found[i].storeId = spaces[i].storeId /\ found[i].prefix = spaces[i].prefix
        BY <1>1, <2>2, <3>1 DEF Config!Discovered, Config!NoStore
      <3> QED BY <3>2, <3>3 DEF Space
    <2> QED BY <2>1, <2>2
  <1>3. PICK last : last = Config!Max({i \in DOMAIN found : found[i].name = n})
    OBVIOUS
  <1>4. n \in {found[i].name : i \in DOMAIN found}
    BY <1>1 DEF Config!BuildConfigService
  <1>5. last \in DOMAIN found
    <2>1. PICK S : S = {i \in DOMAIN found : found[i].name = n}
      OBVIOUS
    <2>2. S \in SUBSET (1..k) /\ S # {}
      BY <1>2, <1>4, <2>1
    <2>3. last \in S
      BY <1>3, <2>1, <2>2, Greatest
    <2> QED BY <2>1, <2>3
  <1>6. Config!BuildConfigService(e)[n] =
          [storeId |-> found[last].storeId, prefix |-> found[last].prefix,
           backend |-> Config!ResolveBackend(e, Config!Kind(found[last].storeKind)),
           interval |-> Config!RefreshInterval(e)]
    BY <1>1, <1>3, <1>4 DEF Config!BuildConfigService
  <1>7. ASSUME NEW kind, e.platform = "aws"
        PROVE  Config!ResolveBackend(e, kind) \in Remote
    BY <1>7 DEF Config!ResolveBackend, Remote
  <1> QED BY <1>2, <1>5, <1>6, <1>7

(* A namespace's fetch in progress, and the values it has.                 *)
FetchOK(n) ==
  /\ fetching[n].st \in {"idle"} \cup Remote
  /\ Faithful(service[n].storeId, fetching[n].got)
LoadedOK(n) ==
  loaded[n] # <<>> =>
    Covers(Root(service[n]), loaded[n][1]) /\ Faithful(Root(service[n]), loaded[n][1])

(* The invariant: every content the store had is kept truly, nobody has    *)
(* fetched before there are namespaces, and on AWS what a fetch has so far *)
(* is what the store had, and what was loaded is all that lasted.          *)
ConfigInv ==
  /\ env \in Environment
  /\ service = <<>> \/ service = Config!BuildConfigService(env)
  /\ DOMAIN stored = DOMAIN Entries
  /\ DOMAIN loaded = Config!Names /\ DOMAIN fetching = Config!Names
  /\ \A n \in Config!Names : fetching[n] = [st |-> fetching[n].st, got |-> fetching[n].got]
  /\ \A n \in Config!Names \ DOMAIN service :
       fetching[n] = [st |-> "idle", got |-> <<>>] /\ loaded[n] = <<>>
  /\ OnceThere(Config!Content(stored)) /\ \A c \in past : OnceThere(c)
  /\ env.platform = "aws" => \A n \in DOMAIN service : FetchOK(n) /\ LoadedOK(n)

LEMMA EmptyMap == DOMAIN <<>> = {} /\ \A p : Faithful(p, <<>>)
  <1>1. DOMAIN <<>> = {}
    OBVIOUS
  <1> QED BY <1>1 DEF Faithful

LEMMA ServiceDomain ==
  ASSUME ConfigTyped, ConfigInv
  PROVE  /\ DOMAIN service \subseteq Config!Names
         /\ \A n \in DOMAIN service :
              /\ service[n].storeId \in Path /\ service[n].prefix \in STRING \cup {Absent}
              /\ env.platform = "aws" => service[n].backend \in Remote
  <1>1. CASE service = <<>>
    BY <1>1, EmptyMap
  <1>2. CASE service = Config!BuildConfigService(env)
    <2>1. DOMAIN service \subseteq Config!Names
      BY <1>2 DEF ConfigInv, Config!Names
    <2> QED BY <1>2, <2>1, ServiceFacts DEF ConfigInv
  <1> QED BY <1>1, <1>2 DEF ConfigInv

LEMMA InitConfigInv == ASSUME ConfigTyped PROVE Config!Init => ConfigInv
  <1> SUFFICES ASSUME Config!Init PROVE ConfigInv
    OBVIOUS
  <1>1. /\ env \in Environment /\ service = <<>> /\ stored = Entries
        /\ loaded = [n \in Config!Names |-> <<>>]
        /\ fetching = [n \in Config!Names |-> [st |-> "idle", got |-> <<>>]]
        /\ always = DOMAIN Config!Content(Entries) /\ had = Config!Had(Entries)
        /\ past = {Config!Content(Entries)}
    BY DEF Config!Init, Config!NoValues
  <1>2. OnceThere(Config!Content(stored))
    BY <1>1 DEF OnceThere, Config!Content, Config!Had, Config!Name, ConfigTyped
  <1> QED BY <1>1, <1>2, EmptyMap DEF ConfigInv

LEMMA HandleStep ==
  ASSUME ConfigTyped, ConfigInv, Config!Handle
  PROVE  ConfigInv'
  <1>1. /\ service = <<>> /\ service' = Config!BuildConfigService(env)
        /\ UNCHANGED <<env, loaded, fetching, stored, always, had, past, changes>>
    BY DEF Config!Handle, Config!NoValues, Config!store
  <1>2. DOMAIN service = {}
    BY <1>1, EmptyMap
  <1>3. \A n \in Config!Names : fetching[n] = [st |-> "idle", got |-> <<>>] /\ loaded[n] = <<>>
    BY <1>2 DEF ConfigInv
  <1>4. DOMAIN service' \subseteq Config!Names
    BY <1>1 DEF ConfigInv, Config!Names
  <1>5. ASSUME NEW n \in DOMAIN service' PROVE FetchOK(n)' /\ LoadedOK(n)'
    <2>1. \A p : Faithful(p, <<>>)'
      BY EmptyMap DEF Faithful
    <2>2. fetching'[n] = [st |-> "idle", got |-> <<>>] /\ loaded'[n] = <<>>
      BY <1>1, <1>3, <1>4
    <2>3. fetching'[n].st = "idle" /\ fetching'[n].got = <<>>
      BY <2>2
    <2>4. PICK id : id = service'[n].storeId
      OBVIOUS
    <2>5. Faithful(id, <<>>)'
      BY <2>1
    <2> QED BY <2>2, <2>3, <2>4, <2>5 DEF FetchOK, LoadedOK
  <1>6. OnceThere(Config!Content(stored))' /\ \A c \in past' : OnceThere(c)'
    BY <1>1 DEF ConfigInv, OnceThere
  <1> QED BY <1>1, <1>3, <1>5, <1>6 DEF ConfigInv

LEMMA Grown ==
  ASSUME always' \subseteq always, had \subseteq had'
  PROVE  /\ \A p, map : Covers(p, map) => Covers(p, map)'
         /\ \A p, map : Faithful(p, map) => Faithful(p, map)'
         /\ \A c : OnceThere(c) => OnceThere(c)'
  BY DEF Covers, Faithful, OnceThere

LEMMA ChangeStep ==
  ASSUME ConfigTyped, ConfigInv, NEW m \in DOMAIN Entries, NEW v, Config!Change(m, v)
  PROVE  ConfigInv'
  <1>1. /\ stored' = [stored EXCEPT ![m] = v]
        /\ always' = always \cap DOMAIN Config!Content(stored')
        /\ had' = had \cup Config!Had(stored')
        /\ past' = past \cup {Config!Content(stored')}
        /\ UNCHANGED <<env, service, loaded, fetching>>
    BY DEF Config!Change
  <1>2. always' \subseteq always /\ had \subseteq had'
    BY <1>1
  <1>3. PICK now : now = Config!Content(stored')
    OBVIOUS
  <1>7. OnceThere(now)'
    <2>1. DOMAIN now \subseteq DOMAIN Entries /\ \A n \in DOMAIN now : now[n] = stored'[n]
      BY <1>3 DEF Config!Content, Config!Name
    <2>2. Config!Had(stored') = {<<n, stored'[n]>> : n \in DOMAIN now}
      BY <1>3 DEF Config!Had
    <2>3. \A n \in DOMAIN now : <<n, now[n]>> \in had'
      BY <1>1, <2>1, <2>2
    <2>4. always' \subseteq DOMAIN now
      BY <1>1, <1>3
    <2> QED BY <2>1, <2>3, <2>4 DEF OnceThere, ConfigTyped
  <1>8. OnceThere(Config!Content(stored))'
    BY <1>3, <1>7 DEF OnceThere
  <1>4. \A c \in past' : OnceThere(c)'
    <2>1. \A c \in past : OnceThere(c)'
      BY <1>2, Grown DEF ConfigInv
    <2> QED BY <1>1, <1>3, <1>7, <2>1 DEF OnceThere
  <1>5. ASSUME env.platform = "aws", NEW n \in DOMAIN service
        PROVE  FetchOK(n)' /\ LoadedOK(n)'
    <2>1. FetchOK(n) /\ LoadedOK(n)
      BY <1>5 DEF ConfigInv
    <2>2. Faithful(service[n].storeId, fetching[n].got)'
      BY <1>1, <1>2, <2>1, Grown DEF FetchOK
    <2>3. ASSUME loaded[n] # <<>>
          PROVE  /\ Covers(Root(service[n]), loaded[n][1])'
                 /\ Faithful(Root(service[n]), loaded[n][1])'
      <3>1. Covers(Root(service[n]), loaded[n][1]) /\ Faithful(Root(service[n]), loaded[n][1])
        BY <2>1, <2>3 DEF LoadedOK
      <3>2. Root(service[n])' = Root(service[n]) /\ loaded' = loaded
        BY <1>1 DEF Root
      <3> QED BY <1>2, <3>1, <3>2, Grown
    <2> QED BY <1>1, <2>1, <2>2, <2>3 DEF FetchOK, LoadedOK
  <1>6. DOMAIN stored' = DOMAIN Entries
    BY <1>1 DEF ConfigInv
  <1> QED BY <1>1, <1>4, <1>5, <1>6, <1>8 DEF ConfigInv

(* A fetch goes on, from an answer that had nothing but what the store had. *)
LEMMA Went ==
  ASSUME ConfigTyped, ConfigInv, NEW n \in DOMAIN service, NEW st, NEW got, Config!Go(n, st, got),
         env.platform = "aws" => st \in {"idle"} \cup Remote /\ Faithful(service[n].storeId, got)
  PROVE  ConfigInv'
  <1>1. /\ fetching' = [fetching EXCEPT ![n] = [st |-> st, got |-> got]]
        /\ UNCHANGED <<env, service, loaded, stored, always, had, past, changes>>
    BY DEF Config!Go, Config!store
  <1>2. n \in Config!Names /\ DOMAIN fetching = Config!Names
    BY ServiceDomain DEF ConfigInv
  <1>3. /\ fetching'[n] = [st |-> st, got |-> got]
        /\ \A m \in Config!Names : m # n => fetching'[m] = fetching[m]
    BY <1>1, <1>2
  <1>4. DOMAIN fetching' = Config!Names
    BY <1>1, <1>2
  <1>5. \A m \in Config!Names : fetching'[m] = [st |-> fetching'[m].st, got |-> fetching'[m].got]
    <2>1. fetching'[n] = [st |-> fetching'[n].st, got |-> fetching'[n].got]
      BY <1>3
    <2> QED BY <1>3, <2>1 DEF ConfigInv
  <1>6. \A m \in Config!Names \ DOMAIN service :
          fetching'[m] = [st |-> "idle", got |-> <<>>] /\ loaded'[m] = <<>>
    BY <1>1, <1>3 DEF ConfigInv
  <1>7. \A p, map : /\ Covers(p, map)' <=> Covers(p, map)
                    /\ Faithful(p, map)' <=> Faithful(p, map)
    BY <1>1 DEF Covers, Faithful
  <1>8. ASSUME env.platform = "aws", NEW m \in DOMAIN service
        PROVE  FetchOK(m)' /\ LoadedOK(m)'
    <2>1. LoadedOK(m)'
      <3>1. LoadedOK(m)
        BY <1>8 DEF ConfigInv
      <3>2. Root(service[m])' = Root(service[m])
        BY <1>1 DEF Root
      <3> QED BY <1>1, <1>7, <3>1, <3>2 DEF LoadedOK
    <2>2. CASE m = n
      <3>1. fetching'[m].st = st /\ fetching'[m].got = got
        BY <1>3, <2>2
      <3> QED BY <1>1, <1>7, <1>8, <2>1, <2>2, <3>1 DEF FetchOK
    <2>3. CASE m # n
      <3>1. FetchOK(m) /\ fetching'[m] = fetching[m]
        BY <1>3, <1>8, <2>3, ServiceDomain DEF ConfigInv
      <3> QED BY <1>1, <1>7, <2>1, <3>1 DEF FetchOK
    <2> QED BY <2>2, <2>3
  <1>9. OnceThere(Config!Content(stored))' /\ \A c \in past' : OnceThere(c)'
    BY <1>1 DEF ConfigInv, OnceThere
  <1> QED BY <1>1, <1>4, <1>5, <1>6, <1>8, <1>9 DEF ConfigInv

(* A fetch returns what a store had, with all that was there throughout.   *)
LEMMA Returned ==
  ASSUME ConfigTyped, ConfigInv, NEW n \in DOMAIN service, NEW map, Config!Return(n, map),
         env.platform = "aws" =>
           Covers(service[n].storeId, map) /\ Faithful(service[n].storeId, map)
  PROVE  ConfigInv'
  <1>1. PICK answer : answer = Config!ApplyPrefix(service[n].prefix, map)
    OBVIOUS
  <1>2. /\ loaded' = [loaded EXCEPT ![n] = <<answer>>]
        /\ fetching' = [fetching EXCEPT ![n].st = "idle"]
        /\ UNCHANGED <<env, service, stored, always, had, past, changes>>
    BY <1>1 DEF Config!Return, Config!store
  <1>3. n \in Config!Names /\ DOMAIN fetching = Config!Names /\ DOMAIN loaded = Config!Names
    BY ServiceDomain DEF ConfigInv
  <1>4. /\ fetching'[n] = [st |-> "idle", got |-> fetching[n].got]
        /\ \A m \in Config!Names : m # n => fetching'[m] = fetching[m]
    <2>1. fetching[n] = [st |-> fetching[n].st, got |-> fetching[n].got]
      BY <1>3 DEF ConfigInv
    <2>2. fetching'[n] = [fetching[n] EXCEPT !.st = "idle"]
      BY <1>2, <1>3
    <2>3. \A s, g : [[st |-> s, got |-> g] EXCEPT !.st = "idle"] = [st |-> "idle", got |-> g]
      OBVIOUS
    <2>4. fetching'[n] = [st |-> "idle", got |-> fetching[n].got]
      BY <2>1, <2>2, <2>3
    <2> QED BY <1>2, <1>3, <2>4
  <1>5. DOMAIN fetching' = Config!Names /\ DOMAIN loaded' = Config!Names
    BY <1>2, <1>3
  <1>6. \A m \in Config!Names : fetching'[m] = [st |-> fetching'[m].st, got |-> fetching'[m].got]
    <2>1. fetching'[n] = [st |-> fetching'[n].st, got |-> fetching'[n].got]
      BY <1>4
    <2> QED BY <1>4, <2>1 DEF ConfigInv
  <1>7. loaded'[n] = <<answer>> /\ \A m \in Config!Names : m # n => loaded'[m] = loaded[m]
    BY <1>2, <1>3
  <1>8. \A m \in Config!Names \ DOMAIN service :
          fetching'[m] = [st |-> "idle", got |-> <<>>] /\ loaded'[m] = <<>>
    BY <1>4, <1>7 DEF ConfigInv
  <1>9. \A p, m : /\ Covers(p, m)' <=> Covers(p, m)
                  /\ Faithful(p, m)' <=> Faithful(p, m)
    BY <1>2 DEF Covers, Faithful
  <1>10. ASSUME env.platform = "aws", NEW m \in DOMAIN service
         PROVE  FetchOK(m)' /\ LoadedOK(m)'
    <2>1. FetchOK(m) /\ LoadedOK(m) /\ m \in Config!Names
      BY <1>10, ServiceDomain DEF ConfigInv
    <2>2. Root(service[m])' = Root(service[m])
      BY <1>2 DEF Root
    <2>3. CASE m = n
      <3>1. fetching'[m].st = "idle" /\ fetching'[m].got = fetching[m].got
        BY <1>4, <2>3
      <3>2. Covers(Root(service[m]), answer) /\ Faithful(Root(service[m]), answer)
        <4>1. service[m].storeId \in Path /\ service[m].prefix \in STRING \cup {Absent}
          BY ServiceDomain
        <4>2. always \subseteq Path
          BY DEF ConfigInv, OnceThere
        <4> QED BY <1>1, <1>10, <2>3, <4>1, <4>2, PrefixApplied
      <3>3. loaded'[m][1] = answer
        BY <1>7, <2>3
      <3> QED BY <1>2, <1>9, <2>1, <2>2, <3>1, <3>2, <3>3 DEF FetchOK, LoadedOK
    <2>4. CASE m # n
      <3>1. fetching'[m] = fetching[m] /\ loaded'[m] = loaded[m]
        BY <1>4, <1>7, <2>1, <2>4
      <3> QED BY <1>2, <1>9, <2>1, <2>2, <3>1 DEF FetchOK, LoadedOK
    <2> QED BY <2>3, <2>4
  <1>11. OnceThere(Config!Content(stored))' /\ \A c \in past' : OnceThere(c)'
    BY <1>2 DEF ConfigInv, OnceThere
  <1> QED BY <1>2, <1>5, <1>6, <1>8, <1>10, <1>11 DEF ConfigInv

LEMMA InProgress ==
  ASSUME ConfigTyped, ConfigInv, NEW n \in Config!Names, fetching[n].st # "idle"
  PROVE  /\ n \in DOMAIN service
         /\ env.platform = "aws" => fetching[n].st \in Remote
  <1>1. n \in DOMAIN service
    BY DEF ConfigInv
  <1> QED BY <1>1 DEF ConfigInv, FetchOK

LEMMA BeginStep ==
  ASSUME ConfigTyped, ConfigInv, NEW n \in Config!Names, Config!Begin(n)
  PROVE  ConfigInv'
  <1>1. n \in DOMAIN service /\ Config!Go(n, service[n].backend, <<>>)
    BY DEF Config!Begin, Config!Go, Config!NoValues
  <1>2. env.platform = "aws" => service[n].backend \in {"idle"} \cup Remote
    BY <1>1, ServiceDomain
  <1> QED BY <1>1, <1>2, EmptyMap, Went

LEMMA WholeAnswers ==
  ASSUME ConfigTyped, ConfigInv, NEW n \in Config!Names,
         Config!ExtensionAnswers(n) \/ Config!SecretAnswers(n)
  PROVE  ConfigInv'
  <1>1. n \in DOMAIN service
    <2>1. fetching[n].st # "idle"
      BY DEF Config!ExtensionAnswers, Config!SecretAnswers
    <2> QED BY <2>1, InProgress
  <1>2. PICK c : OnceThere(c) /\ Config!Return(n, Config!Below(service[n].storeId, c))
    BY DEF ConfigInv, Config!ExtensionAnswers, Config!SecretAnswers
  <1>3. service[n].storeId \in Path
    BY <1>1, ServiceDomain
  <1>4. /\ Covers(service[n].storeId, Config!Below(service[n].storeId, c))
        /\ Faithful(service[n].storeId, Config!Below(service[n].storeId, c))
    BY <1>2, <1>3, ReadBelow
  <1> QED BY <1>1, <1>2, <1>4, Returned

LEMMA FallingBack ==
  ASSUME ConfigTyped, ConfigInv, NEW n \in Config!Names,
         Config!ExtensionFails(n) \/ Config!FetchFails(n)
  PROVE  ConfigInv'
  <1>1. PICK st \in {"idle", "secrets-manager"} : fetching[n].st # "idle" /\ Config!Go(n, st, <<>>)
    BY DEF Config!ExtensionFails, Config!FetchFails, Config!NoValues
  <1>2. n \in DOMAIN service
    BY <1>1, InProgress
  <1>3. st \in {"idle"} \cup Remote
    BY DEF Remote
  <1> QED BY <1>1, <1>2, <1>3, EmptyMap, Went

LEMMA NextPageStep ==
  ASSUME ConfigTyped, ConfigInv, NEW n \in Config!Names, Config!NextPage(n)
  PROVE  ConfigInv'
  <1>1. PICK id : id = service[n].storeId
    OBVIOUS
  <1>2. PICK below : below = Config!Below(id, Config!Content(stored))
    OBVIOUS
  <1>3. PICK lasting : lasting = [m \in always |-> stored[m]]
    OBVIOUS
  <1>4. PICK before : before = fetching[n].got
    OBVIOUS
  <1>5. PICK page \in SUBSET DOMAIN below :
          LET got == [k \in page \cup DOMAIN before |-> IF k \in page THEN below[k] ELSE before[k]]
          IN  \/ Config!Go(n, "parameter-store", got)
              \/ DOMAIN Config!Below(id, lasting) \subseteq DOMAIN got /\ Config!Return(n, got)
    BY <1>1, <1>2, <1>3, <1>4 DEF Config!NextPage
  <1>6. PICK got : got = [k \in page \cup DOMAIN before |-> IF k \in page THEN below[k] ELSE before[k]]
    OBVIOUS
  <1>7. n \in DOMAIN service /\ id \in Path
    <2>1. fetching[n].st # "idle"
      BY DEF Config!NextPage
    <2> QED BY <1>1, <2>1, InProgress, ServiceDomain
  <1>8. OnceThere(Config!Content(stored))
    BY DEF ConfigInv
  <1>9. env.platform = "aws" => Faithful(id, got)
    <2>1. SUFFICES ASSUME env.platform = "aws" PROVE Faithful(id, got)
      OBVIOUS
    <2>2. Faithful(id, before)
      BY <1>1, <1>4, <1>7, <2>1 DEF ConfigInv, FetchOK
    <2>3. Faithful(id, below)
      BY <1>2, <1>7, <1>8, ReadBelow
    <2> QED BY <1>6, <2>2, <2>3 DEF Faithful
  <1>10. DOMAIN Config!Below(id, lasting) \subseteq DOMAIN got => Covers(id, got)
    <2>1. DOMAIN lasting = always /\ always \subseteq Path
      BY <1>3, <1>8 DEF OnceThere
    <2>2. \A m \in always :
            Config!IsStrictPrefix(id, m) => Rest(id, m) \in DOMAIN Config!Below(id, lasting)
      BY <1>7, <2>1, BelowFacts
    <2> QED BY <2>2 DEF Covers
  <1>11. CASE Config!Go(n, "parameter-store", got)
    <2>1. "parameter-store" \in {"idle"} \cup Remote
      BY DEF Remote
    <2> QED BY <1>1, <1>7, <1>9, <1>11, <2>1, Went
  <1>12. CASE DOMAIN Config!Below(id, lasting) \subseteq DOMAIN got /\ Config!Return(n, got)
    BY <1>1, <1>7, <1>9, <1>10, <1>12, Returned
  <1> QED BY <1>5, <1>6, <1>11, <1>12

LEMMA OtherAnswers ==
  ASSUME ConfigTyped, ConfigInv, NEW n \in Config!Names,
         Config!LocalAnswers(n) \/ Config!EmptyAnswers(n)
  PROVE  ConfigInv'
  <1>1. fetching[n].st \in {"local", "empty"} /\ \E map : Config!Return(n, map)
    BY DEF Config!LocalAnswers, Config!EmptyAnswers
  <1>2. n \in DOMAIN service /\ env.platform # "aws"
    <2>1. fetching[n].st # "idle" /\ fetching[n].st \notin Remote
      BY <1>1 DEF Remote
    <2> QED BY <2>1, InProgress
  <1> QED BY <1>1, <1>2, Returned

(* The config layer's invariant is inductive.                              *)
THEOREM ConfigInvStep ==
  ASSUME ConfigTyped PROVE ConfigInv /\ [Config!Next]_(Config!vars) => ConfigInv'
  <1> SUFFICES ASSUME ConfigInv, [Config!Next]_(Config!vars) PROVE ConfigInv'
    OBVIOUS
  <1>1. CASE UNCHANGED Config!vars
    <2>1. UNCHANGED <<env, service, stored, loaded, fetching, always, had, past, changes>>
      BY <1>1 DEF Config!vars
    <2> QED BY <2>1 DEF ConfigInv, OnceThere, FetchOK, LoadedOK, Covers, Faithful, Root
  <1>2. CASE Config!Next
    <2>1. CASE \E m \in Config!Name, v \in {NewValue, Absent} : Config!Change(m, v)
      BY <2>1, ChangeStep DEF Config!Name
    <2>2. ASSUME NEW n \in Config!Names,
                 \/ Config!Begin(n)
                 \/ Config!ExtensionAnswers(n) \/ Config!ExtensionFails(n)
                 \/ Config!SecretAnswers(n) \/ Config!NextPage(n) \/ Config!FetchFails(n)
                 \/ Config!LocalAnswers(n) \/ Config!EmptyAnswers(n)
          PROVE  ConfigInv'
      BY <2>2, BeginStep, WholeAnswers, FallingBack, NextPageStep, OtherAnswers
    <2> QED BY <1>2, <2>1, <2>2, HandleStep DEF Config!Next
  <1> QED BY <1>1, <1>2

(* On AWS, what a namespace answers from has every key of its store that   *)
(* was never removed, and no value the store never had, whatever the       *)
(* extension, its fallback, and pages read while the store changes do.     *)
THEOREM FetchesWholeCorrect == ASSUME ConfigTyped PROVE Config!Spec => []Config!FetchesWhole
  <1>1. ConfigInv => Config!FetchesWhole
    <2> SUFFICES ASSUME ConfigInv, NEW n \in DOMAIN service, env.platform = "aws", loaded[n] # <<>>
                 PROVE  LET root == Root(service[n]) IN
                        /\ \A name \in always :
                             Config!IsStrictPrefix(root, name) =>
                               SubSeq(name, Len(root) + 1, Len(name)) \in DOMAIN loaded[n][1]
                        /\ \A key \in DOMAIN loaded[n][1] : <<root \o key, loaded[n][1][key]>> \in had
      BY DEF Config!FetchesWhole, Root
    <2>1. Covers(Root(service[n]), loaded[n][1]) /\ Faithful(Root(service[n]), loaded[n][1])
      BY DEF ConfigInv, LoadedOK
    <2> QED BY <2>1 DEF Covers, Faithful, Rest
  <1> QED BY <1>1, InitConfigInv, ConfigInvStep, PTL DEF Config!Spec
=============================================================================
