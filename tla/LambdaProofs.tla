---------------------------- MODULE LambdaProofs ----------------------------
(***************************************************************************)
(* The application that serves events is the one SIGTERM closes, and every *)
(* event goes to a handler that a lookup justifies: for any number of      *)
(* calls, any events, handlers, exports and environment variables.         *)
(***************************************************************************)
EXTENDS Lambda, SequenceTheorems, TLAPS

Fields == {"sender", "closing", "disposed"}
Elements(s) == {s[i] : i \in DOMAIN s}

\* The applications, and the numbers that name one.
AppsInv ==
    /\ apps \in Seq(Elements(apps))
    /\ \A i \in DOMAIN apps : DOMAIN apps[i] = Fields
    /\ app \in 0 .. Len(apps)
    /\ shutdown \in 0 .. Len(apps)
    /\ ended /\ shutdown # 0 => apps[shutdown].disposed = Disposals

\* The listener is registered with the application of the entry's handler.
EntryInv ==
    /\ shutdown = 0 <=> entry = <<>>
    /\ entry # <<>> => /\ entry = <<entry[1]>>
                       /\ entry[1].app = shutdown
                       /\ entry[1].type \in Types

\* A handler that some lookup justifies.
Justified(found) ==
    IF ByName(env.handlerId) # <<>> THEN found = ByName(env.handlerId)
    ELSE \E d \in Call : event[d] # <<>> /\ found = Own(event[d][1])

CachedInv == cached # <<>> => entry # <<>> /\ Justified(cached)

Ready == entry # <<>> /\ (entry[1].type = "websocket" => apps[shutdown].sender # <<>>)

\* An id is looked up in the registry before the import of a module reference.
Unregistered(c) ==
    LET id == IdOf(entry[1].type, event[c][1])
    IN  id # <<>> /\ ById(entry[1].type, id) = <<>>

Undone(c) == task[c] = <<>> /\ answer[c] = <<>>

CallInv(c) ==
    /\ pc[c] = "idle" <=> event[c] = <<>>
    /\ pc[c] \in {"idle", "starting", "entering", "resolving"} => Undone(c)
    /\ mine[c] \in 0 .. Len(apps)
    /\ pc[c] = "entering" => mine[c] # 0
    /\ pc[c] = "resolving" => Ready /\ Unregistered(c)
    /\ pc[c] = "running" => Ready /\ answer[c] = <<>>
    /\ task[c] # <<>> => /\ Ready
                         /\ task[c][1].app = shutdown
                         /\ Justified(<<task[c][1].fn>>)
    /\ answer[c] # <<>> =>
          /\ entry # <<>>
          /\ answer[c][1].is = NotFound(entry[1].type) => Own(event[c][1]) = <<>>

FunctionsInv ==
    /\ pc = [c \in Call |-> pc[c]] /\ event = [c \in Call |-> event[c]]
    /\ mine = [c \in Call |-> mine[c]] /\ task = [c \in Call |-> task[c]]
    /\ answer = [c \in Call |-> answer[c]]

IInv ==
    /\ AppsInv /\ EntryInv /\ CachedInv /\ FunctionsInv
    /\ ended \in BOOLEAN
    /\ \A c \in Call : CallInv(c)
-----------------------------------------------------------------------------
(* Lookups. *)

\* What a lookup finds is nothing or one function.
OneAtMost(found) == found = <<>> \/ \E x : found = <<x>>

LEMMA LookupsFindOne ==
  ASSUME NEW t, NEW id, NEW e
  PROVE  /\ OneAtMost(ById(t, id)) /\ OneAtMost(ByRef(t, id))
         /\ OneAtMost(ByRoute(t, e)) /\ OneAtMost(Own(e)) /\ OneAtMost(ByName(id))
<1>1. OneAtMost(ById(t, id))
  BY DEF ById, OneAtMost
<1>2. OneAtMost(ByRef(t, id))
  BY DEF ByRef, OneAtMost
<1>3. OneAtMost(ByRoute(t, e))
  BY DEF ByRoute, OneAtMost
<1>4. OneAtMost(Own(e))
  BY DEF Own, ByName, ById, ByRef, ByRoute, OneAtMost
<1>5. OneAtMost(ByName(id))
  BY DEF ByName, ById, ByRef, OneAtMost
<1> QED BY <1>1, <1>2, <1>3, <1>4, <1>5

LEMMA LookupsKept ==
  ASSUME UNCHANGED <<env, entry>>, NEW e, NEW id
  PROVE  /\ (Own(e))' = Own(e)
         /\ (ByName(id))' = ByName(id)
<1>1. env' = env /\ entry' = entry
  OBVIOUS
<1>2. (ByName(id))' = ByName(id)
  BY <1>1 DEF ByName, ById, ByRef
<1>3. (Own(e))' = Own(e)
  BY <1>1 DEF Own, ByName, ById, ByRef, ByRoute, IdOf, RouteOf
<1> QED BY <1>2, <1>3

LEMMA JustifiedKept ==
  ASSUME UNCHANGED <<env, entry, event>>, NEW f
  PROVE  Justified(f)' <=> Justified(f)
<1>1. (ByName(env.handlerId))' = ByName(env.handlerId)
  BY LookupsKept
<1>2. \A d \in Call : (Own(event[d][1]))' = Own(event[d][1])
  BY LookupsKept
<1> QED BY <1>1, <1>2 DEF Justified

\* What an event's own lookup finds, once the entry has a handler.
LEMMA OwnIs ==
  ASSUME NEW h, NEW e, NEW id, entry' = <<h>>, env' = env, id = IdOf(h.type, e)
  PROVE  LET byId == ById(h.type, id)
             byRef == ByRef(h.type, id)
             configured == (ByName(env.handlerId))'
         IN
         /\ byId # <<>> => id # <<>> /\ (Own(e))' = byId
         /\ byId = <<>> => (Own(e))' = IF id # <<>> /\ byRef # <<>> THEN byRef
                                      ELSE ByRoute(h.type, e)
         /\ configured # <<>> =>
               id # <<>> /\ configured = IF byId # <<>> THEN byId ELSE byRef
<1>1. entry'[1].type = h.type
  OBVIOUS
<1>2. (IdOf(entry[1].type, e))' = id
  BY <1>1 DEF IdOf
<1>3. \A i : (ById(entry[1].type, i))' = ById(h.type, i) /\ (ByRef(entry[1].type, i))' = ByRef(h.type, i)
  BY <1>1 DEF ById, ByRef
<1>4. (ByRoute(entry[1].type, e))' = ByRoute(h.type, e)
  BY <1>1 DEF ByRoute, RouteOf, IdOf
<1>5. ById(h.type, <<>>) = <<>>
  BY DEF ById
<1>6. env.handlerId # <<>> => id = env.handlerId
  BY DEF IdOf
<1>7. (ByName(env.handlerId))' =
         IF env.handlerId = <<>> THEN <<>>
         ELSE IF ById(h.type, env.handlerId) # <<>> THEN ById(h.type, env.handlerId)
         ELSE ByRef(h.type, env.handlerId)
  BY <1>3 DEF ByName
<1>8. (ByName(id))' = IF id = <<>> THEN <<>>
                      ELSE IF ById(h.type, id) # <<>> THEN ById(h.type, id) ELSE ByRef(h.type, id)
  BY <1>3 DEF ByName
<1>9. (Own(e))' = IF (ByName(id))' # <<>> THEN (ByName(id))' ELSE ByRoute(h.type, e)
  BY <1>2, <1>4 DEF Own, ByName
<1> QED BY <1>5, <1>6, <1>7, <1>8, <1>9

\* A handler found for an event in these ways is justified by it.
LEMMA FoundIsJustified ==
  ASSUME NEW c \in Call, NEW h, NEW id, NEW found,
         entry' = <<h>>, env' = env, event'[c] = event[c], event[c] # <<>>,
         id = IdOf(h.type, event[c][1]),
         \/ ById(h.type, id) # <<>> /\ found = ById(h.type, id)
         \/ ById(h.type, id) = <<>> /\ id = <<>> /\ found = ByRoute(h.type, event[c][1])
         \/ /\ ById(h.type, id) = <<>> /\ id # <<>>
            /\ found = IF ByRef(h.type, id) # <<>> THEN ByRef(h.type, id)
                       ELSE ByRoute(h.type, event[c][1])
  PROVE  Justified(found)' /\ OneAtMost(found) /\ (Own(event[c][1]))' = found
<1>1. PICK e : e = event[c][1]
  OBVIOUS
<1>2. OneAtMost(found)
  BY <1>1, LookupsFindOne
<1>3. (Own(e))' = found
  BY <1>1, OwnIs
<1>4. (ByName(env.handlerId))' # <<>> => found = (ByName(env.handlerId))'
  BY <1>1, OwnIs
<1>5. (Own(event[c][1]))' = found
  BY <1>1, <1>3
<1> QED BY <1>2, <1>4, <1>5 DEF Justified

-----------------------------------------------------------------------------
(* Sequences of applications. *)

LEMMA ElementsOf ==
  ASSUME NEW s, NEW S, s \in Seq(S)
  PROVE  s \in Seq(Elements(s))
<1>1. Len(s) \in Nat /\ s \in [1 .. Len(s) -> S] /\ DOMAIN s = 1 .. Len(s)
  BY LenProperties
<1>2. s \in [1 .. Len(s) -> Elements(s)]
  BY <1>1 DEF Elements
<1> QED BY <1>1, <1>2, SeqDef

LEMMA Appended ==
  ASSUME NEW s, NEW x, s \in Seq(Elements(s))
  PROVE  LET r == Append(s, x) IN
         /\ r \in Seq(Elements(r)) /\ Len(r) = Len(s) + 1 /\ Len(s) \in Nat
         /\ DOMAIN r = 1 .. Len(s) + 1
         /\ \A i \in DOMAIN s : i \in 1 .. Len(s) /\ r[i] = s[i]
         /\ r[Len(s) + 1] = x
<1> DEFINE S == Elements(s) \cup {x}
<1>1. s \in Seq(S) /\ x \in S
  BY SeqMonotonic
<1>2. Append(s, x) \in Seq(S)
  BY <1>1, AppendProperties
<1>3. Append(s, x) \in Seq(Elements(Append(s, x)))
  BY <1>2, ElementsOf
<1> QED BY <1>1, <1>2, <1>3, AppendProperties, LenProperties

LEMMA Updated ==
  ASSUME NEW s, NEW i, NEW x, s \in Seq(Elements(s)), i \in 1 .. Len(s)
  PROVE  LET r == [s EXCEPT ![i] = x] IN
         /\ r \in Seq(Elements(r)) /\ Len(r) = Len(s) /\ Len(s) \in Nat
         /\ DOMAIN r = DOMAIN s /\ DOMAIN s = 1 .. Len(s)
         /\ \A j \in DOMAIN s : r[j] = IF j = i THEN x ELSE s[j]
<1> DEFINE S == Elements(s) \cup {x}
           r == [s EXCEPT ![i] = x]
<1>1. s \in Seq(S) /\ x \in S
  BY SeqMonotonic
<1>2. r \in Seq(S) /\ Len(r) = Len(s)
  BY <1>1, ExceptSeq
<1>3. r \in Seq(Elements(r))
  BY <1>2, ElementsOf
<1>4. Len(s) \in Nat /\ DOMAIN s = 1 .. Len(s)
  BY LenProperties
<1> QED BY <1>2, <1>3, <1>4

-----------------------------------------------------------------------------
(* Steps. *)

\* A call that does not move keeps its part of the invariant.
LEMMA OthersKept ==
  ASSUME IInv, NEW c \in Call, env' = env,
         event'[c] = event[c], pc'[c] = pc[c], mine'[c] = mine[c],
         task'[c] = task[c], answer'[c] = answer[c],
         entry # <<>> => entry' = entry /\ shutdown' = shutdown,
         Len(apps) \in Nat, Len(apps') \in Nat, Len(apps) <= Len(apps'),
         Ready => Ready',
         \A f : entry # <<>> /\ Justified(f) => Justified(f)'
  PROVE  CallInv(c)'
<1>1. CallInv(c)
  BY DEF IInv
<1>2. (pc[c] = "idle" <=> event[c] = <<>>)'
  BY <1>1 DEF CallInv
<1>3. (pc[c] \in {"idle", "starting", "entering", "resolving"} => Undone(c))'
  BY <1>1 DEF CallInv, Undone
<1>4. (mine[c] \in 0 .. Len(apps) /\ (pc[c] = "entering" => mine[c] # 0))'
  BY <1>1 DEF CallInv
<1>5. (pc[c] = "resolving" => Ready /\ Unregistered(c))'
  <2> SUFFICES ASSUME pc[c] = "resolving" PROVE Ready' /\ Unregistered(c)'
    OBVIOUS
  <2>1. Ready /\ Unregistered(c) /\ entry' = entry
    BY <1>1 DEF CallInv, Ready
  <2> QED BY <2>1 DEF Unregistered, IdOf, ById
<1>6. (pc[c] = "running" => Ready /\ answer[c] = <<>>)'
  BY <1>1 DEF CallInv
<1>7. (task[c] # <<>> => Ready /\ task[c][1].app = shutdown /\ Justified(<<task[c][1].fn>>))'
  <2> SUFFICES ASSUME task[c] # <<>>
               PROVE  Ready' /\ task[c][1].app = shutdown' /\ Justified(<<task[c][1].fn>>)'
    OBVIOUS
  <2>1. PICK f : f = <<task[c][1].fn>>
    OBVIOUS
  <2>2. Ready /\ task[c][1].app = shutdown /\ Justified(f) /\ entry # <<>>
    BY <1>1, <2>1 DEF CallInv, Ready
  <2>3. Justified(f)' /\ f = <<task'[c][1].fn>>
    BY <2>1, <2>2
  <2>4. Justified(<<task[c][1].fn>>)'
    BY <2>3 DEF Justified
  <2> QED BY <2>2, <2>4
<1>8. (answer[c] # <<>> =>
          /\ entry # <<>>
          /\ answer[c][1].is = NotFound(entry[1].type) => Own(event[c][1]) = <<>>)'
  <2> SUFFICES ASSUME answer[c] # <<>>
               PROVE  /\ entry' # <<>>
                      /\ answer[c][1].is = NotFound(entry'[1].type) => Own(event[c][1])' = <<>>
    BY DEF NotFound
  <2>1. entry' = entry /\ entry # <<>>
    BY <1>1 DEF CallInv
  <2>2. Own(event[c][1])' = Own(event[c][1])
    BY <2>1, LookupsKept
  <2> QED BY <1>1, <2>1, <2>2 DEF CallInv
<1> QED BY <1>2, <1>3, <1>4, <1>5, <1>6, <1>7, <1>8 DEF CallInv

\* What Serve does to the call and to the adapter's handler.
LEMMA Served ==
  ASSUME IInv, NEW c \in Call, NEW h, NEW found, Serve(c, h, found),
         UNCHANGED <<env, event, mine>>, entry' = <<h>>, h.app = shutdown',
         pc[c] # "idle", Undone(c), Len(apps') = Len(apps),
         OneAtMost(found), Ready',
         found # <<>> => Justified(found)',
         found = <<>> => Own(event[c][1])' = <<>>
  PROVE  /\ CallInv(c)' /\ CachedInv' /\ FunctionsInv'
         /\ \A d \in Call \ {c} : /\ pc'[d] = pc[d] /\ mine'[d] = mine[d]
                                 /\ task'[d] = task[d] /\ answer'[d] = answer[d]
<1>1. CallInv(c) /\ FunctionsInv
  BY DEF IInv
<1>2. cached' = found /\ entry' # <<>>
  BY DEF Serve
<1>3. CachedInv'
  BY <1>2 DEF CachedInv, Justified
<1>4. (mine[c] \in 0 .. Len(apps))' /\ (pc[c] # "idle" /\ event[c] # <<>>)
  BY <1>1 DEF CallInv
<1>5. CASE found = <<>>
  <2>1. /\ pc' = [pc EXCEPT ![c] = "answered"] /\ task' = task
        /\ answer' = [answer EXCEPT ![c] = <<[is |-> NotFound(h.type), ids |-> {}]>>]
    BY <1>5 DEF Serve
  <2>2. pc'[c] = "answered" /\ task'[c] = <<>> /\ FunctionsInv'
    BY <1>1, <2>1 DEF FunctionsInv, Undone
  <2>3. CallInv(c)'
    BY <1>2, <1>4, <1>5, <2>2 DEF CallInv
  <2> QED BY <1>1, <1>3, <2>1, <2>2, <2>3 DEF FunctionsInv
<1>6. CASE found # <<>>
  <2>1. PICK x : found = <<x>>
    BY <1>6 DEF OneAtMost
  <2>2. PICK w : w = [fn |-> x, app |-> h.app, input |-> Mapped(h.type, event[c][1])]
    OBVIOUS
  <2>3. /\ pc' = [pc EXCEPT ![c] = "running"] /\ answer' = answer
        /\ task' = [task EXCEPT ![c] = <<w>>]
    BY <1>6, <2>1, <2>2 DEF Serve
  <2>4. pc'[c] = "running" /\ task'[c] = <<w>> /\ answer'[c] = <<>> /\ FunctionsInv'
    BY <1>1, <2>3 DEF FunctionsInv, Undone
  <2>5. w.app = shutdown' /\ <<w.fn>> = found
    BY <2>1, <2>2
  <2>6. Justified(<<task[c][1].fn>>)'
    BY <1>6, <2>4, <2>5 DEF Justified
  <2>7. CallInv(c)'
    BY <1>4, <2>4, <2>5, <2>6 DEF CallInv
  <2> QED BY <1>1, <1>3, <2>3, <2>4, <2>7 DEF FunctionsInv
<1> QED BY <1>5, <1>6

LEMMA InvokeInv == ASSUME IInv, NEW c \in Call, Invoke(c) PROVE IInv'
<1>1. PICK e \in Event[c] : event' = [event EXCEPT ![c] = <<e>>]
  BY DEF Invoke
<1>2. /\ pc[c] = "idle" /\ UNCHANGED <<env, process, task, answer>>
      /\ pc' = [pc EXCEPT ![c] = IF app = 0 THEN "starting" ELSE "entering"]
      /\ mine' = [mine EXCEPT ![c] = app]
  BY DEF Invoke
<1>3. CallInv(c) /\ FunctionsInv /\ AppsInv
  BY DEF IInv
<1>4. FunctionsInv' /\ AppsInv' /\ EntryInv'
  BY <1>1, <1>2, <1>3 DEF FunctionsInv, AppsInv, EntryInv, IInv, process
<1>5. ASSUME NEW f, Justified(f) PROVE Justified(f)'
  <2>1. (ByName(env.handlerId))' = ByName(env.handlerId)
    BY <1>2, LookupsKept DEF process
  <2>2. ASSUME NEW d \in Call, event[d] # <<>>, f = Own(event[d][1])
        PROVE  event'[d] # <<>> /\ f = Own(event[d][1])'
    <3>1. d # c
      BY <1>2, <1>3, <2>2 DEF CallInv
    <3>2. event'[d] = event[d]
      BY <1>1, <1>3, <3>1 DEF FunctionsInv
    <3> QED BY <1>2, <2>2, <3>2, LookupsKept DEF process
  <2> QED BY <1>5, <2>1, <2>2 DEF Justified
<1>6. CachedInv'
  <2>1. PICK f : f = cached
    OBVIOUS
  <2> QED BY <1>2, <1>5, <2>1 DEF CachedInv, IInv, process, Justified
<1>7. CallInv(c)'
  <2>1. /\ event'[c] = <<e>> /\ mine'[c] = app /\ Undone(c)'
        /\ pc'[c] = IF app = 0 THEN "starting" ELSE "entering"
    BY <1>1, <1>2, <1>3 DEF FunctionsInv, CallInv, Undone
  <2> QED BY <1>2, <1>3, <2>1 DEF CallInv, AppsInv, process, Undone
<1>8. ASSUME NEW d \in Call \ {c} PROVE CallInv(d)'
  <2>1. /\ event'[d] = event[d] /\ pc'[d] = pc[d] /\ mine'[d] = mine[d]
        /\ task'[d] = task[d] /\ answer'[d] = answer[d]
    BY <1>1, <1>2, <1>3 DEF FunctionsInv
  <2>2. Len(apps) \in Nat /\ Len(apps') = Len(apps)
    BY <1>2, <1>3, LenProperties DEF AppsInv, process
  <2>3. Ready => Ready'
    BY <1>2 DEF Ready, process
  <2> QED BY <1>2, <1>5, <2>1, <2>2, <2>3, OthersKept DEF process
<1> QED BY <1>2, <1>4, <1>6, <1>7, <1>8 DEF IInv, process

LEMMA StartInv == ASSUME IInv, NEW c \in Call, Start(c) PROVE IInv'
<1>1. /\ pc[c] = "starting" /\ apps' = Append(apps, NewApplication)
      /\ app' = Len(apps') /\ mine' = [mine EXCEPT ![c] = app']
      /\ pc' = [pc EXCEPT ![c] = "entering"]
      /\ UNCHANGED <<env, entry, cached, shutdown, ended, event, task, answer>>
  BY DEF Start
<1>2. CallInv(c) /\ FunctionsInv /\ AppsInv /\ EntryInv /\ CachedInv
  BY DEF IInv
<1>3. /\ apps' \in Seq(Elements(apps')) /\ Len(apps') = Len(apps) + 1 /\ Len(apps) \in Nat
      /\ DOMAIN apps' = 1 .. Len(apps) + 1
      /\ \A i \in DOMAIN apps : i \in 1 .. Len(apps) /\ apps'[i] = apps[i]
      /\ apps'[Len(apps) + 1] = NewApplication
  BY <1>1, <1>2, Appended DEF AppsInv
<1>4. DOMAIN apps = 1 .. Len(apps)
  BY <1>2, LenProperties DEF AppsInv
<1>5. AppsInv'
  <2>1. \A i \in DOMAIN apps' : DOMAIN apps'[i] = Fields
    <3> SUFFICES ASSUME NEW i \in DOMAIN apps' PROVE DOMAIN apps'[i] = Fields
      OBVIOUS
    <3>1. CASE i \in DOMAIN apps
      BY <1>2, <1>3, <3>1 DEF AppsInv
    <3>2. CASE i \notin DOMAIN apps
      <4>1. i = Len(apps) + 1
        BY <1>3, <1>4, <3>2
      <4> QED BY <1>3, <4>1 DEF NewApplication, Fields
    <3> QED BY <3>1, <3>2
  <2>2. ended /\ shutdown # 0 => apps'[shutdown].disposed = Disposals
    BY <1>2, <1>3, <1>4 DEF AppsInv
  <2> QED BY <1>1, <1>2, <1>3, <2>1, <2>2 DEF AppsInv
<1>6. FunctionsInv' /\ EntryInv'
  BY <1>1, <1>2 DEF FunctionsInv, EntryInv
<1>7. ASSUME NEW f, Justified(f) PROVE Justified(f)'
  BY <1>1, <1>7, JustifiedKept
<1>8. CachedInv'
  <2>1. PICK f : f = cached
    OBVIOUS
  <2> QED BY <1>1, <1>2, <1>7, <2>1 DEF CachedInv, Justified
<1>9. CallInv(c)'
  <2>1. pc'[c] = "entering" /\ mine'[c] = Len(apps) + 1 /\ Undone(c)' /\ event'[c] = event[c]
    BY <1>1, <1>2, <1>3 DEF FunctionsInv, CallInv, Undone
  <2> QED BY <1>1, <1>2, <1>3, <2>1 DEF CallInv, Undone
<1>10. Ready => Ready'
  BY <1>1, <1>2, <1>3, <1>4 DEF Ready, EntryInv, AppsInv
<1>11. ASSUME NEW d \in Call \ {c} PROVE CallInv(d)'
  <2>1. pc'[d] = pc[d] /\ mine'[d] = mine[d]
    BY <1>1, <1>2 DEF FunctionsInv
  <2> QED BY <1>1, <1>3, <1>7, <1>10, <2>1, OthersKept
<1> QED BY <1>1, <1>5, <1>6, <1>8, <1>9, <1>11 DEF IInv

\* The first call to enter makes the entry's handler and the listener, for its own
\* application; with a handler of WebSocket messages goes a sender.
LEMMA EnterInv == ASSUME IInv, NEW c \in Call, Enter(c) PROVE IInv'
<1>1. CallInv(c) /\ FunctionsInv /\ AppsInv /\ EntryInv /\ CachedInv
  BY DEF IInv
<1>2. PICK h : h = IF entry = <<>> THEN [app |-> mine[c], type |-> Detected(event[c][1])]
                   ELSE entry[1]
  OBVIOUS
<1>3. PICK id : id = IdOf(h.type, event[c][1])
  OBVIOUS
<1>4. PICK named : named = IF cached # <<>> THEN cached ELSE ById(h.type, id)
  OBVIOUS
<1>5. PICK found : found = IF named # <<>> THEN named ELSE ByRoute(h.type, event[c][1])
  OBVIOUS
<1>6. /\ ~ended /\ pc[c] = "entering" /\ entry' = <<h>>
      /\ shutdown' = IF shutdown = 0 THEN mine[c] ELSE shutdown
      /\ UNCHANGED <<env, app, ended, event, mine>>
      /\ IF Unmappable(h.type, event[c][1])
         THEN /\ pc' = [pc EXCEPT ![c] = "rejected"]
              /\ UNCHANGED <<apps, cached, task, answer>>
         ELSE /\ apps' = IF h.type = "websocket" /\ apps[h.app].sender = <<>>
                         THEN [apps EXCEPT ![h.app].sender = <<event[c][1].endpoint>>] ELSE apps
              /\ IF named # <<>> \/ id = <<>>
                 THEN Serve(c, h, found)
                 ELSE /\ cached' = <<>>
                      /\ pc' = [pc EXCEPT ![c] = "resolving"]
                      /\ UNCHANGED <<task, answer>>
  BY <1>2, <1>3, <1>4, <1>5 DEF Enter
<1>7. Undone(c) /\ mine[c] \in 1 .. Len(apps) /\ event[c] # <<>> /\ Len(apps) \in Nat
  BY <1>1, <1>6, LenProperties DEF CallInv, AppsInv
<1>8. h.type \in Types
  BY <1>1, <1>2 DEF EntryInv, Detected, Types
<1>9. /\ h.app = shutdown' /\ h.app \in 1 .. Len(apps)
      /\ entry # <<>> => entry' = entry /\ shutdown' = shutdown
      /\ entry = <<>> => shutdown = 0
  BY <1>1, <1>2, <1>6, <1>7 DEF EntryInv, AppsInv
<1>10. EntryInv'
  BY <1>6, <1>7, <1>8, <1>9 DEF EntryInv
<1>11. /\ apps' \in Seq(Elements(apps')) /\ Len(apps') = Len(apps) /\ DOMAIN apps' = DOMAIN apps
       /\ \A i \in DOMAIN apps : DOMAIN apps'[i] = Fields
       /\ \A i \in DOMAIN apps : apps[i].sender # <<>> => apps'[i].sender # <<>>
       /\ ~Unmappable(h.type, event[c][1]) /\ h.type = "websocket" =>
              apps'[h.app].sender # <<>>
  <2>1. CASE apps' = apps /\ ~(h.type = "websocket" /\ apps[h.app].sender = <<>>)
    BY <1>1, <2>1 DEF AppsInv
  <2>2. CASE Unmappable(h.type, event[c][1])
    BY <1>1, <1>6, <2>2 DEF AppsInv
  <2>3. CASE apps' = [apps EXCEPT ![h.app].sender = <<event[c][1].endpoint>>]
    <3>1. PICK x : x = [apps[h.app] EXCEPT !.sender = <<event[c][1].endpoint>>]
      OBVIOUS
    <3>2. apps' = [apps EXCEPT ![h.app] = x]
      BY <2>3, <3>1
    <3>3. /\ apps' \in Seq(Elements(apps')) /\ Len(apps') = Len(apps)
          /\ DOMAIN apps' = DOMAIN apps /\ DOMAIN apps = 1 .. Len(apps)
          /\ \A j \in DOMAIN apps : apps'[j] = IF j = h.app THEN x ELSE apps[j]
      BY <1>1, <1>9, <3>2, Updated DEF AppsInv
    <3>4. DOMAIN x = Fields /\ x.sender # <<>>
      BY <1>1, <1>9, <3>1, <3>3 DEF AppsInv, Fields
    <3> QED BY <1>1, <1>9, <3>3, <3>4 DEF AppsInv
  <2> QED BY <1>6, <2>1, <2>2, <2>3
<1>12. AppsInv'
  BY <1>1, <1>6, <1>7, <1>9, <1>11 DEF AppsInv
<1>13. Ready => Ready'
  <2> SUFFICES ASSUME Ready PROVE Ready'
    OBVIOUS
  <2>1. shutdown \in DOMAIN apps /\ entry' = entry /\ shutdown' = shutdown
    BY <1>1, <1>9, LenProperties DEF Ready, AppsInv
  <2> QED BY <1>11, <2>1 DEF Ready
<1>14. ASSUME NEW f, entry # <<>>, Justified(f) PROVE Justified(f)'
  BY <1>6, <1>9, <1>14, JustifiedKept
<1>15. ~Unmappable(h.type, event[c][1]) => Ready'
  BY <1>6, <1>9, <1>11 DEF Ready
<1>16. ASSUME NEW f, f = cached, f # <<>> PROVE Justified(f)' /\ OneAtMost(f)
  <2>1. entry # <<>> /\ Justified(f)
    BY <1>1, <1>16 DEF CachedInv
  <2>2. OneAtMost(f)
    BY <2>1, LookupsFindOne DEF Justified
  <2> QED BY <1>14, <2>1, <2>2
<1>17. ASSUME NEW d \in Call \ {c}, pc'[d] = pc[d], mine'[d] = mine[d],
              task'[d] = task[d], answer'[d] = answer[d]
       PROVE  CallInv(d)'
  BY <1>6, <1>7, <1>9, <1>11, <1>13, <1>14, <1>17, OthersKept
<1>18. CASE Unmappable(h.type, event[c][1])
  <2>1. pc' = [pc EXCEPT ![c] = "rejected"] /\ UNCHANGED <<apps, cached, task, answer>>
    BY <1>6, <1>18
  <2>2. FunctionsInv' /\ pc'[c] = "rejected" /\ Undone(c)'
    BY <1>1, <1>6, <1>7, <2>1 DEF FunctionsInv, Undone
  <2>3. CallInv(c)'
    BY <1>1, <1>6, <1>7, <2>1, <2>2 DEF CallInv, Undone
  <2>4. CachedInv'
    <3>1. PICK f : f = cached
      OBVIOUS
    <3>2. cached # <<>> => Justified(f)' /\ entry # <<>>
      BY <1>1, <1>16, <3>1 DEF CachedInv
    <3> QED BY <1>6, <1>9, <2>1, <3>1, <3>2 DEF CachedInv, Justified
  <2>5. ASSUME NEW d \in Call \ {c} PROVE CallInv(d)'
    BY <1>1, <1>6, <1>17, <2>1 DEF FunctionsInv
  <2> QED BY <1>6, <1>10, <1>12, <2>2, <2>3, <2>4, <2>5 DEF IInv
<1>19. CASE ~Unmappable(h.type, event[c][1]) /\ (named # <<>> \/ id = <<>>)
  <2>1. Serve(c, h, found) /\ Ready'
    BY <1>6, <1>15, <1>19
  <2>2. /\ OneAtMost(found) /\ (found # <<>> => Justified(found)')
        /\ found = <<>> => (Own(event[c][1]))' = <<>>
    <3>1. CASE cached # <<>>
      <4>1. found = cached /\ found # <<>>
        BY <1>4, <1>5, <3>1
      <4> QED BY <1>16, <4>1
    <3>2. CASE cached = <<>>
      <4>1. \/ ById(h.type, id) # <<>> /\ found = ById(h.type, id)
            \/ ById(h.type, id) = <<>> /\ id = <<>> /\ found = ByRoute(h.type, event[c][1])
        BY <1>4, <1>5, <1>19, <3>2
      <4> QED BY <1>3, <1>6, <1>7, <4>1, FoundIsJustified
    <3> QED BY <3>1, <3>2
  <2>3. /\ CallInv(c)' /\ CachedInv' /\ FunctionsInv'
        /\ \A d \in Call \ {c} : /\ pc'[d] = pc[d] /\ mine'[d] = mine[d]
                                /\ task'[d] = task[d] /\ answer'[d] = answer[d]
    BY <1>6, <1>7, <1>9, <1>11, <2>1, <2>2, Served
  <2> QED BY <1>6, <1>10, <1>12, <1>17, <2>3 DEF IInv
<1>20. CASE ~Unmappable(h.type, event[c][1]) /\ named = <<>> /\ id # <<>>
  <2>1. /\ cached' = <<>> /\ pc' = [pc EXCEPT ![c] = "resolving"] /\ UNCHANGED <<task, answer>>
        /\ Ready' /\ ById(h.type, id) = <<>>
    BY <1>4, <1>6, <1>15, <1>20
  <2>2. FunctionsInv' /\ pc'[c] = "resolving" /\ Undone(c)'
    BY <1>1, <1>6, <1>7, <2>1 DEF FunctionsInv, Undone
  <2>3. Unregistered(c)'
    <3>1. entry'[1].type = h.type
      BY <1>6
    <3>2. (IdOf(entry[1].type, event[c][1]))' = id
      BY <1>3, <1>6, <3>1 DEF IdOf
    <3>3. (ById(entry[1].type, IdOf(entry[1].type, event[c][1])))' = <<>>
      BY <2>1, <3>1, <3>2 DEF ById
    <3> QED BY <1>20, <3>2, <3>3 DEF Unregistered
  <2>4. CallInv(c)' /\ CachedInv'
    BY <1>1, <1>6, <1>7, <1>11, <2>1, <2>2, <2>3 DEF CallInv, CachedInv, Undone
  <2>5. ASSUME NEW d \in Call \ {c} PROVE CallInv(d)'
    BY <1>1, <1>6, <1>17, <2>1 DEF FunctionsInv
  <2> QED BY <1>6, <1>10, <1>12, <2>2, <2>4, <2>5 DEF IInv
<1> QED BY <1>18, <1>19, <1>20

\* After the import what other calls have found does not count.
LEMMA ResolveInv == ASSUME IInv, NEW c \in Call, Resolve(c) PROVE IInv'
<1>1. CallInv(c) /\ FunctionsInv /\ AppsInv /\ EntryInv
  BY DEF IInv
<1>2. PICK h : h = entry[1]
  OBVIOUS
<1>3. PICK id : id = IdOf(h.type, event[c][1])
  OBVIOUS
<1>4. PICK found : found = IF ByRef(h.type, id) # <<>> THEN ByRef(h.type, id)
                           ELSE ByRoute(h.type, event[c][1])
  OBVIOUS
<1>5. /\ ~ended /\ pc[c] = "resolving" /\ Serve(c, h, found)
      /\ UNCHANGED <<env, app, apps, entry, shutdown, ended, event, mine>>
  BY <1>2, <1>3, <1>4 DEF Resolve
<1>6. Ready /\ Unregistered(c) /\ Undone(c) /\ event[c] # <<>>
  BY <1>1, <1>5 DEF CallInv
<1>7. entry' = <<h>> /\ h.app = shutdown' /\ Ready'
  BY <1>1, <1>2, <1>5, <1>6 DEF Ready, EntryInv
<1>8. ById(h.type, id) = <<>> /\ id # <<>>
  BY <1>2, <1>3, <1>6 DEF Unregistered
<1>9. Justified(found)' /\ OneAtMost(found) /\ (Own(event[c][1]))' = found
  BY <1>3, <1>4, <1>5, <1>6, <1>7, <1>8, FoundIsJustified
<1>10. /\ CallInv(c)' /\ CachedInv' /\ FunctionsInv'
       /\ \A d \in Call \ {c} : /\ pc'[d] = pc[d] /\ mine'[d] = mine[d]
                               /\ task'[d] = task[d] /\ answer'[d] = answer[d]
  BY <1>5, <1>6, <1>7, <1>9, Served
<1>11. Len(apps) \in Nat /\ Len(apps') = Len(apps)
  BY <1>1, <1>5, LenProperties DEF AppsInv
<1>12. \A f : Justified(f) => Justified(f)'
  BY <1>5, JustifiedKept
<1>13. ASSUME NEW d \in Call \ {c} PROVE CallInv(d)'
  BY <1>5, <1>7, <1>10, <1>11, <1>12, OthersKept
<1>14. AppsInv' /\ EntryInv'
  BY <1>1, <1>5 DEF AppsInv, EntryInv
<1> QED BY <1>5, <1>10, <1>13, <1>14 DEF IInv

\* A step that moves one call and leaves the process alone.
LEMMA OneCall ==
  ASSUME IInv, NEW c \in Call, UNCHANGED <<env, process, event, mine, task>>,
         FunctionsInv', CallInv(c)',
         \A d \in Call \ {c} : pc'[d] = pc[d] /\ answer'[d] = answer[d]
  PROVE  IInv'
<1>1. Len(apps) \in Nat /\ Len(apps') = Len(apps)
  BY LenProperties DEF IInv, AppsInv, process
<1>2. \A f : Justified(f) => Justified(f)'
  BY JustifiedKept DEF process
<1>3. Ready => Ready'
  BY DEF Ready, process
<1>4. ASSUME NEW d \in Call \ {c} PROVE CallInv(d)'
  BY <1>1, <1>2, <1>3, OthersKept DEF process
<1>5. CachedInv'
  <2>1. PICK f : f = cached
    OBVIOUS
  <2> QED BY <1>2, <2>1 DEF CachedInv, IInv, process, Justified
<1>6. AppsInv' /\ EntryInv' /\ ended' \in BOOLEAN
  BY DEF IInv, AppsInv, EntryInv, process
<1> QED BY <1>4, <1>5, <1>6 DEF IInv

LEMMA StartFailsInv == ASSUME IInv, NEW c \in Call, StartFails(c) PROVE IInv'
<1>1. /\ pc[c] = "starting" /\ pc' = [pc EXCEPT ![c] = "rejected"]
      /\ UNCHANGED <<env, process, event, mine, task, answer>>
  BY DEF StartFails
<1>2. CallInv(c) /\ FunctionsInv
  BY DEF IInv
<1>3. FunctionsInv' /\ pc'[c] = "rejected" /\ Undone(c)'
  BY <1>1, <1>2 DEF FunctionsInv, CallInv, Undone
<1>4. CallInv(c)'
  BY <1>1, <1>2, <1>3 DEF CallInv, process, Undone
<1> QED BY <1>1, <1>2, <1>3, <1>4, OneCall DEF FunctionsInv

\* A handler's answer is never the answer that there is none.
LEMMA AnswersDiffer ==
  ASSUME NEW t \in Types, NEW e, NEW a \in Answers(t, e)
  PROVE  a.is # NotFound(t)
<1>1. CASE t = "http"
  <2>1. NotFound(t) = "404"
    BY <1>1 DEF NotFound
  <2>2. a \in {[is |-> b, ids |-> {}] : b \in {"text", "base64"}}
    BY <1>1 DEF Answers
  <2>3. a.is \in {"text", "base64"}
    BY <2>2
  <2> QED BY <2>1, <2>3
<1>2. CASE t = "consumer"
  <2>1. NotFound(t) = "no failures"
    BY <1>2 DEF NotFound
  <2>2. PICK s \in SUBSET Ids(e) : a = [is |-> "failures", ids |-> s]
    BY <1>2 DEF Answers
  <2> QED BY <2>1, <2>2
<1>3. CASE t \in {"websocket", "schedule", "custom"}
  <2>1. NotFound(t) \in {"404", "no schedule", "no custom"}
    BY <1>3 DEF NotFound
  <2>2. a \in {[is |-> "result", ids |-> {}]}
    BY <1>3 DEF Answers
  <2>3. a.is = "result"
    BY <2>2
  <2> QED BY <2>1, <2>3
<1> QED BY <1>1, <1>2, <1>3 DEF Types

LEMMA FinishInv == ASSUME IInv, NEW c \in Call, Finish(c) PROVE IInv'
<1>1. pc[c] = "running" /\ UNCHANGED <<env, process, event, mine, task>>
  BY DEF Finish
<1>2. CallInv(c) /\ FunctionsInv /\ EntryInv
  BY DEF IInv
<1>3. Ready /\ answer[c] = <<>> /\ entry[1].type \in Types
  BY <1>1, <1>2 DEF CallInv, EntryInv, Ready
<1>4. Ready' /\ entry' = entry /\ (Justified(<<task[c][1].fn>>) => Justified(<<task[c][1].fn>>)')
  <2>1. PICK f : f = <<task[c][1].fn>>
    OBVIOUS
  <2>2. Justified(f) => Justified(f)'
    BY <1>1, JustifiedKept DEF process
  <2>3. f = (<<task[c][1].fn>>)'
    BY <1>1, <2>1
  <2>4. Justified(f)' <=> Justified(<<task[c][1].fn>>)'
    BY <2>3 DEF Justified
  <2> QED BY <1>1, <1>3, <2>1, <2>2, <2>4 DEF Ready, process
<1>5. CASE \E a \in Answers(entry[1].type, event[c][1]) :
              pc' = [pc EXCEPT ![c] = "answered"] /\ answer' = [answer EXCEPT ![c] = <<a>>]
  <2>1. PICK a \in Answers(entry[1].type, event[c][1]) :
              pc' = [pc EXCEPT ![c] = "answered"] /\ answer' = [answer EXCEPT ![c] = <<a>>]
    BY <1>5
  <2>2. FunctionsInv' /\ pc'[c] = "answered" /\ answer'[c] = <<a>>
    BY <1>1, <1>2, <2>1 DEF FunctionsInv
  <2>3. (answer[c] # <<>> =>
            /\ entry # <<>>
            /\ answer[c][1].is = NotFound(entry[1].type) => Own(event[c][1]) = <<>>)'
    <3>1. a.is # NotFound(entry[1].type)
      BY <1>3, AnswersDiffer
    <3>2. NotFound(entry[1].type)' = NotFound(entry[1].type)
      BY <1>4 DEF NotFound
    <3> QED BY <1>3, <1>4, <2>2, <3>1, <3>2 DEF Ready
  <2>4. CallInv(c)'
    BY <1>1, <1>2, <1>3, <1>4, <2>2, <2>3 DEF CallInv, process
  <2> QED BY <1>1, <1>2, <2>1, <2>2, <2>4, OneCall DEF FunctionsInv
<1>6. CASE pc' = [pc EXCEPT ![c] = "rejected"] /\ answer' = answer
  <2>1. FunctionsInv' /\ pc'[c] = "rejected" /\ answer'[c] = <<>>
    BY <1>1, <1>2, <1>3, <1>6 DEF FunctionsInv
  <2>2. CallInv(c)'
    BY <1>1, <1>2, <1>3, <1>4, <2>1 DEF CallInv, process
  <2> QED BY <1>1, <1>2, <1>6, <2>1, <2>2, OneCall DEF FunctionsInv
<1> QED BY <1>5, <1>6 DEF Finish

-----------------------------------------------------------------------------
(* SIGTERM. *)

\* A step of the listener moves no call.
LEMMA ListenerStep ==
  ASSUME IInv, UNCHANGED <<env, app, entry, cached, shutdown, calls>>,
         AppsInv', ended' \in BOOLEAN, Len(apps') = Len(apps), Ready => Ready'
  PROVE  IInv'
<1>1. Len(apps) \in Nat
  BY LenProperties DEF IInv, AppsInv
<1>2. \A f : Justified(f) => Justified(f)'
  BY JustifiedKept DEF calls
<1>3. ASSUME NEW d \in Call PROVE CallInv(d)'
  BY <1>1, <1>2, OthersKept DEF calls
<1>4. CachedInv'
  <2>1. PICK f : f = cached
    OBVIOUS
  <2> QED BY <1>2, <2>1 DEF CachedInv, IInv, Justified
<1>5. EntryInv' /\ FunctionsInv'
  BY DEF IInv, EntryInv, FunctionsInv, calls
<1> QED BY <1>3, <1>4, <1>5 DEF IInv

\* One application changes, and keeps its sender.
LEMMA OneApplication ==
  ASSUME IInv, NEW x, ~ended, shutdown # 0, UNCHANGED <<env, app, entry, cached, shutdown, ended, calls>>,
         apps' = [apps EXCEPT ![shutdown] = x],
         DOMAIN x = Fields, x.sender = apps[shutdown].sender
  PROVE  IInv'
<1>1. AppsInv /\ EntryInv /\ ended \in BOOLEAN
  BY DEF IInv
<1>2. shutdown \in 1 .. Len(apps) /\ Len(apps) \in Nat
  BY <1>1, LenProperties DEF AppsInv
<1>3. /\ apps' \in Seq(Elements(apps')) /\ Len(apps') = Len(apps)
      /\ DOMAIN apps' = DOMAIN apps /\ DOMAIN apps = 1 .. Len(apps)
      /\ \A j \in DOMAIN apps : apps'[j] = IF j = shutdown THEN x ELSE apps[j]
  BY <1>1, <1>2, Updated DEF AppsInv
<1>4. AppsInv'
  BY <1>1, <1>3 DEF AppsInv
<1>5. Ready => Ready'
  BY <1>2, <1>3 DEF Ready
<1> QED BY <1>1, <1>3, <1>4, <1>5, ListenerStep

LEMMA KillInv == ASSUME IInv, Kill PROVE IInv'
<1>1. AppsInv' /\ ended' \in BOOLEAN
  BY DEF Kill, IInv, AppsInv
<1>2. Ready => Ready'
  BY DEF Kill, Ready
<1> QED BY <1>1, <1>2, ListenerStep DEF Kill

LEMMA TerminateInv == ASSUME IInv, Terminate PROVE IInv'
<1>1. PICK x : x = [apps[shutdown] EXCEPT !.closing = "container"]
  OBVIOUS
<1>2. shutdown \in DOMAIN apps
  BY LenProperties DEF Terminate, IInv, AppsInv
<1>3. DOMAIN x = Fields /\ x.sender = apps[shutdown].sender
  BY <1>1, <1>2 DEF IInv, AppsInv, Fields
<1>4. apps' = [apps EXCEPT ![shutdown] = x]
  BY <1>1 DEF Terminate
<1> QED BY <1>3, <1>4, OneApplication DEF Terminate

LEMMA CloseContainerInv == ASSUME IInv, CloseContainer PROVE IInv'
<1>1. PICK x : x = [apps[shutdown] EXCEPT !.closing = "layers"]
  OBVIOUS
<1>2. shutdown \in DOMAIN apps
  BY LenProperties DEF CloseContainer, IInv, AppsInv
<1>3. DOMAIN x = Fields /\ x.sender = apps[shutdown].sender
  BY <1>1, <1>2 DEF IInv, AppsInv, Fields
<1>4. apps' = [apps EXCEPT ![shutdown] = x]
  BY <1>1 DEF CloseContainer
<1> QED BY <1>3, <1>4, OneApplication DEF CloseContainer

LEMMA DisposeInv == ASSUME IInv, Dispose PROVE IInv'
<1>1. PICK done : done = apps[shutdown].disposed
  OBVIOUS
<1>2. PICK x : x = [apps[shutdown] EXCEPT !.disposed = Append(@, Disposals[Len(done) + 1])]
  OBVIOUS
<1>3. shutdown \in DOMAIN apps
  BY LenProperties DEF Dispose, IInv, AppsInv
<1>4. DOMAIN x = Fields /\ x.sender = apps[shutdown].sender
  BY <1>2, <1>3 DEF IInv, AppsInv, Fields
<1>5. apps' = [apps EXCEPT ![shutdown] = x]
  BY <1>1, <1>2 DEF Dispose
<1> QED BY <1>4, <1>5, OneApplication DEF Dispose

LEMMA ExitInv == ASSUME IInv, Exit PROVE IInv'
<1>1. AppsInv' /\ ended' \in BOOLEAN
  BY DEF Exit, IInv, AppsInv
<1>2. Ready => Ready'
  BY DEF Exit, Ready
<1> QED BY <1>1, <1>2, ListenerStep DEF Exit

-----------------------------------------------------------------------------
(* The specification. *)

LEMMA InitIInv == ASSUME Init PROVE IInv
<1>1. AppsInv
  <2>1. apps = <<>> /\ Len(apps) = 0 /\ DOMAIN apps = {}
    BY LenProperties, EmptySeq DEF Init
  <2>2. apps \in Seq(Elements(apps))
    BY <2>1, EmptySeq
  <2> QED BY <2>1, <2>2 DEF Init, AppsInv
<1>2. EntryInv /\ CachedInv /\ FunctionsInv /\ ended \in BOOLEAN
  BY DEF Init, EntryInv, CachedInv, FunctionsInv
<1>3. ASSUME NEW c \in Call PROVE CallInv(c)
  <2>1. /\ pc[c] = "idle" /\ event[c] = <<>> /\ mine[c] = 0
        /\ task[c] = <<>> /\ answer[c] = <<>>
    BY DEF Init
  <2>2. Len(apps) = 0
    BY EmptySeq DEF Init
  <2> QED BY <2>1, <2>2 DEF CallInv, Undone
<1> QED BY <1>1, <1>2, <1>3 DEF IInv

\* Every step of an invocation and of the SIGTERM listener preserves the invariant
\* (entry.ts and adapter.ts).
THEOREM IInvStep == ASSUME IInv, [Next]_vars PROVE IInv'
<1>1. ASSUME NEW c \in Call,
             Invoke(c) \/ Start(c) \/ StartFails(c) \/ Enter(c) \/ Resolve(c) \/ Finish(c)
      PROVE  IInv'
  BY <1>1, InvokeInv, StartInv, StartFailsInv, EnterInv, ResolveInv, FinishInv
<1>2. CASE Kill \/ Terminate \/ CloseContainer \/ Dispose \/ Exit
  BY <1>2, KillInv, TerminateInv, CloseContainerInv, DisposeInv, ExitInv
<1>3. CASE UNCHANGED vars
  <2>1. UNCHANGED <<env, app, apps, entry, cached, shutdown, ended, calls>>
    BY <1>3 DEF vars, process
  <2>2. AppsInv' /\ ended' \in BOOLEAN
    BY <2>1 DEF IInv, AppsInv
  <2>3. Ready => Ready'
    BY <2>1 DEF Ready
  <2> QED BY <2>1, <2>2, <2>3, ListenerStep
<1> QED BY <1>1, <1>2, <1>3 DEF Next

\* The inductive invariant holds of every execution of the entry (entry.ts:15, :26,
\* adapter.ts:64).
THEOREM Invariance == Spec => []IInv
<1>1. Init => IInv
  BY InitIInv
<1>2. IInv /\ [Next]_vars => IInv'
  BY IInvStep
<1> QED BY <1>1, <1>2, PTL DEF Spec

\* However many applications the overlapping first calls bootstrap (entry.ts:15),
\* the one whose handler serves events is the one the SIGTERM listener closes
\* (entry.ts:26), and a handler of WebSocket messages has a sender.
THEOREM ServedByClosed == Spec => []ServedIsClosed
<1>1. IInv => ServedIsClosed
  <2> SUFFICES ASSUME IInv, NEW c \in Call, task[c] # <<>>
               PROVE  /\ task[c][1].app = shutdown
                      /\ ended => apps[shutdown].disposed = Disposals
                      /\ entry[1].type = "websocket" => CanSend(c)
    BY DEF ServedIsClosed
  <2>1. Ready /\ task[c][1].app = shutdown
    BY DEF IInv, CallInv
  <2>2. shutdown # 0
    BY <2>1 DEF IInv, EntryInv, Ready
  <2> QED BY <2>1, <2>2 DEF IInv, AppsInv, CanSend, Ready
<1> QED BY <1>1, Invariance, PTL

\* A call is run by the handler its configured id names, or by one that the lookup
\* of some call finds, whatever overlapping lookups leave in the adapter's cache
\* (adapter.ts:64), and is told of no handler only when its own lookup finds none.
THEOREM OwnHandled == Spec => []HandledByOwn
<1>1. IInv => HandledByOwn
  <2> SUFFICES ASSUME IInv, NEW c \in Call
               PROVE  /\ task[c] # <<>> => Justified(<<task[c][1].fn>>)
                      /\ answer[c] # <<>> /\ answer[c][1].is = NotFound(entry[1].type) =>
                            Own(event[c][1]) = <<>>
    BY DEF HandledByOwn, Justified
  <2> QED BY DEF IInv, CallInv
<1> QED BY <1>1, Invariance, PTL
=============================================================================
