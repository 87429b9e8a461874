-------------------------- MODULE CacheLayerProofs --------------------------
(***************************************************************************)
(* Proofs about the layers that register handles for linked resources: the *)
(* cache layer (CacheLayer), for any number of requests and of caches, and *)
(* the layers of queues, topics, datastores, buckets and SQL databases     *)
(* (ResourceLayers), for any requests, layers and links.                   *)
(***************************************************************************)
EXTENDS CacheLayer, Integers, Sequences, TLAPS

Behind == {"connected", "handling", "storingHandle", "served"}
Aliasing == {"aliasing", "storingCache", "cache", "storingCredentials", "credentials"}

(* How far each request has come in the initialisation.                    *)
ProgressOK ==
  /\ initialized => AllRegistered
  /\ \A q \in Requests :
       /\ pc[q] = "connecting" =>
            /\ link[q] \in Resource
            /\ \A r \in Resource : r < link[q] => Registered(r)
       /\ pc[q] \in Aliasing => Links = 1 /\ Registered(1)
       /\ pc[q] \in Behind => AllRegistered

(* A resolve that waits holds its token alone, and the token has no        *)
(* instance yet.                                                           *)
LockOK ==
  /\ LockHeld
  /\ \A q \in Requests :
       pc[q] \in Storing => token[q] \in resolving /\ instance[token[q]] = 0 /\ value[q] # 0

(* What each request has resolved, and the alias, is the token's instance. *)
AgreeOK ==
  /\ \A q \in Requests :
       /\ pc[q] = "storingCache" => token[q] = Cache(1)
       /\ pc[q] = "storingCredentials" => token[q] = Credentials(1)
       /\ pc[q] = "cache" => value[q] # 0 /\ value[q] = instance[Cache(1)]
       /\ pc[q] \in {"storingCredentials", "credentials"} =>
            kept[q] # 0 /\ kept[q] = instance[Cache(1)]
       /\ pc[q] = "credentials" => value[q] # 0
       /\ pc[q] \in {"storingHandle", "served"} => \E r \in 0 .. Links : token[q] = Cache(r)
       /\ pc[q] = "storingHandle" /\ token[q] = Cache(Default) =>
            Links = 1 /\ value[q] = instance[Cache(1)]
       /\ pc[q] = "served" => value[q] # 0 /\ value[q] = instance[token[q]]
  /\ provider[Cache(Default)] # 0 => Links = 1 /\ provider[Cache(Default)] = instance[Cache(1)]
  /\ instance[Cache(Default)] # 0 => Links = 1 /\ instance[Cache(Default)] = instance[Cache(1)]

IInv == TypeOK /\ ProgressOK /\ LockOK /\ AgreeOK

LEMMA Tokens ==
  /\ \A r \in 0 .. Links : Cache(r) \in Token /\ Credentials(r) \in Token
  /\ \A r, s \in 0 .. Links : Cache(r) # Credentials(s)
  /\ \A r, s \in 0 .. Links : Cache(r) = Cache(s) => r = s
  /\ \A r, s \in 0 .. Links : Credentials(r) = Credentials(s) => r = s
  /\ Default \in 0 .. Links /\ Default \notin Resource
  /\ Resource \subseteq 0 .. Links
  BY LinksAssumption DEF Cache, Credentials, Token, Default, Resource

(* Every step leaves the parts it does not touch as they are; the three     *)
(* closeAll steps touch nothing the invariant but for TypeOK speaks of.    *)
Untouched == <<initialized, container, pc, link, token, value, kept>>

LEMMA UntouchedKeeps ==
  ASSUME IInv, TypeOK', UNCHANGED Untouched
  PROVE IInv'
  BY DEF IInv, Untouched, container, ProgressOK, LockOK, AgreeOK, LockHeld,
         AllRegistered, Registered

THEOREM InitIInv == Init => IInv
  <1> SUFFICES ASSUME Init PROVE IInv
    OBVIOUS
  <1>1. TypeOK
    <2>1. Cache(Default) \in Token
      BY Tokens
    <2>2. 1 \in 1 .. Links + 1
      BY LinksAssumption
    <2> QED
      BY <2>1, <2>2 DEF Init, TypeOK, Where
  <1>2. ProgressOK
    BY DEF Init, ProgressOK, Aliasing, Behind
  <1>3. LockOK
    BY DEF Init, LockOK, LockHeld, Storing
  <1>4. AgreeOK
    BY Tokens DEF Init, AgreeOK
  <1> QED
    BY <1>1, <1>2, <1>3, <1>4 DEF IInv

(* One request's step.                                                     *)
LEMMA SkipIInv ==
  ASSUME IInv, NEW q \in Requests, Skip(q) PROVE IInv'
  <1> USE DEF IInv, Skip, Goto, container, resolve, shutdown
  <1>1. TypeOK'
    BY DEF TypeOK, Where
  <1>2. ProgressOK'
    <2>1. AllRegistered
      BY LinksAssumption DEF ProgressOK, AllRegistered, Resource
    <2> QED
      BY <2>1 DEF TypeOK, ProgressOK, Aliasing, Behind, AllRegistered, Registered
  <1>3. LockOK'
    BY DEF TypeOK, LockOK, LockHeld, Storing
  <1>4. AgreeOK'
    BY DEF TypeOK, AgreeOK
  <1> QED
    BY <1>1, <1>2, <1>3, <1>4

LEMMA EnterIInv ==
  ASSUME IInv, NEW q \in Requests, Enter(q) PROVE IInv'
  <1> USE DEF IInv, Enter, Goto, container, resolve, shutdown
  <1>1. TypeOK'
    BY LinksAssumption DEF TypeOK, Where
  <1>2. ProgressOK'
    BY LinksAssumption DEF TypeOK, ProgressOK, Aliasing, Behind, AllRegistered, Registered, Resource
  <1>3. LockOK'
    BY DEF TypeOK, LockOK, LockHeld, Storing
  <1>4. AgreeOK'
    BY DEF TypeOK, AgreeOK
  <1> QED
    BY <1>1, <1>2, <1>3, <1>4

LEMMA ConnectFailsIInv ==
  ASSUME IInv, NEW q \in Requests, ConnectFails(q) PROVE IInv'
  <1> USE DEF IInv, ConnectFails, Goto, container, resolve, shutdown
  <1>1. TypeOK'
    BY DEF TypeOK, Where
  <1>2. ProgressOK'
    BY DEF TypeOK, ProgressOK, Aliasing, Behind, AllRegistered, Registered
  <1>3. LockOK'
    BY DEF TypeOK, LockOK, LockHeld, Storing
  <1>4. AgreeOK'
    BY DEF TypeOK, AgreeOK
  <1> QED
    BY <1>1, <1>2, <1>3, <1>4

LEMMA FinishIInv ==
  ASSUME IInv, NEW q \in Requests, Finish(q) PROVE IInv'
  <1> USE DEF IInv, Finish, Goto, container, resolve, shutdown
  <1>1. TypeOK'
    BY DEF TypeOK, Where
  <1>2. ProgressOK'
    BY DEF TypeOK, ProgressOK, Aliasing, Behind, AllRegistered, Registered
  <1>3. LockOK'
    BY DEF TypeOK, LockOK, LockHeld, Storing
  <1>4. AgreeOK'
    BY DEF TypeOK, AgreeOK
  <1> QED
    BY <1>1, <1>2, <1>3, <1>4

(* The registration of one cache: a new client, and nothing unregistered.  *)
LEMMA ConnectIInv ==
  ASSUME IInv, NEW q \in Requests, Connect(q) PROVE IInv'
  <1> USE DEF IInv, Connect, Goto, resolve, shutdown
  <1> DEFINE r0 == link[q]
             c0 == clients + 1
  <1>1. r0 \in Resource /\ c0 \in Nat /\ c0 # 0 /\ r0 \in Nat /\ r0 # 0
    BY LinksAssumption DEF ProgressOK, TypeOK, Resource
  <1>2. Cache(r0) \in Token /\ Credentials(r0) \in Token /\ Cache(r0) # Credentials(r0)
    BY <1>1, Tokens
  <1>3. provider' \in [Token -> Nat]
    BY <1>1, <1>2 DEF TypeOK
  <1>4. \A t \in Token : provider'[t] = IF t \in {Cache(r0), Credentials(r0)} THEN c0 ELSE provider[t]
    BY <1>1, <1>2 DEF TypeOK
  <1>5. \A r \in 0 .. Links : Registered(r) => Registered(r)'
    BY <1>1, <1>4, Tokens DEF Registered
  <1>6. \A r \in Resource : r = r0 => Registered(r)'
    BY <1>1, <1>2, <1>4 DEF Registered
  <1>7. AllRegistered => AllRegistered'
    BY <1>5, Tokens DEF AllRegistered
  <1>8. TypeOK'
    <2>1. closer' \in [Resource -> Nat]
      BY <1>1 DEF Track, TypeOK
    <2>2. link' \in [Requests -> 1 .. Links + 1]
      BY <1>1, LinksAssumption DEF TypeOK, Resource
    <2>3. pc' \in [Requests -> Where]
      BY DEF TypeOK, Where
    <2> QED
      BY <1>1, <1>3, <2>1, <2>2, <2>3 DEF TypeOK
  <1>9. ProgressOK'
    <2>1. initialized' => AllRegistered'
      BY <1>7 DEF ProgressOK
    <2>2. ASSUME NEW p \in Requests
          PROVE  /\ pc'[p] = "connecting" =>
                      /\ link'[p] \in Resource
                      /\ \A r \in Resource : r < link'[p] => Registered(r)'
                 /\ pc'[p] \in Aliasing => Links = 1 /\ Registered(1)'
                 /\ pc'[p] \in Behind => AllRegistered'
      <3>1. CASE p # q
        <4>1. pc'[p] = pc[p] /\ link'[p] = link[p]
          BY <3>1 DEF TypeOK
        <4> QED
          BY <4>1, <1>5, <1>7, Tokens, LinksAssumption DEF ProgressOK, Resource
      <3>2. CASE p = q
        <4>1. link'[p] = r0 + 1
          BY <3>2 DEF TypeOK
        <4>2. \A r \in Resource : r < r0 + 1 => Registered(r)'
          <5> TAKE r \in Resource
          <5>1. r < r0 => Registered(r)'
            BY <1>5, Tokens DEF ProgressOK
          <5> QED
            BY <5>1, <1>1, <1>6 DEF Resource
        <4>3. CASE r0 < Links
          <5>1. pc'[p] = "connecting" /\ r0 + 1 \in Resource
            BY <3>2, <4>3, <1>1, LinksAssumption DEF TypeOK, Resource
          <5> QED
            BY <5>1, <4>1, <4>2 DEF Aliasing, Behind
        <4>4. CASE ~(r0 < Links)
          <5>1. r0 = Links
            BY <4>4, <1>1, LinksAssumption DEF Resource
          <5>2. \A r \in Resource : Registered(r)'
            BY <5>1, <4>2, LinksAssumption DEF Resource
          <5>3. CASE Links = 1
            <6>1. pc'[p] = "aliasing"
              BY <3>2, <4>4, <5>3 DEF TypeOK
            <6>2. 1 \in Resource
              BY <5>3 DEF Resource
            <6> QED
              BY <6>1, <6>2, <5>2, <5>3 DEF Aliasing, Behind
          <5>4. CASE Links # 1
            <6>1. pc'[p] = "connected"
              BY <3>2, <4>4, <5>4 DEF TypeOK
            <6> QED
              BY <6>1, <5>2, <5>4 DEF Aliasing, Behind, AllRegistered
          <5> QED
            BY <5>3, <5>4
        <4> QED
          BY <4>3, <4>4
      <3> QED
        BY <3>1, <3>2
    <2> QED
      BY <2>1, <2>2 DEF ProgressOK
  <1>10. LockOK'
    BY DEF TypeOK, LockOK, LockHeld, Storing
  <1>11. AgreeOK'
    <2>1. provider'[Cache(Default)] = provider[Cache(Default)]
      BY <1>1, <1>4, Tokens
    <2> QED
      BY <2>1 DEF AgreeOK, TypeOK
  <1> QED
    BY <1>8, <1>9, <1>10, <1>11

(* Registering the alias.                                                  *)
LEMMA RegisterDefaultIInv ==
  ASSUME IInv, NEW q \in Requests, RegisterDefault(q) PROVE IInv'
  <1> USE DEF IInv, RegisterDefault, Goto, resolve, shutdown
  <1>1. Links = 1 /\ Registered(1) /\ kept[q] # 0 /\ value[q] # 0 /\ kept[q] = instance[Cache(1)]
    BY DEF ProgressOK, AgreeOK, Aliasing
  <1>2. Cache(Default) \in Token /\ Credentials(Default) \in Token /\ Cache(Default) # Credentials(Default)
    BY Tokens
  <1>3. \A t \in Token : provider'[t] = IF t = Cache(Default) THEN kept[q]
                                         ELSE IF t = Credentials(Default) THEN value[q]
                                         ELSE provider[t]
    BY <1>2 DEF TypeOK
  <1>4. Registered(1)' /\ Registered(Default)'
    <2>1. 1 \in 0 .. Links /\ 1 # Default
      BY <1>1 DEF Default
    <2>2. Cache(1) \in Token /\ Credentials(1) \in Token
      BY <2>1, Tokens
    <2>3. provider'[Cache(1)] = provider[Cache(1)]
      BY <1>3, <2>1, <2>2, Tokens
    <2>4. provider'[Credentials(1)] = provider[Credentials(1)]
      BY <1>3, <2>1, <2>2, Tokens
    <2>5. provider'[Cache(Default)] # 0 /\ provider'[Credentials(Default)] # 0
      BY <1>1, <1>2, <1>3
    <2> QED
      BY <1>1, <2>3, <2>4, <2>5 DEF Registered
  <1>5. AllRegistered'
    BY <1>1, <1>4 DEF AllRegistered, Resource
  <1>6. TypeOK'
    <2>1. provider' \in [Token -> Nat]
      BY <1>2 DEF TypeOK
    <2>2. pc' \in [Requests -> Where]
      BY DEF TypeOK, Where
    <2> QED
      BY <2>1, <2>2 DEF TypeOK
  <1>7. ProgressOK'
    <2>1. \A r \in Resource : r = 1
      BY <1>1 DEF Resource
    <2> QED
      BY <1>1, <1>4, <1>5, <2>1 DEF TypeOK, ProgressOK, Aliasing, Behind
  <1>8. LockOK'
    BY DEF TypeOK, LockOK, LockHeld, Storing
  <1>9. AgreeOK'
    <2>1. provider'[Cache(Default)] = instance[Cache(1)]
      BY <1>1, <1>2, <1>3
    <2> QED
      BY <2>1, <1>1 DEF AgreeOK, TypeOK
  <1> QED
    BY <1>6, <1>7, <1>8, <1>9

(* A resolve that has waited: the token gets its instance, once.           *)
LEMMA StoreIInv ==
  ASSUME IInv, NEW q \in Requests, NEW wait, NEW then, Store(q, wait, then),
         <<wait, then>> \in {<<"storingCache", "cache">>,
                            <<"storingCredentials", "credentials">>,
                            <<"storingHandle", "served">>}
  PROVE IInv'
  <1> USE DEF IInv, Store, Goto, resolve, shutdown
  <1> DEFINE t0 == token[q]
  <1>1. /\ wait \in Storing /\ pc[q] = wait
        /\ t0 \in Token /\ t0 \in resolving /\ instance[t0] = 0 /\ value[q] # 0
    BY DEF Storing, LockOK, TypeOK
  <1>2. \A t \in Token : instance'[t] = IF t = t0 THEN value[q] ELSE instance[t]
    BY <1>1 DEF TypeOK
  <1>3. \A p \in Requests : pc'[p] = IF p = q THEN then ELSE pc[p]
    BY DEF TypeOK
  <1>4. TypeOK'
    <2>1. pc' \in [Requests -> Where]
      BY DEF TypeOK, Where
    <2> QED
      BY <2>1 DEF TypeOK
  <1>5. ProgressOK'
    BY <1>3 DEF ProgressOK, Aliasing, Behind, AllRegistered, Registered
  <1>6. LockOK'
    <2>1. then \notin Storing
      BY DEF Storing
    <2>2. \A p \in Requests : pc[p] \in Storing /\ p # q => token[p] # t0
      BY <1>1 DEF LockOK, LockHeld
    <2>3. \A p \in Requests : pc'[p] \in Storing => p # q /\ pc[p] \in Storing
      BY <1>3, <2>1
    <2>4. LockHeld'
      BY <1>3, <2>2, <2>3 DEF LockOK, LockHeld, TypeOK
    <2>5. \A p \in Requests : pc'[p] \in Storing =>
             token[p] \in resolving' /\ instance'[token[p]] = 0 /\ value[p] # 0
      BY <1>2, <2>2, <2>3 DEF LockOK, TypeOK
    <2> QED
      BY <2>4, <2>5 DEF LockOK
  <1>7. AgreeOK'
    <2>1. Cache(1) \in Token \/ Links = 0
      BY Tokens, LinksAssumption
    <2>2. Cache(Default) \in Token /\ Cache(Default) # Cache(1)
      <3>1. <<"cache", 0>> # <<"cache", 1>>
        OBVIOUS
      <3> QED
        BY <3>1, Tokens DEF Cache, Default
    <2>3. instance[Cache(1)] # 0 => instance'[Cache(1)] = instance[Cache(1)]
      BY <1>1, <1>2 DEF TypeOK
    <2>4. \A t \in Token : instance[t] # 0 => instance'[t] = instance[t]
      BY <1>1, <1>2
    <2>5. ASSUME NEW p \in Requests
          PROVE
             /\ pc'[p] = "storingCache" => token[p] = Cache(1)
             /\ pc'[p] = "storingCredentials" => token[p] = Credentials(1)
             /\ pc'[p] = "cache" => value[p] # 0 /\ value[p] = instance'[Cache(1)]
             /\ pc'[p] \in {"storingCredentials", "credentials"} =>
                  kept[p] # 0 /\ kept[p] = instance'[Cache(1)]
             /\ pc'[p] = "credentials" => value[p] # 0
             /\ pc'[p] \in {"storingHandle", "served"} => \E r \in 0 .. Links : token[p] = Cache(r)
             /\ pc'[p] = "storingHandle" /\ token[p] = Cache(Default) =>
                  Links = 1 /\ value[p] = instance'[Cache(1)]
             /\ pc'[p] = "served" => value[p] # 0 /\ value[p] = instance'[token[p]]
      <3>1. CASE p # q
        <4>1. pc'[p] = pc[p] /\ token[p] \in Token
          BY <3>1, <1>3 DEF TypeOK
        <4>2. pc[p] = "storingHandle" => value[p] # 0
          BY DEF LockOK, Storing
        <4>3. pc[p] = "served" => instance[token[p]] # 0
          BY DEF AgreeOK
        <4> QED
          BY <4>1, <4>2, <4>3, <2>3, <2>4 DEF AgreeOK
      <3>2. CASE p = q
        <4>1. pc'[p] = then /\ t0 \in Token /\ instance'[t0] = value[p]
          BY <3>2, <1>1, <1>2, <1>3
        <4> QED
          BY <4>1, <3>2, <1>1, <2>3 DEF AgreeOK
      <3> QED
        BY <3>1, <3>2
    <2>6. provider[Cache(Default)] # 0 => Links = 1 /\ provider[Cache(Default)] = instance'[Cache(1)]
      BY <2>3 DEF AgreeOK
    <2>7. instance'[Cache(Default)] # 0 => Links = 1 /\ instance'[Cache(Default)] = instance'[Cache(1)]
      <3>1. CASE t0 = Cache(Default)
        <4>1. wait = "storingHandle"
          <5>1. CASE wait = "storingCache"
            BY <5>1, <3>1, <1>1, <2>2 DEF AgreeOK
          <5>2. CASE wait = "storingCredentials"
            <6>1. Links = 1 /\ t0 = Credentials(1)
              BY <5>2, <1>1 DEF AgreeOK, ProgressOK, Aliasing
            <6>2. 1 \in 0 .. Links
              BY <6>1
            <6> QED
              BY <6>1, <6>2, <3>1, Tokens
          <5> QED
            BY <5>1, <5>2
        <4>2. value[q] = instance[Cache(1)]
          BY <4>1, <3>1, <1>1 DEF AgreeOK
        <4>3. instance'[Cache(Default)] = value[q] /\ instance'[Cache(1)] = instance[Cache(1)]
          BY <3>1, <4>2, <1>1, <1>2, <2>3
        <4>4. Links = 1
          BY <4>1, <1>1, <3>1 DEF AgreeOK
        <4> QED
          BY <4>2, <4>3, <4>4
      <3>2. CASE t0 # Cache(Default)
        BY <3>2, <1>2, <2>2, <2>3 DEF AgreeOK
      <3> QED
        BY <3>1, <3>2
    <2> QED
      BY <2>5, <2>6, <2>7 DEF AgreeOK
  <1> QED
    BY <1>4, <1>5, <1>6, <1>7

(* A lookup of a token: answered, refused, or the start of a wait.  What is *)
(* said of the new location is left to the caller.                         *)
LEMMA ResolveLocks ==
  ASSUME IInv, NEW q \in Requests, NEW t \in Token, NEW then \in Where \ Storing,
         NEW wait \in Storing, pc[q] \notin Storing, Resolve(q, t, then, wait),
         kept' \in [Requests -> Nat]
  PROVE  /\ TypeOK'
         /\ LockOK'
         /\ \A p \in Requests \ {q} :
               pc'[p] = pc[p] /\ token'[p] = token[p] /\ value'[p] = value[p]
         /\ token'[q] = t
         /\ \/ pc'[q] = then /\ instance[t] # 0 /\ value'[q] = instance[t]
            \/ pc'[q] = "failed"
            \/ pc'[q] = wait /\ provider[t] # 0 /\ value'[q] = provider[t]
  <1> USE DEF IInv, Resolve, Goto, shutdown
  <1>1. then \in Where /\ wait \in Where /\ "failed" \in Where /\ "failed" \notin Storing
    BY DEF Where, Storing
  <1>2. /\ pc \in [Requests -> Where] /\ token \in [Requests -> Token]
        /\ value \in [Requests -> Nat] /\ instance \in [Token -> Nat]
        /\ provider \in [Token -> Nat] /\ resolving \subseteq Token
    BY DEF TypeOK
  <1>3. token'[q] = t /\ \A p \in Requests \ {q} : token'[p] = token[p]
    BY <1>2
  <1>4. CASE ResolveCached(q, t, then)
    <2> USE <1>4 DEF ResolveCached
    <2>1. TypeOK'
      BY <1>1, <1>2 DEF TypeOK
    <2>2. \A p \in Requests \ {q} : pc'[p] = pc[p] /\ value'[p] = value[p]
      BY <1>2
    <2>3. pc'[q] = then /\ value'[q] = instance[t]
      BY <1>2
    <2>4. LockOK'
      BY <1>3, <2>2, <2>3, <1>2 DEF LockOK, LockHeld
    <2> QED
      BY <1>3, <2>1, <2>2, <2>3, <2>4
  <1>5. CASE ResolveRefused(q, t)
    <2> USE <1>5 DEF ResolveRefused
    <2>1. TypeOK'
      BY <1>1, <1>2 DEF TypeOK
    <2>2. \A p \in Requests \ {q} : pc'[p] = pc[p] /\ value'[p] = value[p]
      BY <1>2
    <2>3. pc'[q] = "failed"
      BY <1>2
    <2>4. LockOK'
      BY <1>1, <1>3, <2>2, <2>3, <1>2 DEF LockOK, LockHeld
    <2> QED
      BY <1>3, <2>1, <2>2, <2>3, <2>4
  <1>6. CASE ResolveFresh(q, t, wait)
    <2> USE <1>6 DEF ResolveFresh
    <2>1. TypeOK'
      BY <1>1, <1>2 DEF TypeOK
    <2>2. \A p \in Requests \ {q} : pc'[p] = pc[p] /\ value'[p] = value[p]
      BY <1>2
    <2>3. pc'[q] = wait /\ value'[q] = provider[t]
      BY <1>2
    <2>4. \A p \in Requests : pc[p] \in Storing => token[p] \in resolving /\ token[p] # t
      BY DEF LockOK
    <2>5. LockHeld'
      BY <1>3, <2>2, <2>3, <2>4 DEF LockOK, LockHeld
    <2>6. LockOK'
      BY <1>3, <2>2, <2>3, <2>4, <2>5 DEF LockOK
    <2> QED
      BY <1>3, <2>1, <2>2, <2>3, <2>6
  <1> QED
    BY <1>4, <1>5, <1>6

LEMMA AliasCacheIInv ==
  ASSUME IInv, NEW q \in Requests, AliasCache(q) PROVE IInv'
  <1> USE DEF IInv, AliasCache
  <1>1. Links = 1 /\ 1 \in Resource /\ Cache(1) \in Token /\ Cache(1) # Cache(Default)
    <2>1. Links = 1
      BY DEF ProgressOK, Aliasing
    <2> QED
      BY <2>1, Tokens DEF Resource, Default
  <1>2. pc[q] \notin Storing /\ "storingCache" \in Storing /\ "cache" \in Where \ Storing
    BY DEF Storing, Where
  <1>3. kept' = kept /\ kept' \in [Requests -> Nat]
    BY DEF TypeOK
  <1>4. UNCHANGED <<initialized, provider, instance, link>>
    BY DEF Resolve
  <1>5. /\ TypeOK' /\ LockOK'
        /\ \A p \in Requests \ {q} :
              pc'[p] = pc[p] /\ token'[p] = token[p] /\ value'[p] = value[p]
        /\ token'[q] = Cache(1)
        /\ \/ pc'[q] = "cache" /\ instance[Cache(1)] # 0 /\ value'[q] = instance[Cache(1)]
           \/ pc'[q] = "failed"
           \/ pc'[q] = "storingCache" /\ provider[Cache(1)] # 0 /\ value'[q] = provider[Cache(1)]
    BY <1>1, <1>2, <1>3, ResolveLocks
  <1>6. ProgressOK'
    BY <1>4, <1>5 DEF ProgressOK, Aliasing, Behind, AllRegistered, Registered
  <1>7. AgreeOK'
    BY <1>1, <1>3, <1>4, <1>5 DEF AgreeOK
  <1> QED
    BY <1>5, <1>6, <1>7

LEMMA AliasCredentialsIInv ==
  ASSUME IInv, NEW q \in Requests, AliasCredentials(q) PROVE IInv'
  <1> USE DEF IInv, AliasCredentials
  <1>1. /\ Links = 1 /\ Credentials(1) \in Token
        /\ value[q] # 0 /\ value[q] = instance[Cache(1)]
    <2>1. Links = 1
      BY DEF ProgressOK, Aliasing
    <2>2. 1 \in 0 .. Links
      BY <2>1
    <2> QED
      BY <2>1, <2>2, Tokens DEF AgreeOK
  <1>2. pc[q] \notin Storing /\ "storingCredentials" \in Storing /\ "credentials" \in Where \ Storing
    BY DEF Storing, Where
  <1>3. /\ kept' \in [Requests -> Nat] /\ kept'[q] = value[q]
        /\ \A p \in Requests \ {q} : kept'[p] = kept[p]
    BY DEF TypeOK
  <1>4. UNCHANGED <<initialized, provider, instance, link>>
    BY DEF Resolve
  <1>5. /\ TypeOK' /\ LockOK'
        /\ \A p \in Requests \ {q} :
              pc'[p] = pc[p] /\ token'[p] = token[p] /\ value'[p] = value[p]
        /\ token'[q] = Credentials(1)
        /\ \/ /\ pc'[q] = "credentials" /\ instance[Credentials(1)] # 0
              /\ value'[q] = instance[Credentials(1)]
           \/ pc'[q] = "failed"
           \/ /\ pc'[q] = "storingCredentials" /\ provider[Credentials(1)] # 0
              /\ value'[q] = provider[Credentials(1)]
    BY <1>1, <1>2, <1>3, ResolveLocks
  <1>6. ProgressOK'
    BY <1>4, <1>5 DEF ProgressOK, Aliasing, Behind, AllRegistered, Registered
  <1>7. AgreeOK'
    BY <1>1, <1>3, <1>4, <1>5 DEF AgreeOK
  <1> QED
    BY <1>5, <1>6, <1>7

LEMMA HandleIInv ==
  ASSUME IInv, NEW q \in Requests, Handle(q) PROVE IInv'
  <1> USE DEF IInv, Handle
  <1>1. PICK r \in 0 .. Links : Resolve(q, Cache(r), "served", "storingHandle")
    OBVIOUS
  <1>2. Cache(r) \in Token
    BY Tokens
  <1>3. pc[q] \notin Storing /\ "storingHandle" \in Storing /\ "served" \in Where \ Storing
    BY DEF Storing, Where
  <1>4. kept' = kept /\ kept' \in [Requests -> Nat]
    BY DEF TypeOK
  <1>5. UNCHANGED <<initialized, provider, instance, link>>
    BY <1>1 DEF Resolve
  <1>6. /\ TypeOK' /\ LockOK'
        /\ \A p \in Requests \ {q} :
              pc'[p] = pc[p] /\ token'[p] = token[p] /\ value'[p] = value[p]
        /\ token'[q] = Cache(r)
        /\ \/ pc'[q] = "served" /\ instance[Cache(r)] # 0 /\ value'[q] = instance[Cache(r)]
           \/ pc'[q] = "failed"
           \/ pc'[q] = "storingHandle" /\ provider[Cache(r)] # 0 /\ value'[q] = provider[Cache(r)]
    BY <1>1, <1>2, <1>3, <1>4, ResolveLocks
  <1>7. ProgressOK'
    BY <1>5, <1>6 DEF ProgressOK, Aliasing, Behind, AllRegistered, Registered
  <1>8. AgreeOK'
    BY <1>4, <1>5, <1>6 DEF AgreeOK
  <1> QED
    BY <1>6, <1>7, <1>8

(* Container.closeAll.                                                     *)
LEMMA CloseIInv ==
  ASSUME IInv, Close PROVE IInv'
  <1> USE DEF IInv, container, resolve
  <1>1. UNCHANGED Untouched
    BY DEF Close, CloseAll, CloseOne, CloseDone, Untouched
  <1>2. TypeOK'
    <2>1. CASE CloseAll
      BY <2>1 DEF TypeOK, CloseAll
    <2>2. CASE CloseOne
      BY <2>2 DEF TypeOK, CloseOne
    <2>3. CASE CloseDone
      BY <2>3 DEF TypeOK, CloseDone
    <2> QED
      BY <2>1, <2>2, <2>3 DEF Close
  <1> QED
    BY <1>1, <1>2, UntouchedKeeps

(* The invariant is inductive.                                             *)
THEOREM IInvStep == IInv /\ [Next]_vars => IInv'
  <1> SUFFICES ASSUME IInv, [Next]_vars PROVE IInv'
    OBVIOUS
  <1>1. ASSUME NEW q \in Requests, Advance(q) \/ ConnectFails(q) PROVE IInv'
    <2>1. CASE Skip(q)
      BY <2>1, SkipIInv
    <2>2. CASE Enter(q)
      BY <2>2, EnterIInv
    <2>3. CASE Connect(q)
      BY <2>3, ConnectIInv
    <2>4. CASE Finish(q)
      BY <2>4, FinishIInv
    <2>5. CASE AliasCache(q)
      BY <2>5, AliasCacheIInv
    <2>6. CASE Store(q, "storingCache", "cache")
      BY <2>6, StoreIInv
    <2>7. CASE AliasCredentials(q)
      BY <2>7, AliasCredentialsIInv
    <2>8. CASE Store(q, "storingCredentials", "credentials")
      BY <2>8, StoreIInv
    <2>9. CASE RegisterDefault(q)
      BY <2>9, RegisterDefaultIInv
    <2>10. CASE Handle(q)
      BY <2>10, HandleIInv
    <2>11. CASE Store(q, "storingHandle", "served")
      BY <2>11, StoreIInv
    <2>12. CASE ConnectFails(q)
      BY <2>12, ConnectFailsIInv
    <2> QED
      BY <1>1, <2>1, <2>2, <2>3, <2>4, <2>5, <2>6, <2>7, <2>8, <2>9, <2>10, <2>11, <2>12
         DEF Advance
  <1>2. CASE Close
    BY <1>2, CloseIInv
  <1>3. CASE UNCHANGED vars
    <2>1. UNCHANGED Untouched
      BY <1>3 DEF vars, Untouched, resolve
    <2>2. TypeOK'
      BY <1>3 DEF IInv, TypeOK, vars, container, resolve, shutdown
    <2> QED
      BY <2>1, <2>2, UntouchedKeeps
  <1> QED
    BY <1>1, <1>2, <1>3 DEF Next

LEMMA Invariance == Spec => []IInv
  BY InitIInv, IInvStep, PTL DEF Spec

(* Every reachable state of the layer and its container has its shape.     *)
THEOREM TypeCorrect == Spec => []TypeOK
  <1>1. IInv => TypeOK
    BY DEF IInv
  <1> QED
    BY <1>1, Invariance, PTL

(* However many requests initialise the layer at once, and whichever of    *)
(* them fail, a handler runs only once every cache is registered.          *)
THEOREM Ready == Spec => []ReadyWhenServed
  <1>1. IInv => ReadyWhenServed
    BY DEF IInv, ProgressOK, ReadyWhenServed, Behind
  <1> QED
    BY <1>1, Invariance, PTL

(* All handlers of a resource hold one and the same cache object.          *)
THEOREM OneHandle == Spec => []HandlesAgree
  <1>1. IInv => HandlesAgree
    <2> SUFFICES ASSUME IInv, NEW p \in Requests, NEW q \in Requests,
                        pc[p] = "served", pc[q] = "served",
                        ResourceOf(token[p]) = ResourceOf(token[q])
                 PROVE  value[p] = value[q]
      BY DEF HandlesAgree
    <2>1. PICK r \in 0 .. Links : token[p] = Cache(r)
      BY DEF IInv, AgreeOK
    <2>2. PICK s \in 0 .. Links : token[q] = Cache(s)
      BY DEF IInv, AgreeOK
    <2>3. /\ value[p] # 0 /\ value[p] = instance[Cache(r)]
          /\ value[q] # 0 /\ value[q] = instance[Cache(s)]
      BY <2>1, <2>2 DEF IInv, AgreeOK
    <2>4. (IF r = Default THEN 1 ELSE r) = (IF s = Default THEN 1 ELSE s)
      BY <2>1, <2>2 DEF ResourceOf, Cache
    <2>5. instance[Cache(Default)] # 0 => instance[Cache(Default)] = instance[Cache(1)]
      BY DEF IInv, AgreeOK
    <2>6. r = s \/ (r = Default /\ s = 1) \/ (r = 1 /\ s = Default)
      BY <2>4 DEF Default
    <2> QED
      BY <2>3, <2>5, <2>6
  <1> QED
    BY <1>1, Invariance, PTL

(* The container's lock on a token belongs to one waiting request.         *)
THEOREM LockCorrect == Spec => []LockHeld
  <1>1. IInv => LockHeld
    BY DEF IInv, LockOK
  <1> QED
    BY <1>1, Invariance, PTL

-----------------------------------------------------------------------------
(* What closeAll closes when initialisations are not repeated.             *)

(* One request at most has opened a client: no other overlapped with it in *)
(* the layer, nor came after it had failed half-way.                       *)
Alone == \A p, q \in Requests : link[p] > 1 /\ link[q] > 1 => p = q

(* The clients are those of the first n resources, and each has its closer.*)
Opened(n) ==
  /\ clients = n
  /\ \A r \in Resource : closer[r] = IF r <= n THEN r ELSE 0

ClosersOK ==
  /\ \A q \in Requests : pc[q] = "idle" => link[q] = 1
  /\ phase = "open" =>
       /\ closing = {}
       /\ Alone => /\ \A q \in Requests : link[q] > 1 => Opened(link[q] - 1)
                   /\ (\A q \in Requests : link[q] = 1) => Opened(0)
  /\ phase = "closing" /\ Alone => \A c \in 1 .. due : c \in closing \cup closed
  /\ phase = "closed" => closing = {} /\ (Alone => EveryClientClosed)

LEMMA LinkTyped ==
  ASSUME TypeOK, NEW q \in Requests
  PROVE  link[q] \in 1 .. Links + 1 /\ link[q] \in Nat /\ (link[q] > 1 \/ link[q] = 1)
  BY LinksAssumption DEF TypeOK

LEMMA ClosersConnect ==
  ASSUME IInv, ClosersOK, NEW q \in Requests, Connect(q)
  PROVE  ClosersOK'
  <1> USE LinksAssumption
  <1>1. TypeOK /\ link[q] \in Resource
    BY DEF IInv, ProgressOK, Connect
  <1>2. PICK n \in Nat : link[q] = n + 1 /\ n < Links
    <2>1. link[q] \in Nat /\ link[q] >= 1 /\ link[q] <= Links
      BY <1>1 DEF Resource
    <2>2. link[q] - 1 \in Nat /\ link[q] = (link[q] - 1) + 1 /\ link[q] - 1 < Links
      BY <2>1
    <2> QED BY <2>2
  <1>3. /\ link'[q] = n + 2 /\ \A p \in Requests \ {q} : link'[p] = link[p]
        /\ clients' = clients + 1 /\ clients \in Nat
        /\ UNCHANGED <<phase, closing, closed, due>>
    BY <1>1, <1>2 DEF Connect, TypeOK, shutdown
  <1>4. \A p \in Requests \ {q} : pc'[p] = pc[p]
    BY <1>1 DEF Connect, Goto, TypeOK
  <1>5. pc'[q] # "idle"
    BY <1>1 DEF Connect, Goto, TypeOK
  <1>6. \A p \in Requests : pc'[p] = "idle" => link'[p] = 1
    BY <1>3, <1>4, <1>5 DEF ClosersOK
  <1>7. Alone' => Alone /\ \A p \in Requests : p # q => link[p] = 1
    <2>1. link'[q] > 1
      BY <1>2, <1>3
    <2>2. ASSUME Alone', NEW p \in Requests, p # q PROVE link[p] = 1
      <3>1. ~(link'[p] > 1)
        BY <2>1, <2>2 DEF Alone
      <3> QED BY <1>1, <1>3, <2>2, <3>1, LinkTyped
    <2> QED BY <2>2 DEF Alone
  <1>8. ASSUME phase = "open", Alone' PROVE Opened(n + 1)'
    <2>1. Opened(n)
      <3>1. CASE n = 0
        <4>1. \A p \in Requests : link[p] = 1
          BY <1>2, <1>7, <1>8, <3>1
        <4> QED BY <1>7, <1>8, <3>1, <4>1 DEF ClosersOK
      <3>2. CASE n # 0
        <4>1. link[q] > 1 /\ link[q] - 1 = n
          BY <1>2, <3>2
        <4> QED BY <1>7, <1>8, <4>1 DEF ClosersOK
      <3> QED BY <3>1, <3>2
    <2>2. n + 1 \in Resource /\ closer[n + 1] = 0 /\ clients = n
      BY <1>2, <2>1 DEF Opened, Resource
    <2>3. closer' = [closer EXCEPT ![n + 1] = n + 1] /\ clients' = n + 1
      BY <1>2, <1>3, <2>2 DEF Connect, Track
    <2>4. ASSUME NEW r \in Resource PROVE closer'[r] = IF r <= n + 1 THEN r ELSE 0
      <3>1. r \in Nat /\ closer[r] = IF r <= n THEN r ELSE 0
        BY <2>1 DEF Opened, Resource
      <3>2. closer'[r] = IF r = n + 1 THEN n + 1 ELSE closer[r]
        BY <1>1, <2>3 DEF TypeOK
      <3> QED BY <3>1, <3>2
    <2> QED BY <2>3, <2>4 DEF Opened
  <1>9. ASSUME phase = "open", Alone'
        PROVE  /\ \A p \in Requests : link'[p] > 1 => Opened(link[p] - 1)'
               /\ (\A p \in Requests : link'[p] = 1) => Opened(0)'
    <2>1. Opened(n + 1)'
      BY <1>8, <1>9
    <2>2. link'[q] - 1 = n + 1 /\ link'[q] # 1
      BY <1>3
    <2>3. \A p \in Requests : link'[p] > 1 => p = q
      BY <1>3, <1>7, <1>9
    <2> QED BY <2>1, <2>2, <2>3 DEF Opened
  <1>10. EveryClientClosed' <=> EveryClientClosed
    BY <1>3 DEF EveryClientClosed
  <1> QED BY <1>3, <1>6, <1>7, <1>9, <1>10 DEF ClosersOK

LEMMA ClosersClose ==
  ASSUME IInv, ClosersOK, Close
  PROVE  ClosersOK'
  <1> USE LinksAssumption
  <1>0. TypeOK
    BY DEF IInv
  <1>1. CASE CloseAll
    <2>1. /\ phase = "open" /\ phase' = "closing" /\ due' = clients
          /\ closing' = {closer[r] : r \in Resource} \ {0}
          /\ UNCHANGED <<pc, link>>
      BY <1>1 DEF CloseAll
    <2>2. Alone' <=> Alone
      BY <2>1 DEF Alone
    <2>3. ASSUME Alone, NEW c \in 1 .. clients PROVE c \in closing'
      <3>1. PICK n \in 0 .. Links : Opened(n)
        <4>1. CASE \E q \in Requests : link[q] > 1
          <5>1. PICK q \in Requests : link[q] > 1
            BY <4>1
          <5>2. link[q] - 1 \in 0 .. Links
            BY <1>0, <5>1, LinkTyped
          <5> QED BY <2>1, <2>3, <5>1, <5>2 DEF ClosersOK
        <4>2. CASE \A q \in Requests : ~(link[q] > 1)
          <5>1. \A q \in Requests : link[q] = 1
            BY <1>0, <4>2, LinkTyped
          <5> QED BY <2>1, <2>3, <5>1 DEF ClosersOK
        <4> QED BY <4>1, <4>2
      <3>2. c \in Resource /\ closer[c] = c /\ c # 0
        BY <2>3, <3>1 DEF Opened, Resource
      <3> QED BY <2>1, <3>2
    <2> QED BY <2>1, <2>2, <2>3 DEF ClosersOK
  <1>2. CASE CloseOne
    <2>1. PICK c \in closing : closing' = closing \ {c} /\ closed' = closed \cup {c}
      BY <1>2 DEF CloseOne
    <2>2. UNCHANGED <<pc, link, phase, due, clients, closer>>
      BY <1>2 DEF CloseOne
    <2>3. phase = "closing"
      BY <1>0, <2>1 DEF ClosersOK, TypeOK
    <2>4. Alone' <=> Alone
      BY <2>2 DEF Alone
    <2> QED BY <2>1, <2>2, <2>3, <2>4 DEF ClosersOK
  <1>3. CASE CloseDone
    <2>1. /\ phase = "closing" /\ phase' = "closed" /\ closing = {}
          /\ UNCHANGED <<pc, link, closing, closed, due>>
      BY <1>3 DEF CloseDone
    <2>2. Alone' <=> Alone
      BY <2>1 DEF Alone
    <2> QED BY <2>1, <2>2 DEF ClosersOK, EveryClientClosed
  <1> QED BY <1>1, <1>2, <1>3 DEF Close

LEMMA ClosersStep ==
  ASSUME IInv, ClosersOK, [Next]_vars
  PROVE  ClosersOK'
  <1> USE LinksAssumption
  <1>0. TypeOK
    BY DEF IInv
  <1>1. ASSUME NEW q \in Requests, Connect(q) PROVE ClosersOK'
    BY <1>1, ClosersConnect
  <1>2. ASSUME UNCHANGED <<clients, closer, link, shutdown>>,
               \A q \in Requests : pc'[q] = "idle" => pc[q] = "idle"
        PROVE  ClosersOK'
    <2>1. /\ Alone' <=> Alone
          /\ EveryClientClosed' <=> EveryClientClosed
      BY <1>2 DEF Alone, EveryClientClosed, shutdown
    <2> QED BY <1>2, <2>1 DEF ClosersOK, Opened, shutdown
  <1>3. ASSUME NEW q \in Requests, Enter(q) PROVE ClosersOK'
    <2>1. link[q] = 1
      BY <1>3 DEF ClosersOK, Enter
    <2>2. link' = link
      BY <1>0, <1>3, <2>1 DEF Enter, TypeOK
    <2>3. \A p \in Requests : pc'[p] = "idle" => pc[p] = "idle"
      BY <1>0, <1>3 DEF Enter, Goto, TypeOK
    <2> QED BY <1>2, <1>3, <2>2, <2>3 DEF Enter
  <1>4. ASSUME NEW q \in Requests, NEW l, l # "idle", Goto(q, l)
        PROVE  \A p \in Requests : pc'[p] = "idle" => pc[p] = "idle"
    BY <1>0, <1>4 DEF Goto, TypeOK
  <1>5. ASSUME NEW q \in Requests, Advance(q) \/ ConnectFails(q) PROVE ClosersOK'
    <2>1. CASE Skip(q) \/ Finish(q) \/ RegisterDefault(q) \/ ConnectFails(q)
      BY <1>2, <1>4, <2>1 DEF Skip, Finish, RegisterDefault, ConnectFails
    <2>2. ASSUME NEW wait, NEW then, then # "idle", Store(q, wait, then) PROVE ClosersOK'
      BY <1>2, <1>4, <2>2 DEF Store
    <2>3. ASSUME NEW t, NEW then, NEW wait, then # "idle", wait # "idle",
                 Resolve(q, t, then, wait)
          PROVE  ClosersOK'
      BY <1>2, <1>4, <2>3 DEF Resolve, ResolveCached, ResolveRefused, ResolveFresh
    <2> QED
      BY <1>1, <1>3, <1>5, <2>1, <2>2, <2>3
      DEF Advance, AliasCache, AliasCredentials, Handle
  <1>6. CASE Close
    BY <1>6, ClosersClose
  <1>7. CASE UNCHANGED vars
    BY <1>2, <1>7 DEF vars
  <1> QED BY <1>5, <1>6, <1>7 DEF Next

LEMMA InitClosers == Init => ClosersOK
  BY LinksAssumption DEF Init, ClosersOK, Opened, Alone, Resource

(* What cache/src/layer.ts:147 promises, and the failing run cache_close   *)
(* refutes, does hold where one request alone has opened clients: however  *)
(* closeAll interleaves with it and with the requests that come after it,  *)
(* every client opened before closeAll is closed.                          *)
THEOREM ClosedWhenAlone == Spec => [](Alone => EveryClientClosed)
  <1>1. IInv /\ ClosersOK => (Alone => EveryClientClosed)
    BY DEF ClosersOK, EveryClientClosed
  <1>2. IInv /\ ClosersOK /\ [Next]_vars => ClosersOK'
    BY ClosersStep
  <1> QED BY <1>1, <1>2, Invariance, InitClosers, PTL DEF Spec

-----------------------------------------------------------------------------
(* The resource layers.                                                    *)

CONSTANTS Request, Layer, Link, Value, Absent, MaxChanges
VARIABLES present, served, flags, handed, given, locked, made, req, known, changes

Layers == INSTANCE ResourceLayers WITH
    initialized <- flags, provider <- handed, instance <- given, resolving <- locked,
    clients <- made, set <- known

Types == {"queue", "topic", "datastore", "bucket", "sqlDatabase"}
Linking == {Layer[i] : i \in DOMAIN Layer}

(* Each type's links have names of their own, as the entries of a file of  *)
(* names have.                                                             *)
LinksTyped ==
  /\ Layer \in Seq(Types)
  /\ \A k \in Linking : Link[k] \in Seq([name : STRING, key : STRING])
  /\ \A k \in Linking : \A i, j \in DOMAIN Link[k] : Link[k][i].name = Link[k][j].name => i = j
  /\ Value # {}

TokensOf(k, r) == {t \in Layers!Tokens(k) : t[2] = r}
Defaults(k) == IF Len(Link[k]) = 1 THEN {"default"} ELSE {}

(* A handle made for the resource r: by a client there is, and with a name *)
(* its key has had.                                                        *)
MadeFor(h, k, r) == h.client \in 1..made /\ h.name \in known[Layers!KeyOf(k, r)] \ {Absent}
Reached(k, r) == \A t \in TokensOf(k, r) : MadeFor(handed[t], k, r)
AllReached(k) == \A r \in Layers!Names(k) \cup Defaults(k) : Reached(k, r)

LEMMA LinkFacts ==
  ASSUME LinksTyped, NEW k \in Linking
  PROVE  /\ k \in Types /\ k \in Layers!ToSet(Layer)
         /\ Len(Link[k]) \in Nat /\ DOMAIN Link[k] = 1..Len(Link[k])
         /\ \A i \in 1..Len(Link[k]) :
              /\ Link[k][i].name \in Layers!Names(k) /\ Link[k][i].name \in STRING
              /\ Link[k][i].key \in Layers!Key
              /\ Layers!KeyOf(k, Link[k][i].name) = Link[k][i].key
         /\ \A r \in Layers!Names(k) : \E i \in 1..Len(Link[k]) : r = Link[k][i].name
         /\ Len(Link[k]) = 1 => Layers!KeyOf(k, "default") = Link[k][1].key
         /\ \A r \in Layers!Names(k) \cup Defaults(k) : Layers!KeyOf(k, r) \in Layers!Key
  <1>1. k \in Types /\ k \in Layers!ToSet(Layer)
    BY DEF LinksTyped, Linking, Layers!ToSet
  <1>2. /\ Link[k] \in Seq([name : STRING, key : STRING])
        /\ Len(Link[k]) \in Nat /\ DOMAIN Link[k] = 1..Len(Link[k])
        /\ \A i \in 1..Len(Link[k]) : Link[k][i] \in [name : STRING, key : STRING]
    <2>1. Link[k] \in Seq([name : STRING, key : STRING])
      BY DEF LinksTyped
    <2>2. \A R : \A s \in Seq(R) :
            Len(s) \in Nat /\ DOMAIN s = 1..Len(s) /\ \A i \in 1..Len(s) : s[i] \in R
      OBVIOUS
    <2> QED BY <2>1, <2>2
  <1>3. \A r \in Layers!Names(k) : \E i \in 1..Len(Link[k]) : r = Link[k][i].name
    BY <1>2 DEF Layers!Names
  <1>4. ASSUME NEW i \in 1..Len(Link[k])
        PROVE  /\ Link[k][i].name \in Layers!Names(k) /\ Link[k][i].name \in STRING
               /\ Link[k][i].key \in Layers!Key
               /\ Layers!KeyOf(k, Link[k][i].name) = Link[k][i].key
    <2>1. Link[k][i].name \in Layers!Names(k) /\ Link[k][i].name \in STRING
      BY <1>2 DEF Layers!Names
    <2>2. Link[k][i].key \in Layers!Key
      BY <1>1, <1>2 DEF Layers!Key
    <2>3. \A j \in DOMAIN Link[k] : Link[k][j].name = Link[k][i].name => j = i
      BY <1>2 DEF LinksTyped
    <2>4. (CHOOSE j \in DOMAIN Link[k] : Link[k][j].name = Link[k][i].name) = i
      BY <1>2, <2>3
    <2> QED BY <2>1, <2>2, <2>4 DEF Layers!KeyOf
  <1>5. Len(Link[k]) = 1 => Layers!KeyOf(k, "default") = Link[k][1].key
    <2> SUFFICES ASSUME Len(Link[k]) = 1 PROVE Layers!KeyOf(k, "default") = Link[k][1].key
      OBVIOUS
    <2>1. CASE "default" \in Layers!Names(k)
      <3>1. "default" = Link[k][1].name
        BY <1>3, <2>1
      <3> QED BY <1>4, <3>1
    <2>2. CASE "default" \notin Layers!Names(k)
      BY <2>2 DEF Layers!KeyOf
    <2> QED BY <2>1, <2>2
  <1>6. \A r \in Layers!Names(k) \cup Defaults(k) : Layers!KeyOf(k, r) \in Layers!Key
    BY <1>2, <1>3, <1>4, <1>5 DEF Defaults
  <1> QED BY <1>1, <1>2, <1>3, <1>4, <1>5, <1>6

(* The tokens of a resource are its own.                                   *)
LEMMA TokenFacts ==
  ASSUME LinksTyped, NEW k \in Linking
  PROVE  /\ k # "sqlDatabase" =>
              \A r \in Layers!Names(k) \cup {"default"} : TokensOf(k, r) = {<<k, r>>}
         /\ k = "sqlDatabase" =>
              \A r \in Layers!Names(k) \cup {"default"} :
                TokensOf(k, r) = {Layers!SqlToken(i, r) : i \in 1..4}
         /\ \A r : TokensOf(k, r) \subseteq Layers!Token \ {Layers!Tracer, Layers!Config}
         /\ \A l \in Linking : \A r, s :
              TokensOf(k, r) \cap TokensOf(l, s) # {} => k = l /\ r = s
  <1>1. k \in Types /\ k \in Layers!ToSet(Layer) /\ \A l \in Linking : l \in Types
    BY LinkFacts
  <1>2. ASSUME NEW r \in Layers!Names(k) \cup {"default"}, k # "sqlDatabase"
        PROVE  TokensOf(k, r) = {<<k, r>>}
    BY <1>2 DEF TokensOf, Layers!Tokens, Layers!Sql, Layers!Default
  <1>3. ASSUME NEW r \in Layers!Names(k) \cup {"default"}, k = "sqlDatabase"
        PROVE  TokensOf(k, r) = {Layers!SqlToken(i, r) : i \in 1..4}
    BY <1>3 DEF TokensOf, Layers!Tokens, Layers!Sql, Layers!Default, Layers!SqlToken
  <1>4. \A l \in Linking : \A r : \A t \in TokensOf(l, r) :
          /\ t[2] = r
          /\ l # "sqlDatabase" => t[1] = l
          /\ l = "sqlDatabase" => t[1] \in {"instance", "writer", "reader", "credentials"}
    BY DEF TokensOf, Layers!Tokens, Layers!Sql, Layers!Default, Layers!SqlToken, Layers!SqlPart
  <1>5. ASSUME NEW r, NEW t \in TokensOf(k, r)
        PROVE  t \in Layers!Token /\ t \notin {Layers!Tracer, Layers!Config}
    <2>1. t \in Layers!Token
      BY <1>1 DEF Layers!Token, TokensOf
    <2>2. t[1] # "tracer" /\ t[1] # "config"
      BY <1>1, <1>4 DEF Types
    <2>3. /\ <<"tracer", "">>[1] = "tracer" /\ <<"config", "">>[1] = "config"
      OBVIOUS
    <2> QED BY <2>1, <2>2, <2>3 DEF Layers!Tracer, Layers!Config
  <1>6. ASSUME NEW l \in Linking, NEW r, NEW s, TokensOf(k, r) \cap TokensOf(l, s) # {}
        PROVE  k = l /\ r = s
    <2>1. PICK t : t \in TokensOf(k, r) /\ t \in TokensOf(l, s)
      BY <1>6
    <2>2. r = s
      BY <1>4, <2>1
    <2> QED BY <1>1, <1>4, <2>1, <2>2 DEF Types
  <1> QED BY <1>2, <1>3, <1>5, <1>6

MadeHandle == [client : Nat, name : Value \cup {Absent}]
Phases == {"enter", "tracer", "client", "config", "name", "connect", "default", "done", "failed"}
Standing == [layer : 1..(Len(Layer) + 1), pc : Phases, link : Nat \ {0}, client : Nat,
             holds : BOOLEAN, kept : Seq(MadeHandle)]

(* The shape of the state.                                                 *)
LayersTyped ==
  /\ served \in [Layers!Key -> Value \cup {Absent}]
  /\ known \in [Layers!Key -> SUBSET (Value \cup {Absent})]
  /\ \A c \in Layers!Key : served[c] \in known[c]
  /\ flags \in [DOMAIN Layer -> BOOLEAN]
  /\ handed \in [Layers!Token -> MadeHandle]
  /\ given \in [Layers!Token -> {<<>>} \cup {<<h>> : h \in MadeHandle}]
  /\ made \in Nat
  /\ req \in [Request -> Standing]

(* A request inside the layer of type k.                                   *)
Inside(n, k) ==
  /\ n.pc \in {"tracer", "client", "name"} => k # "sqlDatabase"
  /\ n.pc = "connect" => k = "sqlDatabase"
  /\ n.pc \in {"tracer", "client", "config"} => n.link = 1
  /\ n.pc \in {"config", "name", "default"} /\ k # "sqlDatabase" => n.client # 0
  /\ n.pc = "config" => Len(Link[k]) # 0
  /\ n.pc \in {"name", "connect"} =>
       /\ n.link <= Len(Link[k])
       /\ \A i \in 1..(n.link - 1) : Reached(k, Link[k][i].name)
  /\ n.pc = "default" => Len(Link[k]) = 1 /\ Reached(k, Link[k][1].name)
  /\ n.pc = "done" => AllReached(k)
  /\ n.kept # <<>> => Len(Link[k]) = 1
  /\ \A i \in 1..Len(n.kept) : MadeFor(n.kept[i], k, Link[k][1].name)

(* A request that stands as n does has every layer behind it complete.     *)
RequestOK(n) ==
  /\ n.client <= made /\ Len(n.kept) <= 3
  /\ \A i \in 1..(n.layer - 1) : AllReached(Layer[i])
  /\ n.layer <= Len(Layer) => Inside(n, Layer[n.layer])

(* What a resource's token was resolved to was made for the resource.      *)
GivenOK ==
  \A k \in Linking : \A r \in Layers!Names(k) : \A t \in TokensOf(k, r) :
    given[t] # <<>> => MadeFor(given[t][1], k, r)

(* The invariant: a set flag, too, means that the layer is complete.       *)
LayersInv ==
  /\ LayersTyped
  /\ \A q \in Request : RequestOK(req[q])
  /\ \A i \in DOMAIN Layer : flags[i] => AllReached(Layer[i])
  /\ GivenOK

(* Clients and the values of keys are only added, and a token gets no      *)
(* handle but one of its resource.                                         *)
Grows ==
  /\ made' \in Nat /\ made <= made'
  /\ \A c \in Layers!Key : known[c] \subseteq known'[c]
  /\ \A t \in Layers!Token :
       \/ handed'[t] = handed[t]
       \/ \A k \in Linking : \A r \in Layers!Names(k) \cup Defaults(k) :
            t \in TokensOf(k, r) => MadeFor(handed[t], k, r)'

LEMMA Layered ==
  ASSUME LinksTyped
  PROVE  /\ Len(Layer) \in Nat /\ DOMAIN Layer = 1..Len(Layer)
         /\ \A i \in 1..Len(Layer) : Layer[i] \in Linking
  <1>1. \A R : \A s \in Seq(R) : Len(s) \in Nat /\ DOMAIN s = 1..Len(s)
    OBVIOUS
  <1>2. Len(Layer) \in Nat /\ DOMAIN Layer = 1..Len(Layer)
    BY <1>1 DEF LinksTyped
  <1> QED BY <1>2 DEF Linking

LEMMA Lasting ==
  ASSUME LinksTyped, LayersTyped, Grows
  PROVE  /\ \A k \in Linking : \A r \in Layers!Names(k) \cup Defaults(k) :
              /\ \A h : MadeFor(h, k, r) => MadeFor(h, k, r)'
              /\ Reached(k, r) => Reached(k, r)'
         /\ \A k \in Linking : AllReached(k) => AllReached(k)'
         /\ \A n \in Standing : RequestOK(n) => RequestOK(n)'
  <1>1. ASSUME NEW k \in Linking, NEW r \in Layers!Names(k) \cup Defaults(k), NEW h, MadeFor(h, k, r)
        PROVE  MadeFor(h, k, r)'
    <2>1. PICK c : c = Layers!KeyOf(k, r)
      OBVIOUS
    <2>2. c \in Layers!Key
      BY <2>1, LinkFacts
    <2>3. h.client \in 1..made /\ h.name \in known[c] \ {Absent}
      BY <1>1, <2>1 DEF MadeFor
    <2>4. h.client \in 1..made' /\ h.name \in known'[c] \ {Absent}
      BY <2>2, <2>3 DEF Grows, LayersTyped
    <2> QED BY <2>1, <2>4 DEF MadeFor, Layers!KeyOf
  <1>2. ASSUME NEW k \in Linking, NEW r \in Layers!Names(k) \cup Defaults(k), Reached(k, r)
        PROVE  Reached(k, r)'
    <2>1. ASSUME NEW t \in TokensOf(k, r) PROVE MadeFor(handed[t], k, r)'
      <3>1. t \in Layers!Token
        BY TokenFacts
      <3>2. PICK h : h = handed[t]
        OBVIOUS
      <3>3. MadeFor(h, k, r)'
        BY <1>1, <1>2, <3>2 DEF Reached
      <3>4. CASE handed'[t] = handed[t]
        BY <3>2, <3>3, <3>4 DEF MadeFor
      <3> QED BY <3>1, <3>4 DEF Grows
    <2> QED BY <2>1 DEF Reached, TokensOf, Layers!Tokens, Layers!Names
  <1>3. ASSUME NEW k \in Linking, AllReached(k) PROVE AllReached(k)'
    BY <1>2, <1>3 DEF AllReached, Defaults, Layers!Names
  <1>4. ASSUME NEW n \in Standing, RequestOK(n) PROVE RequestOK(n)'
    <2>1. n.client \in Nat /\ Len(n.kept) \in Nat /\ n.layer \in Nat /\ n.layer - 1 <= Len(Layer)
      BY Layered DEF Standing
    <2>2. n.client <= made'
      BY <1>4, <2>1 DEF Grows, RequestOK, LayersTyped
    <2>3. \A i \in 1..(n.layer - 1) : AllReached(Layer[i])'
      BY <1>3, <1>4, <2>1, Layered DEF RequestOK
    <2>4. ASSUME n.layer <= Len(Layer) PROVE Inside(n, Layer[n.layer])'
      <3>1. PICK k : k = Layer[n.layer]
        OBVIOUS
      <3>2. k \in Linking /\ Inside(n, k)
        BY <1>4, <2>4, <3>1, Layered DEF RequestOK, Standing
      <3>3. \A i \in 1..Len(Link[k]) : Reached(k, Link[k][i].name) => Reached(k, Link[k][i].name)'
        BY <1>2, <3>2, LinkFacts
      <3>4. ASSUME n.kept # <<>>, NEW i \in 1..Len(n.kept) PROVE MadeFor(n.kept[i], k, Link[k][1].name)'
        <4>1. Link[k][1].name \in Layers!Names(k)
          BY <3>2, <3>4, LinkFacts DEF Inside
        <4> QED BY <1>1, <3>2, <3>4, <4>1 DEF Inside
      <3>5. n.kept = <<>> => Len(n.kept) = 0
        OBVIOUS
      <3>6. Len(Link[k]) \in Nat /\ n.link \in Nat
        BY <3>2, LinkFacts DEF Standing
      <3>7. Inside(n, k)'
        BY <1>3, <3>2, <3>3, <3>4, <3>5, <3>6 DEF Inside
      <3> QED BY <3>1, <3>7
    <2> QED BY <1>4, <2>2, <2>3, <2>4 DEF RequestOK
  <1> QED BY <1>1, <1>2, <1>3, <1>4

(* A request goes on as n.                                                 *)
LEMMA RequestMoves ==
  ASSUME LinksTyped, LayersInv, NEW q \in Request, NEW n \in Standing,
         req' = [req EXCEPT ![q] = n], Grows, RequestOK(n)',
         UNCHANGED <<served, known>>,
         handed' \in [Layers!Token -> MadeHandle],
         flags' \in [DOMAIN Layer -> BOOLEAN],
         \A i \in DOMAIN Layer : flags'[i] => flags[i] \/ AllReached(Layer[i])',
         given' \in [Layers!Token -> {<<>>} \cup {<<h>> : h \in MadeHandle}],
         \A t \in Layers!Token :
           \/ given'[t] = given[t]
           \/ \A k \in Linking : \A r \in Layers!Names(k) :
                t \in TokensOf(k, r) => MadeFor(given[t][1], k, r)'
  PROVE  LayersInv'
  <1>1. LayersTyped'
    BY DEF LayersInv, LayersTyped, Grows
  <1>2. ASSUME NEW p \in Request PROVE RequestOK(req[p])'
    <2>1. PICK m : m = req'[p]
      OBVIOUS
    <2>2. m = n \/ (m = req[p] /\ m \in Standing /\ RequestOK(m))
      BY <2>1 DEF LayersInv, LayersTyped
    <2>3. RequestOK(m)'
      BY <2>2, Lasting DEF LayersInv
    <2> QED BY <2>1, <2>3
  <1>3. ASSUME NEW i \in DOMAIN Layer, flags'[i] PROVE AllReached(Layer[i])'
    <2>1. Layer[i] \in Linking
      BY Layered
    <2> QED BY <1>3, <2>1, Lasting DEF LayersInv
  <1>4. ASSUME NEW k \in Linking, NEW r \in Layers!Names(k), NEW t \in TokensOf(k, r), given'[t] # <<>>
        PROVE  MadeFor(given[t][1], k, r)'
    <2>1. t \in Layers!Token
      BY TokenFacts
    <2>2. CASE given'[t] = given[t]
      <3>1. PICK h : h = given[t][1]
        OBVIOUS
      <3>2. MadeFor(h, k, r)
        BY <1>4, <2>2, <3>1 DEF LayersInv, GivenOK
      <3>3. MadeFor(h, k, r)' /\ given'[t][1] = h
        BY <2>2, <3>1, <3>2, Lasting DEF LayersInv
      <3> QED BY <3>3 DEF MadeFor
    <2> QED BY <2>1, <2>2
  <1>5. GivenOK'
    <2>1. Linking' = Linking
      BY DEF Linking
    <2>2. \A k : Layers!Names(k)' = Layers!Names(k)
      BY DEF Layers!Names
    <2>3. \A k, r : TokensOf(k, r)' = TokensOf(k, r)
      BY DEF TokensOf, Layers!Tokens, Layers!Names
    <2>4. SUFFICES ASSUME NEW k \in Linking', NEW r \in Layers!Names(k)', NEW t \in TokensOf(k, r)',
                          (given[t] # <<>>)'
                   PROVE  MadeFor(given[t][1], k, r)'
      BY DEF GivenOK
    <2> QED BY <1>4, <2>1, <2>2, <2>3, <2>4
  <1> QED BY <1>1, <1>2, <1>3, <1>5 DEF LayersInv

(* Only the request moves.                                                 *)
LEMMA OnlyMoves ==
  ASSUME LinksTyped, LayersInv, NEW q \in Request, NEW n \in Standing,
         req' = [req EXCEPT ![q] = n], RequestOK(n),
         UNCHANGED <<served, known, flags, handed, given, made>>
  PROVE  LayersInv'
  <1>1. Grows
    BY DEF Grows, LayersInv, LayersTyped
  <1>2. RequestOK(n)'
    BY <1>1, Lasting DEF LayersInv
  <1> QED BY <1>1, <1>2, RequestMoves DEF LayersInv, LayersTyped

(* The request that moves, and the layer it is inside.                     *)
LEMMA Mover ==
  ASSUME LinksTyped, LayersInv, NEW q \in Request, req[q].layer <= Len(Layer)
  PROVE  /\ req[q] \in Standing /\ RequestOK(req[q])
         /\ Layers!Type(q) = Layer[req[q].layer] /\ Layers!Type(q) \in Linking
         /\ Layers!Linked(q) = Link[Layers!Type(q)]
         /\ Inside(req[q], Layers!Type(q))
         /\ req[q].layer \in DOMAIN Layer /\ req[q].layer \in Nat /\ Len(Layer) \in Nat
  <1>1. req[q] \in Standing /\ RequestOK(req[q])
    BY DEF LayersInv, LayersTyped
  <1>2. req[q].layer \in 1..Len(Layer) /\ DOMAIN Layer = 1..Len(Layer) /\ Len(Layer) \in Nat
    BY <1>1, Layered DEF Standing
  <1>3. Layer[req[q].layer] \in Linking
    BY <1>2, Layered
  <1> QED BY <1>1, <1>2, <1>3 DEF RequestOK, Layers!Type, Layers!Linked

(* A request that leaves a layer whose resources have their handles.       *)
LEMMA Leaves ==
  ASSUME LinksTyped, LayersInv, NEW q \in Request, req[q].layer <= Len(Layer),
         AllReached(Layer[req[q].layer])
  PROVE  Layers!Leave(q) \in Standing /\ RequestOK(Layers!Leave(q))
  <1> DEFINE n == Layers!Leave(q)
  <1>1. /\ n.layer = req[q].layer + 1 /\ n.pc = "enter" /\ n.link = 1 /\ n.client = 0
        /\ n.holds = FALSE /\ n.kept = <<>>
    BY DEF Layers!Leave
  <1>2. n \in Standing
    BY Mover DEF Layers!Leave, Standing, Phases
  <1>3. \A i \in 1..(n.layer - 1) : AllReached(Layer[i])
    BY <1>1, Mover DEF RequestOK
  <1>4. Inside(n, Layer[n.layer])
    BY <1>1 DEF Inside
  <1> QED BY <1>1, <1>2, <1>3, <1>4 DEF RequestOK, LayersInv, LayersTyped

LEMMA PassStep ==
  ASSUME LinksTyped, LayersInv, NEW q \in Request, Layers!Pass(q)
  PROVE  LayersInv'
  <1>1. req[q].layer <= Len(Layer) /\ AllReached(Layer[req[q].layer])
    BY Mover DEF Layers!Pass, Layers!At, LayersInv
  <1> QED BY <1>1, Leaves, OnlyMoves DEF Layers!Pass, Layers!config

LEMMA FinishStep ==
  ASSUME LinksTyped, LayersInv, NEW q \in Request, Layers!Finish(q)
  PROVE  LayersInv'
  <1>1. req[q].layer <= Len(Layer) /\ AllReached(Layer[req[q].layer])
    BY Mover DEF Layers!Finish, Layers!At, Inside
  <1>2. PICK n : n = Layers!Leave(q)
    OBVIOUS
  <1>3. n \in Standing /\ RequestOK(n) /\ req' = [req EXCEPT ![q] = n]
    BY <1>1, <1>2, Leaves DEF Layers!Finish
  <1>4. UNCHANGED <<served, known, handed, given, made>>
    BY DEF Layers!Finish, Layers!config
  <1>5. Grows
    BY <1>4 DEF Grows, LayersInv, LayersTyped
  <1>6. RequestOK(n)'
    BY <1>3, <1>5, Lasting DEF LayersInv
  <1>7. PICK i : i = req[q].layer
    OBVIOUS
  <1>8. i \in DOMAIN Layer /\ Layer[i] \in Linking /\ AllReached(Layer[i])'
    BY <1>1, <1>5, <1>7, Mover, Lasting DEF LayersInv
  <1>9. flags' = [flags EXCEPT ![i] = TRUE]
    BY <1>7 DEF Layers!Finish
  <1> QED BY <1>3, <1>4, <1>5, <1>6, <1>8, <1>9, RequestMoves DEF LayersInv, LayersTyped

LEMMA Placed ==
  ASSUME NEW m \in Standing, NEW stage \in Phases, NEW i \in Nat \ {0}, NEW c \in Nat,
         NEW n, n = [layer |-> m.layer, pc |-> stage, link |-> i, client |-> c,
                     holds |-> m.holds, kept |-> m.kept]
  PROVE  /\ n \in Standing /\ n.pc = stage /\ n.link = i /\ n.client = c
         /\ n.layer = m.layer /\ n.kept = m.kept
  <1>2. m.layer \in 1..(Len(Layer) + 1) /\ m.holds \in BOOLEAN /\ m.kept \in Seq(MadeHandle)
    BY DEF Standing
  <1>3. n \in Standing
    BY <1>2 DEF Standing
  <1> QED BY <1>3

LEMMA Rewritten ==
  ASSUME NEW m \in Standing, NEW stage \in Phases, NEW i \in Nat \ {0}
  PROVE  [m EXCEPT !.pc = stage, !.link = i] =
           [layer |-> m.layer, pc |-> stage, link |-> i, client |-> m.client,
            holds |-> m.holds, kept |-> m.kept]
  <1>1. PICK n : n = [m EXCEPT !.pc = stage, !.link = i]
    OBVIOUS
  <1>2. n \in Standing
    BY <1>1 DEF Standing
  <1>3. /\ n.pc = stage /\ n.link = i
        /\ n.layer = m.layer /\ n.client = m.client /\ n.holds = m.holds /\ n.kept = m.kept
    BY <1>1 DEF Standing
  <1>4. n = [layer |-> n.layer, pc |-> n.pc, link |-> n.link, client |-> n.client,
             holds |-> n.holds, kept |-> n.kept]
    BY <1>2 DEF Standing
  <1> QED BY <1>1, <1>3, <1>4

(* A request that fails stays where it is.                                 *)
LEMMA Failing ==
  ASSUME LinksTyped, LayersInv, NEW q \in Request, req[q].layer <= Len(Layer), Layers!Fail(q),
         UNCHANGED <<served, known, flags, handed, given, made>>
  PROVE  LayersInv'
  <1>1. PICK n : n = [req[q] EXCEPT !.pc = "failed", !.holds = FALSE]
    OBVIOUS
  <1>2. /\ n \in Standing /\ n.pc = "failed"
        /\ n.layer = req[q].layer /\ n.client = req[q].client /\ n.kept = req[q].kept
    BY <1>1, Mover DEF Standing, Phases
  <1>3. RequestOK(n)
    BY <1>2, Mover DEF RequestOK, Inside
  <1>4. req' = [req EXCEPT ![q] = n]
    BY <1>1 DEF Layers!Fail, LayersInv, LayersTyped
  <1> QED BY <1>2, <1>3, <1>4, OnlyMoves

(* A resolve that takes its token, or finds it taken.                      *)
LEMMA LockSteps ==
  ASSUME LinksTyped, LayersInv, NEW q \in Request, NEW t, req[q].layer <= Len(Layer),
         Layers!Lock(q, t) \/ Layers!Refuse(q, t)
  PROVE  LayersInv'
  <1>1. CASE Layers!Lock(q, t)
    <2>1. PICK n : n = [req[q] EXCEPT !.holds = TRUE]
      OBVIOUS
    <2>2. /\ n \in Standing /\ n.pc = req[q].pc /\ n.link = req[q].link
          /\ n.layer = req[q].layer /\ n.client = req[q].client /\ n.kept = req[q].kept
      BY <2>1, Mover DEF Standing
    <2>3. RequestOK(n)
      BY <2>2, Mover DEF RequestOK, Inside
    <2>4. req' = [req EXCEPT ![q] = n]
      BY <1>1, <2>1 DEF Layers!Lock, LayersInv, LayersTyped
    <2> QED BY <1>1, <2>2, <2>3, <2>4, OnlyMoves DEF Layers!Lock, Layers!config
  <1>2. CASE Layers!Refuse(q, t)
    BY <1>2, Failing DEF Layers!Refuse, Layers!config
  <1> QED BY <1>1, <1>2

(* A resolve that answers keeps a handle of the token's resource.          *)
LEMMA Answering ==
  ASSUME LinksTyped, LayersInv, NEW q \in Request, NEW t \in Layers!Token, Layers!Have(q, t)
  PROVE  /\ UNCHANGED <<served, known, flags, made>>
         /\ Layers!Resolved(t) \in MadeHandle
         /\ given' = [given EXCEPT ![t] = <<Layers!Resolved(t)>>]
         /\ given' \in [Layers!Token -> {<<>>} \cup {<<h>> : h \in MadeHandle}]
         /\ \A k \in Linking : \A r \in Layers!Names(k) :
              t \in TokensOf(k, r) /\ Reached(k, r) => MadeFor(Layers!Resolved(t), k, r)
  <1>1. /\ UNCHANGED <<served, known, flags, made>>
        /\ given' = [given EXCEPT ![t] = <<Layers!Resolved(t)>>]
    BY DEF Layers!Have, Layers!config
  <1>2. Layers!Resolved(t) \in MadeHandle
    BY DEF Layers!Resolved, LayersInv, LayersTyped
  <1>3. given' \in [Layers!Token -> {<<>>} \cup {<<h>> : h \in MadeHandle}]
    BY <1>1, <1>2 DEF LayersInv, LayersTyped
  <1>4. ASSUME NEW k \in Linking, NEW r \in Layers!Names(k), t \in TokensOf(k, r), Reached(k, r)
        PROVE  MadeFor(Layers!Resolved(t), k, r)
    BY <1>4 DEF Layers!Resolved, LayersInv, GivenOK, Reached
  <1> QED BY <1>1, <1>2, <1>3, <1>4

LEMMA EnterStep ==
  ASSUME LinksTyped, LayersInv, NEW q \in Request, Layers!Enter(q)
  PROVE  LayersInv'
  <1> DEFINE k == Layers!Type(q)
  <1>1. req[q].layer <= Len(Layer)
    BY DEF Layers!Enter, Layers!At
  <1>2. k \in Linking /\ Layers!Linked(q) = Link[k] /\ k = Layer[req[q].layer]
    BY <1>1, Mover
  <1>3. PICK stage : stage = Layers!First(q)
    OBVIOUS
  <1>4. \/ stage = "tracer" /\ k # "sqlDatabase"
        \/ stage = "done" /\ k = "sqlDatabase" /\ Link[k] = <<>>
        \/ stage = "config" /\ k = "sqlDatabase" /\ Link[k] # <<>>
    BY <1>2, <1>3 DEF Layers!First, Layers!Sql
  <1>5. PICK n : n = [layer |-> req[q].layer, pc |-> stage, link |-> 1, client |-> req[q].client,
                    holds |-> req[q].holds, kept |-> req[q].kept]
    OBVIOUS
  <1>6. /\ n \in Standing /\ n.pc = stage /\ n.link = 1
        /\ n.layer = req[q].layer /\ n.client = req[q].client /\ n.kept = req[q].kept
    <2>1. stage \in Phases /\ req[q] \in Standing /\ req[q].client \in Nat
      BY <1>1, <1>4, Mover DEF Standing, Phases
    <2>2. 1 \in Nat \ {0}
      OBVIOUS
    <2> QED BY <1>5, <2>1, <2>2, Placed
  <1>7. Link[k] # <<>> => Len(Link[k]) # 0
    <2>1. \A R : \A s \in Seq(R) : s # <<>> => Len(s) # 0
      OBVIOUS
    <2> QED BY <1>2, <2>1 DEF LinksTyped
  <1>8. stage = "done" => AllReached(k)
    <2>1. Link[k] = <<>> => DOMAIN Link[k] = {} /\ Len(Link[k]) = 0
      OBVIOUS
    <2>2. Link[k] = <<>> => Layers!Names(k) = {} /\ Defaults(k) = {}
      BY <2>1 DEF Layers!Names, Defaults
    <2>3. Link[k] = <<>> => AllReached(k)
      BY <2>2 DEF AllReached
    <2> QED BY <1>4, <2>3
  <1>9. RequestOK(n)
    BY <1>1, <1>2, <1>4, <1>6, <1>7, <1>8, Mover DEF RequestOK, Inside
  <1>10. req' = [req EXCEPT ![q] = n]
    <2>1. req[q] \in Standing /\ 1 \in Nat \ {0} /\ stage \in Phases
      BY <1>1, <1>4, Mover DEF Phases
    <2>2. n = [req[q] EXCEPT !.pc = stage, !.link = 1]
      BY <1>5, <2>1, Rewritten
    <2> QED BY <1>3, <2>2 DEF Layers!Enter, Layers!Goto, LayersInv, LayersTyped
  <1> QED BY <1>6, <1>9, <1>10, OnlyMoves DEF Layers!Enter, Layers!config

LEMMA NoTracerStep ==
  ASSUME LinksTyped, LayersInv, NEW q \in Request, Layers!NoTracer(q)
  PROVE  LayersInv'
  <1>1. req[q].layer <= Len(Layer) /\ req[q].pc = "tracer"
    BY DEF Layers!NoTracer, Layers!At
  <1>2. PICK n : n = [layer |-> req[q].layer, pc |-> "client", link |-> 1, client |-> req[q].client,
                    holds |-> req[q].holds, kept |-> req[q].kept]
    OBVIOUS
  <1>3. /\ n \in Standing /\ n.pc = "client" /\ n.link = 1
        /\ n.layer = req[q].layer /\ n.client = req[q].client /\ n.kept = req[q].kept
    <2>1. "client" \in Phases /\ req[q] \in Standing /\ req[q].client \in Nat
      BY <1>1, Mover DEF Standing, Phases
    <2>2. 1 \in Nat \ {0}
      OBVIOUS
    <2> QED BY <1>2, <2>1, <2>2, Placed
  <1>4. RequestOK(n)
    <2>1. PICK k : k = Layer[req[q].layer]
      OBVIOUS
    <2>2. Inside(n, k)
      BY <1>1, <1>3, <2>1, Mover DEF Inside
    <2> QED BY <1>1, <1>3, <2>1, <2>2, Mover DEF RequestOK
  <1>5. req' = [req EXCEPT ![q] = n]
    <2>1. req[q] \in Standing /\ 1 \in Nat \ {0} /\ "client" \in Phases
      BY <1>1, Mover DEF Phases
    <2>2. n = [req[q] EXCEPT !.pc = "client", !.link = 1]
      BY <1>2, <2>1, Rewritten
    <2> QED BY <2>2 DEF Layers!NoTracer, Layers!Goto, LayersInv, LayersTyped
  <1> QED BY <1>3, <1>4, <1>5, OnlyMoves DEF Layers!NoTracer, Layers!config

(* The tracer and the configuration are nobody's handle.                   *)
LEMMA ServiceStep ==
  ASSUME LinksTyped, LayersInv, NEW q \in Request, NEW t \in {Layers!Tracer, Layers!Config},
         req[q].layer <= Len(Layer), Layers!Have(q, t), UNCHANGED handed,
         NEW n \in Standing, req' = [req EXCEPT ![q] = n], RequestOK(n)
  PROVE  LayersInv'
  <1>1. t \in Layers!Token
    BY DEF Layers!Token
  <1>2. Grows
    BY <1>1, Answering DEF Grows, LayersInv, LayersTyped
  <1>3. RequestOK(n)'
    BY <1>2, Lasting DEF LayersInv
  <1>4. \A u \in Layers!Token :
           \/ given'[u] = given[u]
           \/ \A k \in Linking : \A r \in Layers!Names(k) :
                u \in TokensOf(k, r) => MadeFor(given[u][1], k, r)'
    BY <1>1, Answering, TokenFacts DEF LayersInv, LayersTyped
  <1> QED BY <1>1, <1>2, <1>3, <1>4, Answering, RequestMoves DEF LayersInv, LayersTyped

LEMMA ResolveTracerStep ==
  ASSUME LinksTyped, LayersInv, NEW q \in Request, Layers!ResolveTracer(q)
  PROVE  LayersInv'
  <1>1. req[q].layer <= Len(Layer) /\ req[q].pc = "tracer"
    BY DEF Layers!ResolveTracer, Layers!At
  <1>2. CASE Layers!Have(q, Layers!Tracer) /\ UNCHANGED handed
             /\ req' = [req EXCEPT ![q].pc = "client", ![q].holds = FALSE]
    <2>1. PICK n : n = [req[q] EXCEPT !.pc = "client", !.holds = FALSE]
      OBVIOUS
    <2>2. /\ n \in Standing /\ n.pc = "client" /\ n.link = req[q].link
          /\ n.layer = req[q].layer /\ n.client = req[q].client /\ n.kept = req[q].kept
      BY <1>1, <2>1, Mover DEF Standing, Phases
    <2>3. RequestOK(n)
      BY <1>1, <2>2, Mover DEF RequestOK, Inside
    <2>4. req' = [req EXCEPT ![q] = n]
      BY <1>2, <2>1 DEF LayersInv, LayersTyped
    <2> QED BY <1>1, <1>2, <2>2, <2>3, <2>4, ServiceStep
  <1> QED BY <1>1, <1>2, LockSteps DEF Layers!ResolveTracer

LEMMA ResolveConfigStep ==
  ASSUME LinksTyped, LayersInv, NEW q \in Request, Layers!ResolveConfig(q)
  PROVE  LayersInv'
  <1> DEFINE k == Layers!Type(q)
  <1>1. req[q].layer <= Len(Layer) /\ req[q].pc = "config"
    BY DEF Layers!ResolveConfig, Layers!At
  <1>2. PICK stage : stage = IF "resources" \notin present THEN "failed"
                       ELSE IF k = "sqlDatabase" THEN "connect" ELSE "name"
    OBVIOUS
  <1>3. CASE Layers!Have(q, Layers!Config) /\ UNCHANGED handed
             /\ req' = [req EXCEPT ![q].pc = stage, ![q].holds = FALSE]
    <2>1. PICK n : n = [req[q] EXCEPT !.pc = stage, !.holds = FALSE]
      OBVIOUS
    <2>2. /\ n \in Standing /\ n.pc = stage /\ n.link = req[q].link
          /\ n.layer = req[q].layer /\ n.client = req[q].client /\ n.kept = req[q].kept
      BY <1>1, <1>2, <2>1, Mover DEF Standing, Phases
    <2>3. /\ k \in Linking /\ k = Layer[req[q].layer] /\ Inside(req[q], k)
          /\ Len(Link[k]) \in Nat
      BY <1>1, Mover, LinkFacts
    <2>4. Inside(n, k)
      BY <1>1, <1>2, <2>2, <2>3 DEF Inside
    <2>5. RequestOK(n)
      BY <1>1, <2>2, <2>3, <2>4, Mover DEF RequestOK
    <2>6. req' = [req EXCEPT ![q] = n]
      BY <1>3, <2>1 DEF LayersInv, LayersTyped
    <2> QED BY <1>1, <1>3, <2>2, <2>5, <2>6, ServiceStep
  <1> QED BY <1>1, <1>2, <1>3, LockSteps DEF Layers!ResolveConfig, Layers!Sql

LEMMA OpenStep ==
  ASSUME LinksTyped, LayersInv, NEW q \in Request, Layers!Open(q)
  PROVE  LayersInv'
  <1> DEFINE k == Layers!Type(q)
  <1>1. req[q].layer <= Len(Layer) /\ req[q].pc = "client"
    BY DEF Layers!Open, Layers!At
  <1>2. /\ k \in Linking /\ Layers!Linked(q) = Link[k] /\ k = Layer[req[q].layer]
        /\ Inside(req[q], k) /\ req[q] \in Standing /\ RequestOK(req[q])
        /\ Len(Link[k]) \in Nat
    BY <1>1, Mover, LinkFacts
  <1>3. PICK c : c = made + 1
    OBVIOUS
  <1>4. made \in Nat /\ c \in Nat /\ c # 0 /\ made' = c /\ made <= c
    BY <1>3 DEF Layers!Open, LayersInv, LayersTyped
  <1>5. PICK stage : stage = IF Link[k] = <<>> THEN "done" ELSE "config"
    OBVIOUS
  <1>6. PICK n : n = [req[q] EXCEPT !.client = c, !.pc = stage]
    OBVIOUS
  <1>7. /\ n \in Standing /\ n.pc = stage /\ n.link = req[q].link /\ n.client = c
        /\ n.layer = req[q].layer /\ n.kept = req[q].kept
    BY <1>2, <1>4, <1>5, <1>6 DEF Standing, Phases
  <1>8. UNCHANGED <<served, known, flags, handed, given>>
    BY DEF Layers!Open, Layers!config
  <1>9. Grows
    BY <1>4, <1>8 DEF Grows, LayersInv, LayersTyped
  <1>10. stage = "config" => Len(Link[k]) # 0
    <2>1. \A R : \A s \in Seq(R) : s # <<>> => Len(s) # 0
      OBVIOUS
    <2> QED BY <1>2, <1>5, <2>1 DEF LinksTyped
  <1>11. stage = "done" => AllReached(k)
    <2>1. Link[k] = <<>> => DOMAIN Link[k] = {} /\ Len(Link[k]) = 0
      OBVIOUS
    <2>2. Link[k] = <<>> => Layers!Names(k) = {} /\ Defaults(k) = {}
      BY <2>1 DEF Layers!Names, Defaults
    <2>3. Link[k] = <<>> => AllReached(k)
      BY <2>2 DEF AllReached
    <2> QED BY <1>5, <2>3
  <1>12. RequestOK(n)'
    <2>1. PICK l : l = k
      OBVIOUS
    <2>2. PICK m : m = req[q]
      OBVIOUS
    <2>3. l \in Linking /\ m \in Standing /\ RequestOK(m)' /\ m.layer <= Len(Layer) /\ l = Layer[m.layer]
      BY <1>1, <1>2, <1>9, <2>1, <2>2, Lasting DEF LayersInv
    <2>4. stage = "done" => AllReached(l)'
      BY <1>2, <1>9, <1>11, <2>1, Lasting DEF LayersInv
    <2>5. Inside(m, l)'
      BY <2>3 DEF RequestOK
    <2>6. Inside(n, l)'
      BY <1>1, <1>2, <1>4, <1>5, <1>7, <1>10, <2>1, <2>2, <2>4, <2>5 DEF Inside
    <2>7. n.client <= made' /\ n.layer = m.layer /\ n.kept = m.kept
      BY <1>4, <1>7, <2>2
    <2> QED BY <2>3, <2>6, <2>7 DEF RequestOK
  <1>13. req' = [req EXCEPT ![q] = n]
    BY <1>2, <1>4, <1>5, <1>6 DEF Layers!Open, LayersInv, LayersTyped
  <1> QED BY <1>7, <1>8, <1>9, <1>12, <1>13, RequestMoves DEF LayersInv, LayersTyped

LEMMA FailingSteps ==
  ASSUME LinksTyped, LayersInv, NEW q \in Request,
         Layers!OpenFails(q) \/ Layers!KeyMissing(q) \/ Layers!ConnectFails(q)
  PROVE  LayersInv'
  BY Failing DEF Layers!OpenFails, Layers!KeyMissing, Layers!ConnectFails, Layers!At, Layers!config

(* A link's handles are registered; the request goes on to the next link,  *)
(* to the default, or to the end.                                          *)
LEMMA AfterLinkOK ==
  ASSUME LinksTyped, LayersInv, Grows, NEW q \in Request, req[q].layer <= Len(Layer),
         req[q].pc \in {"name", "connect"}, NEW k, k = Layers!Type(q),
         NEW r, r = Link[k][req[q].link].name, Reached(k, r)',
         NEW n, n = Layers!AfterLink(q)
  PROVE  n \in Standing /\ RequestOK(n)'
  <1>1. /\ k \in Linking /\ Layers!Linked(q) = Link[k] /\ k = Layer[req[q].layer]
        /\ Inside(req[q], k) /\ req[q] \in Standing /\ RequestOK(req[q])
        /\ Len(Link[k]) \in Nat
    BY Mover, LinkFacts
  <1>2. PICK m : m = req[q]
    OBVIOUS
  <1>3. RequestOK(m)' /\ m \in Standing /\ m.layer <= Len(Layer) /\ k = Layer[m.layer]
    BY <1>1, <1>2, Lasting DEF LayersInv
  <1>4. Inside(m, k)'
    BY <1>3 DEF RequestOK
  <1>5. \/ m.link < Len(Link[k]) /\ n = [m EXCEPT !.link = m.link + 1]
        \/ m.link = Len(Link[k]) /\ Len(Link[k]) = 1 /\ n = [m EXCEPT !.pc = "default"]
        \/ m.link = Len(Link[k]) /\ Len(Link[k]) # 1 /\ n = [m EXCEPT !.pc = "done"]
    <2>1. m.link \in Nat /\ m.link <= Len(Link[k])
      BY <1>1, <1>2 DEF Inside, Standing
    <2>2. n = CASE m.link < Len(Link[k]) -> [m EXCEPT !.link = @ + 1]
                [] Len(Link[k]) = 1 -> [m EXCEPT !.pc = "default"]
                [] OTHER -> [m EXCEPT !.pc = "done"]
      BY <1>1, <1>2 DEF Layers!AfterLink
    <2>3. CASE m.link < Len(Link[k])
      <3>1. Len(Link[k]) # 1
        <4>1. m.link # 0
          BY <1>1, <1>2 DEF Standing
        <4>2. \A i, l \in Nat : i # 0 /\ i < l => l # 1
          OBVIOUS
        <4> QED BY <1>1, <2>1, <2>3, <4>1, <4>2
      <3>2. n = [m EXCEPT !.link = @ + 1]
        BY <2>2, <2>3, <3>1
      <3> QED BY <2>3, <3>2
    <2>4. CASE ~(m.link < Len(Link[k]))
      <3>1. m.link = Len(Link[k])
        BY <1>1, <2>1, <2>4
      <3>2. CASE Len(Link[k]) = 1
        BY <2>2, <2>4, <3>1, <3>2
      <3>3. CASE Len(Link[k]) # 1
        BY <2>2, <2>4, <3>1, <3>3
      <3> QED BY <3>2, <3>3
    <2> QED BY <2>3, <2>4
  <1>6. m.link \in Nat \ {0} /\ m.pc \in {"name", "connect"}
    BY <1>2, <1>3 DEF Standing
  <1>7. \A i \in 1..m.link : Reached(k, Link[k][i].name)'
    BY <1>2, <1>4, <1>6 DEF Inside
  <1>8. CASE m.link < Len(Link[k])
    <2>1. PICK i : i = m.link + 1 /\ i \in Nat \ {0}
      BY <1>6
    <2>2. n = [m EXCEPT !.link = i]
      BY <1>5, <1>8, <2>1
    <2>3. /\ n \in Standing /\ n.link = i /\ n.pc = m.pc
          /\ n.layer = m.layer /\ n.kept = m.kept /\ n.client = m.client
      BY <1>3, <2>1, <2>2 DEF Standing
    <2>4. Inside(n, k)'
      <3>1. n.link - 1 = m.link /\ n.link <= Len(Link[k])
        BY <1>1, <1>6, <1>8, <2>1, <2>3
      <3>2. \A j \in 1..(n.link - 1) : Reached(k, Link[k][j].name)'
        BY <1>7, <3>1
      <3> QED BY <1>4, <1>6, <2>3, <3>1, <3>2 DEF Inside
    <2> QED BY <1>3, <2>3, <2>4 DEF RequestOK
  <1>9. ASSUME NEW stage \in {"default", "done"}, n = [m EXCEPT !.pc = stage],
               stage = "default" => Len(Link[k]) = 1,
               stage = "done" => Len(Link[k]) # 1,
               m.link = Len(Link[k])
        PROVE  n \in Standing /\ RequestOK(n)'
    <2>1. /\ n \in Standing /\ n.link = m.link /\ n.pc = stage
          /\ n.layer = m.layer /\ n.kept = m.kept /\ n.client = m.client
      BY <1>3, <1>9 DEF Standing, Phases
    <2>2. stage = "done" => AllReached(k)'
      <3>1. ASSUME NEW s \in Layers!Names(k) PROVE Reached(k, s)'
        <4>1. PICK j \in 1..Len(Link[k]) : s = Link[k][j].name
          BY <1>1, LinkFacts
        <4> QED BY <1>7, <1>9, <4>1
      <3>2. stage = "done" => Defaults(k) = {}
        BY <1>9 DEF Defaults
      <3> QED BY <3>1, <3>2 DEF AllReached, Defaults, Layers!Names
    <2>3. stage = "default" => Reached(k, Link[k][1].name)'
      BY <1>7, <1>9
    <2>4. m.client # 0 \/ k = "sqlDatabase"
      BY <1>4, <1>6 DEF Inside
    <2>5. Inside(n, k)'
      BY <1>4, <1>9, <2>1, <2>2, <2>3, <2>4 DEF Inside
    <2> QED BY <1>3, <2>1, <2>5 DEF RequestOK
  <1> QED BY <1>5, <1>8, <1>9

LEMMA Unmoved ==
  ASSUME UNCHANGED <<made, known>>
  PROVE  \A h, k, r : MadeFor(h, k, r)' <=> MadeFor(h, k, r)
  BY DEF MadeFor, Layers!KeyOf, Layers!Names

LEMMA NameResourceStep ==
  ASSUME LinksTyped, LayersInv, NEW q \in Request, Layers!NameResource(q)
  PROVE  LayersInv'
  <1>1. PICK k : k = Layers!Type(q)
    OBVIOUS
  <1>2. req[q].layer <= Len(Layer) /\ req[q].pc = "name"
    BY DEF Layers!NameResource, Layers!At
  <1>3. /\ k \in Linking /\ Layers!Linked(q) = Link[k] /\ k = Layer[req[q].layer]
        /\ Inside(req[q], k) /\ req[q] \in Standing /\ RequestOK(req[q])
        /\ Len(Link[k]) \in Nat
    BY <1>1, <1>2, Mover, LinkFacts
  <1>4. PICK i : i = req[q].link
    OBVIOUS
  <1>5. i \in 1..Len(Link[k]) /\ k # "sqlDatabase" /\ req[q].client # 0
    BY <1>2, <1>3, <1>4 DEF Inside, Standing
  <1>6. PICK r, c : r = Link[k][i].name /\ c = Link[k][i].key
    OBVIOUS
  <1>7. /\ r \in Layers!Names(k) /\ c \in Layers!Key /\ Layers!KeyOf(k, r) = c
        /\ TokensOf(k, r) = {<<k, r>>} /\ <<k, r>> \in Layers!Token
    BY <1>3, <1>5, <1>6, LinkFacts, TokenFacts
  <1>8. PICK h : h = [client |-> req[q].client, name |-> served[c]]
    OBVIOUS
  <1>9. served[c] # Absent /\ handed' = [handed EXCEPT ![<<k, r>>] = h]
        /\ req' = [req EXCEPT ![q] = Layers!AfterLink(q)]
        /\ UNCHANGED <<served, known, flags, given, made>>
    BY <1>1, <1>3, <1>4, <1>6, <1>8 DEF Layers!NameResource, Layers!config
  <1>10. h \in MadeHandle /\ MadeFor(h, k, r)
    BY <1>3, <1>5, <1>7, <1>8, <1>9
       DEF MadeHandle, MadeFor, RequestOK, Standing, LayersInv, LayersTyped
  <1>11. MadeFor(h, k, r)' /\ handed'[<<k, r>>] = h
    BY <1>7, <1>9, <1>10, Unmoved DEF LayersInv, LayersTyped
  <1>12. Grows
    BY <1>3, <1>7, <1>9, <1>11, TokenFacts DEF Grows, LayersInv, LayersTyped
  <1>13. Reached(k, r)'
    <2>1. TokensOf(k, r)' = {<<k, r>>}
      BY <1>7 DEF TokensOf, Layers!Tokens, Layers!Names
    <2>2. ASSUME NEW t \in TokensOf(k, r)' PROVE MadeFor(handed[t], k, r)'
      BY <1>11, <2>1, <2>2
    <2> QED BY <2>2 DEF Reached
  <1>14. PICK n : n = Layers!AfterLink(q)
    OBVIOUS
  <1>15. n \in Standing /\ RequestOK(n)' /\ req' = [req EXCEPT ![q] = n]
    BY <1>1, <1>2, <1>4, <1>6, <1>9, <1>12, <1>13, <1>14, AfterLinkOK
  <1> QED BY <1>9, <1>10, <1>12, <1>15, RequestMoves DEF LayersInv, LayersTyped

(* The handles of one resource are registered.                             *)
LEMMA Writing ==
  ASSUME LinksTyped, LayersInv, NEW k \in Linking, NEW r \in Layers!Names(k) \cup Defaults(k),
         made' \in Nat, made <= made', UNCHANGED known,
         \A t \in TokensOf(k, r) : MadeFor(handed[t], k, r)',
         \A t \in Layers!Token \ TokensOf(k, r) : handed'[t] = handed[t]
  PROVE  Grows /\ Reached(k, r)'
  <1>1. Grows
    BY TokenFacts DEF Grows
  <1>2. TokensOf(k, r)' = TokensOf(k, r)
    BY DEF TokensOf, Layers!Tokens, Layers!Names
  <1> QED BY <1>1, <1>2 DEF Reached

(* The last registration, of the only resource's default.                  *)
LEMMA Ending ==
  ASSUME LinksTyped, LayersInv, NEW q \in Request, req[q].layer <= Len(Layer),
         req[q].pc = "default", NEW k, k = Layers!Type(q), Grows, Reached(k, "default")',
         NEW n \in Standing, n.pc = "done", n.layer = req[q].layer, n.kept = req[q].kept,
         n.client = req[q].client
  PROVE  RequestOK(n)'
  <1>1. /\ k \in Linking /\ k = Layer[req[q].layer]
        /\ Inside(req[q], k) /\ req[q] \in Standing /\ RequestOK(req[q])
        /\ Len(Link[k]) = 1 /\ Reached(k, Link[k][1].name)
    BY Mover DEF Inside
  <1>2. PICK m : m = req[q]
    OBVIOUS
  <1>3. RequestOK(m)' /\ m \in Standing /\ m.layer <= Len(Layer) /\ k = Layer[m.layer]
    BY <1>1, <1>2, Lasting DEF LayersInv
  <1>4. Inside(m, k)'
    BY <1>3 DEF RequestOK
  <1>5. AllReached(k)'
    <2>1. PICK s : s = Link[k][1].name
      OBVIOUS
    <2>2. Layers!Names(k) = {s} /\ Defaults(k) = {"default"}
      BY <1>1, <2>1, LinkFacts DEF Defaults
    <2>3. Reached(k, s)'
      BY <1>1, <2>1, <2>2, Lasting DEF LayersInv
    <2>4. \A r \in {s, "default"} : Reached(k, r)'
      BY <2>3
    <2>5. Layers!Names(k)' \cup Defaults(k)' = {s, "default"}
      BY <2>2 DEF Layers!Names, Defaults
    <2> QED BY <2>4, <2>5 DEF AllReached
  <1>6. Inside(n, k)'
    <2>1. n.kept # <<>> => Len(Link[k]) = 1
      BY <1>1
    <2>2. \A i \in 1..Len(n.kept) : MadeFor(n.kept[i], k, Link[k][1].name)'
      BY <1>2, <1>4 DEF Inside
    <2> QED BY <1>5, <2>1, <2>2 DEF Inside
  <1> QED BY <1>2, <1>3, <1>6 DEF RequestOK

LEMMA NameDefaultStep ==
  ASSUME LinksTyped, LayersInv, NEW q \in Request, Layers!NameDefault(q)
  PROVE  LayersInv'
  <1>1. PICK k : k = Layers!Type(q)
    OBVIOUS
  <1>2. req[q].layer <= Len(Layer) /\ req[q].pc = "default" /\ k # "sqlDatabase"
    BY <1>1 DEF Layers!NameDefault, Layers!At, Layers!Sql
  <1>3. /\ k \in Linking /\ Layers!Linked(q) = Link[k] /\ k = Layer[req[q].layer]
        /\ Inside(req[q], k) /\ req[q] \in Standing /\ RequestOK(req[q])
        /\ Len(Link[k]) = 1 /\ req[q].client # 0
    BY <1>1, <1>2, Mover DEF Inside
  <1>4. PICK c : c = Link[k][1].key
    OBVIOUS
  <1>5. /\ "default" \in Layers!Names(k) \cup Defaults(k)
        /\ c \in Layers!Key /\ Layers!KeyOf(k, "default") = c
        /\ TokensOf(k, "default") = {<<k, "default">>} /\ <<k, "default">> \in Layers!Token
    <2>1. "default" \in Layers!Names(k) \cup Defaults(k)
      BY <1>3 DEF Defaults
    <2>2. c \in Layers!Key /\ Layers!KeyOf(k, "default") = c
      BY <1>3, <1>4, LinkFacts
    <2>3. TokensOf(k, "default") = {<<k, "default">>}
      BY <1>2, <1>3, TokenFacts
    <2>4. TokensOf(k, "default") \subseteq Layers!Token
      BY <1>3, TokenFacts
    <2> QED BY <2>1, <2>2, <2>3, <2>4
  <1>6. PICK h : h = [client |-> req[q].client, name |-> served[c]]
    OBVIOUS
  <1>7. PICK n : n = [layer |-> req[q].layer, pc |-> "done", link |-> 1, client |-> req[q].client,
                      holds |-> req[q].holds, kept |-> req[q].kept]
    OBVIOUS
  <1>8. served[c] # Absent /\ handed' = [handed EXCEPT ![<<k, "default">>] = h]
        /\ req' = [req EXCEPT ![q].pc = "done", ![q].link = 1]
        /\ UNCHANGED <<served, known, flags, given, made>>
    BY <1>1, <1>3, <1>4, <1>6
       DEF Layers!NameDefault, Layers!Goto, Layers!config, Layers!Default
  <1>9. h \in MadeHandle /\ MadeFor(h, k, "default")
    BY <1>3, <1>5, <1>6, <1>8
       DEF MadeHandle, MadeFor, RequestOK, Standing, LayersInv, LayersTyped
  <1>10. MadeFor(h, k, "default")' /\ handed'[<<k, "default">>] = h
    BY <1>5, <1>8, <1>9, Unmoved DEF LayersInv, LayersTyped
  <1>11. Grows /\ Reached(k, "default")'
    <2>1. \A t \in TokensOf(k, "default") : MadeFor(handed[t], k, "default")'
      BY <1>5, <1>10
    <2>2. \A t \in Layers!Token \ TokensOf(k, "default") : handed'[t] = handed[t]
      BY <1>5, <1>8 DEF LayersInv, LayersTyped
    <2> QED BY <1>3, <1>5, <1>8, <2>1, <2>2, Writing DEF LayersInv, LayersTyped
  <1>12. "done" \in Phases /\ 1 \in Nat \ {0} /\ req[q].client \in Nat
    BY <1>3 DEF Phases, Standing
  <1>13. /\ n \in Standing /\ n.pc = "done" /\ n.layer = req[q].layer
         /\ n.kept = req[q].kept /\ n.client = req[q].client
    BY <1>3, <1>7, <1>12, Placed
  <1>14. req' = [req EXCEPT ![q] = n]
    <2>1. n = [req[q] EXCEPT !.pc = "done", !.link = 1]
      BY <1>3, <1>7, <1>12, Rewritten
    <2> QED BY <1>8, <2>1 DEF LayersInv, LayersTyped
  <1>15. RequestOK(n)'
    BY <1>1, <1>2, <1>11, <1>13, Ending
  <1> QED BY <1>8, <1>9, <1>11, <1>13, <1>14, <1>15, RequestMoves DEF LayersInv, LayersTyped

LEMMA ConnectStep ==
  ASSUME LinksTyped, LayersInv, NEW q \in Request, Layers!ConnectDatabase(q)
  PROVE  LayersInv'
  <1>1. PICK k : k = Layers!Type(q)
    OBVIOUS
  <1>2. req[q].layer <= Len(Layer) /\ req[q].pc = "connect"
    BY DEF Layers!ConnectDatabase, Layers!At
  <1>3. /\ k \in Linking /\ Layers!Linked(q) = Link[k] /\ k = "sqlDatabase"
        /\ Inside(req[q], k) /\ req[q] \in Standing /\ Len(Link[k]) \in Nat
    BY <1>1, <1>2, Mover, LinkFacts DEF Inside
  <1>4. PICK i : i = req[q].link
    OBVIOUS
  <1>5. i \in 1..Len(Link[k])
    BY <1>2, <1>3, <1>4 DEF Inside, Standing
  <1>6. PICK r, c : r = Link[k][i].name /\ c = Link[k][i].key
    OBVIOUS
  <1>7. /\ r \in Layers!Names(k) /\ c \in Layers!Key /\ Layers!KeyOf(k, r) = c
        /\ TokensOf(k, r) = {Layers!SqlToken(j, r) : j \in 1..4}
        /\ TokensOf(k, r) \subseteq Layers!Token
    BY <1>3, <1>5, <1>6, LinkFacts, TokenFacts
  <1>8. PICK h : h = [client |-> made + 1, name |-> served[c]]
    OBVIOUS
  <1>9. /\ served[c] # Absent /\ made' = made + 1
        /\ handed' = [t \in Layers!Token |->
              IF \E j \in 1..4 : t = Layers!SqlToken(j, r) THEN h ELSE handed[t]]
        /\ req' = [req EXCEPT ![q] = Layers!AfterLink(q)]
        /\ UNCHANGED <<served, known, flags, given>>
    BY <1>1, <1>3, <1>4, <1>6, <1>8 DEF Layers!ConnectDatabase, Layers!config
  <1>10. /\ made \in Nat /\ made' \in Nat /\ made <= made' /\ made' \in 1..made'
         /\ h.client = made' /\ h.name = served[c] /\ h \in MadeHandle
         /\ served[c] \in known'[c] \ {Absent}
    BY <1>7, <1>8, <1>9 DEF MadeHandle, LayersInv, LayersTyped
  <1>11. MadeFor(h, k, r)'
    <2>1. Layers!KeyOf(k, r)' = c
      BY <1>7 DEF Layers!KeyOf, Layers!Names
    <2> QED BY <1>10, <2>1 DEF MadeFor
  <1>12. Grows /\ Reached(k, r)'
    <2>1. \A t \in TokensOf(k, r) : handed'[t] = h
      BY <1>7, <1>9
    <2>2. \A t \in TokensOf(k, r) : MadeFor(handed[t], k, r)'
      BY <1>11, <2>1
    <2>3. \A t \in Layers!Token \ TokensOf(k, r) : handed'[t] = handed[t]
      BY <1>7, <1>9
    <2> QED BY <1>3, <1>7, <1>9, <1>10, <2>2, <2>3, Writing
  <1>13. PICK n : n = Layers!AfterLink(q)
    OBVIOUS
  <1>14. n \in Standing /\ RequestOK(n)' /\ req' = [req EXCEPT ![q] = n]
    BY <1>1, <1>2, <1>4, <1>6, <1>9, <1>12, <1>13, AfterLinkOK
  <1>15. handed' \in [Layers!Token -> MadeHandle]
    BY <1>9, <1>10 DEF LayersInv, LayersTyped
  <1> QED BY <1>9, <1>12, <1>14, <1>15, RequestMoves DEF LayersInv, LayersTyped

LEMMA AliasStep ==
  ASSUME LinksTyped, LayersInv, NEW q \in Request, Layers!AliasDatabase(q)
  PROVE  LayersInv'
  <1>1. PICK k : k = Layers!Type(q)
    OBVIOUS
  <1>2. req[q].layer <= Len(Layer) /\ req[q].pc = "default" /\ k = "sqlDatabase"
    BY <1>1 DEF Layers!AliasDatabase, Layers!At, Layers!Sql
  <1>3. PICK m : m = req[q]
    OBVIOUS
  <1>4. /\ k \in Linking /\ Layers!Linked(q) = Link[k] /\ k = Layer[m.layer]
        /\ Inside(m, k) /\ m \in Standing /\ RequestOK(m) /\ Len(Link[k]) = 1
        /\ m.kept \in Seq(MadeHandle) /\ Len(m.kept) \in 0..3 /\ m.layer <= Len(Layer)
        /\ m.layer \in Nat /\ m.pc = "default"
    <2>1. /\ k \in Linking /\ Layers!Linked(q) = Link[k] /\ k = Layer[m.layer]
          /\ Inside(m, k) /\ m \in Standing /\ RequestOK(m)
      BY <1>1, <1>2, <1>3, Mover
    <2>2. m.kept \in Seq(MadeHandle) /\ Len(m.kept) \in Nat /\ m.layer \in Nat
      BY <2>1 DEF Standing
    <2>3. Len(m.kept) <= 3
      BY <2>1 DEF RequestOK
    <2>4. m.pc = "default" /\ m.layer <= Len(Layer)
      BY <1>2, <1>3
    <2>5. Len(Link[k]) = 1
      BY <2>1, <2>4 DEF Inside
    <2>6. Len(m.kept) \in 0..3
      <3>1. \A a \in Nat : a <= 3 => a \in 0..3
        OBVIOUS
      <3> QED BY <2>2, <2>3, <3>1
    <2> QED BY <2>1, <2>2, <2>4, <2>5, <2>6
  <1>5. PICK r : r = Link[k][1].name
    OBVIOUS
  <1>6. PICK i : i = Len(m.kept) + 1
    OBVIOUS
  <1>7. PICK t : t = Layers!SqlToken(i, r)
    OBVIOUS
  <1>8. /\ i \in 1..4 /\ r \in Layers!Names(k)
        /\ t \in TokensOf(k, r) /\ t \in Layers!Token
        /\ Reached(k, r)
    <2>1. i \in 1..4
      <3>1. \A a \in 0..3 : a + 1 \in 1..4
        OBVIOUS
      <3> QED BY <1>4, <1>6, <3>1
    <2>2. r \in Layers!Names(k)
      BY <1>4, <1>5, LinkFacts
    <2>3. t \in TokensOf(k, r)
      BY <1>2, <1>4, <1>7, <2>1, <2>2, TokenFacts
    <2> QED BY <1>4, <1>5, <2>1, <2>2, <2>3, TokenFacts DEF Inside
  <1>9. PICK held : held = Append(m.kept, Layers!Resolved(t))
    OBVIOUS
  <1>10. ASSUME Layers!Have(q, t),
                \/ i < 4 /\ req' = [req EXCEPT ![q].kept = held, ![q].holds = FALSE]
                   /\ UNCHANGED handed
                \/ /\ i = 4 /\ req' = [req EXCEPT ![q].pc = "done", ![q].holds = FALSE]
                   /\ handed' = [d \in Layers!Token |->
                         IF \E j \in 1..4 : d = Layers!SqlToken(j, "default")
                         THEN held[CHOOSE j \in 1..4 : d = Layers!SqlToken(j, "default")]
                         ELSE handed[d]]
         PROVE  LayersInv'
    <2>1. /\ UNCHANGED <<served, known, flags, made>>
          /\ Layers!Resolved(t) \in MadeHandle
          /\ given' = [given EXCEPT ![t] = <<Layers!Resolved(t)>>]
          /\ given' \in [Layers!Token -> {<<>>} \cup {<<h>> : h \in MadeHandle}]
          /\ MadeFor(Layers!Resolved(t), k, r)
      BY <1>4, <1>8, <1>10, Answering
    <2>2. /\ held \in Seq(MadeHandle) /\ Len(held) = i
          /\ \A j \in 1..i : MadeFor(held[j], k, r) /\ held[j] \in MadeHandle
      <3>1. \A j \in 1..Len(m.kept) : MadeFor(m.kept[j], k, r)
        BY <1>4, <1>5 DEF Inside
      <3>2. \A s \in Seq(MadeHandle) : \A h \in MadeHandle :
              /\ Append(s, h) \in Seq(MadeHandle) /\ Len(Append(s, h)) = Len(s) + 1
              /\ \A j \in 1..(Len(s) + 1) :
                   Append(s, h)[j] = IF j <= Len(s) THEN s[j] ELSE h
              /\ \A j \in 1..Len(s) : s[j] \in MadeHandle
        OBVIOUS
      <3> QED BY <1>4, <1>6, <1>9, <2>1, <3>1, <3>2
    <2>3. Grows => \A u \in Layers!Token :
             \/ given'[u] = given[u]
             \/ \A l \in Linking : \A s \in Layers!Names(l) :
                  u \in TokensOf(l, s) => MadeFor(given[u][1], l, s)'
      <3>1. MadeFor(given[t][1], k, r)'
        BY <1>8, <2>1, Unmoved DEF LayersInv, LayersTyped
      <3> QED BY <1>4, <1>8, <2>1, <3>1, TokenFacts DEF LayersInv, LayersTyped
    <2>4. CASE i < 4 /\ req' = [req EXCEPT ![q].kept = held, ![q].holds = FALSE] /\ UNCHANGED handed
      <3>1. PICK n : n = [m EXCEPT !.kept = held, !.holds = FALSE]
        OBVIOUS
      <3>2. /\ n \in Standing /\ n.pc = m.pc /\ n.link = m.link
            /\ n.layer = m.layer /\ n.client = m.client /\ n.kept = held
        BY <1>4, <2>2, <3>1 DEF Standing
      <3>3. Inside(n, k)
        BY <1>4, <1>5, <2>2, <3>2 DEF Inside
      <3>4. RequestOK(n)
        BY <1>4, <1>8, <2>2, <2>4, <3>2, <3>3 DEF RequestOK
      <3>5. req' = [req EXCEPT ![q] = n]
        BY <1>3, <2>4, <3>1 DEF LayersInv, LayersTyped
      <3>6. Grows
        BY <2>1, <2>4 DEF Grows, LayersInv, LayersTyped
      <3>7. RequestOK(n)'
        BY <3>2, <3>4, <3>6, Lasting DEF LayersInv
      <3> QED BY <2>1, <2>3, <2>4, <3>2, <3>5, <3>6, <3>7, RequestMoves DEF LayersInv, LayersTyped
    <2>5. CASE /\ i = 4 /\ req' = [req EXCEPT ![q].pc = "done", ![q].holds = FALSE]
               /\ handed' = [d \in Layers!Token |->
                     IF \E j \in 1..4 : d = Layers!SqlToken(j, "default")
                     THEN held[CHOOSE j \in 1..4 : d = Layers!SqlToken(j, "default")]
                     ELSE handed[d]]
      <3>1. PICK n : n = [m EXCEPT !.pc = "done", !.holds = FALSE]
        OBVIOUS
      <3>2. /\ n \in Standing /\ n.pc = "done" /\ n.link = m.link
            /\ n.layer = m.layer /\ n.client = m.client /\ n.kept = m.kept
        BY <1>4, <3>1 DEF Standing, Phases
      <3>3. req' = [req EXCEPT ![q] = n]
        BY <1>3, <2>5, <3>1 DEF LayersInv, LayersTyped
      <3>4. /\ "default" \in Layers!Names(k) \cup Defaults(k)
            /\ TokensOf(k, "default") = {Layers!SqlToken(j, "default") : j \in 1..4}
            /\ Layers!KeyOf(k, "default") = Layers!KeyOf(k, r)
            /\ TokensOf(k, "default") \subseteq Layers!Token
        <4>1. TokensOf(k, "default") = {Layers!SqlToken(j, "default") : j \in 1..4}
          BY <1>2, <1>4, TokenFacts
        <4>2. Layers!KeyOf(k, "default") = Layers!KeyOf(k, r)
          BY <1>4, <1>5, LinkFacts
        <4>3. "default" \in Layers!Names(k) \cup Defaults(k)
          BY <1>4 DEF Defaults
        <4> QED BY <1>4, <4>1, <4>2, <4>3, TokenFacts
      <3>5. \A h : MadeFor(h, k, r) => MadeFor(h, k, "default")
        BY <3>4 DEF MadeFor
      <3>6. \A d \in TokensOf(k, "default") : \E j \in 1..4 : handed'[d] = held[j]
        BY <2>5, <3>4
      <3>7. \A d \in Layers!Token \ TokensOf(k, "default") : handed'[d] = handed[d]
        BY <2>5, <3>4
      <3>8. ASSUME NEW d \in TokensOf(k, "default") PROVE MadeFor(handed[d], k, "default")'
        <4>1. PICK h : h = handed'[d]
          OBVIOUS
        <4>2. MadeFor(h, k, "default")
          BY <2>2, <2>5, <3>5, <3>6, <4>1
        <4>3. MadeFor(h, k, "default")'
          BY <2>1, <4>2, Unmoved
        <4> QED BY <4>1, <4>3
      <3>9. Grows /\ Reached(k, "default")'
        BY <1>4, <2>1, <3>4, <3>7, <3>8, Writing DEF LayersInv, LayersTyped
      <3>10. RequestOK(n)'
        BY <1>1, <1>2, <1>3, <3>2, <3>9, Ending
      <3>11. handed' \in [Layers!Token -> MadeHandle]
        <4>1. \A d \in Layers!Token : handed'[d] \in MadeHandle
          BY <2>2, <2>5, <3>4, <3>6, <3>7 DEF LayersInv, LayersTyped
        <4> QED BY <2>5, <4>1
      <3> QED BY <2>1, <2>3, <3>2, <3>3, <3>9, <3>10, <3>11, RequestMoves DEF LayersInv, LayersTyped
    <2> QED BY <1>10, <2>4, <2>5
  <1>11. CASE Layers!Lock(q, t) \/ Layers!Refuse(q, t)
    BY <1>2, <1>11, LockSteps
  <1>12. i < 4 \/ i = 4
    BY <1>8
  <1>13. /\ Layers!Linked(q)[1].name = r /\ Len(req[q].kept) + 1 = i
         /\ Layers!SqlToken(i, r) = t /\ Append(req[q].kept, Layers!Resolved(t)) = held
    BY <1>3, <1>4, <1>5, <1>6, <1>7, <1>9
  <1> QED
    BY <1>10, <1>11, <1>12, <1>13 DEF Layers!AliasDatabase, Layers!Default

LEMMA AllStand ==
  ASSUME LinksTyped, LayersInv, LayersTyped', Grows,
         UNCHANGED <<flags, handed, given, made, req>>
  PROVE  LayersInv'
  <1>1. ASSUME NEW q \in Request PROVE RequestOK(req[q])'
    <2>1. PICK m : m = req[q]
      OBVIOUS
    <2>2. m \in Standing /\ RequestOK(m)
      BY <2>1 DEF LayersInv, LayersTyped
    <2>3. RequestOK(m)' /\ req'[q] = m
      BY <2>1, <2>2, Lasting DEF LayersInv
    <2> QED BY <2>3
  <1>2. \A i \in DOMAIN Layer : flags'[i] => AllReached(Layer[i])'
    BY Layered, Lasting DEF LayersInv
  <1>3. GivenOK'
    <2>1. Linking' = Linking
      BY DEF Linking
    <2>2. \A k : Layers!Names(k)' = Layers!Names(k)
      BY DEF Layers!Names
    <2>3. \A k, r : TokensOf(k, r)' = TokensOf(k, r)
      BY DEF TokensOf, Layers!Tokens, Layers!Names
    <2>4. SUFFICES ASSUME NEW k \in Linking', NEW r \in Layers!Names(k)', NEW t \in TokensOf(k, r)',
                          (given[t] # <<>>)'
                   PROVE  MadeFor(given[t][1], k, r)'
      BY DEF GivenOK
    <2>5. PICK h : h = given[t][1]
      OBVIOUS
    <2>6. MadeFor(h, k, r)
      BY <2>1, <2>2, <2>3, <2>4, <2>5 DEF LayersInv, GivenOK
    <2>7. MadeFor(h, k, r)'
      BY <2>1, <2>2, <2>6, Lasting DEF LayersInv
    <2> QED BY <2>5, <2>7
  <1> QED BY <1>1, <1>2, <1>3 DEF LayersInv

(* The configuration changes; what it was is remembered.                   *)
LEMMA RefreshStep ==
  ASSUME LinksTyped, LayersInv, NEW c \in Layers!Key, NEW v \in Value \cup {Absent},
         Layers!Refresh(c, v)
  PROVE  LayersInv'
  <1>1. /\ served' = [served EXCEPT ![c] = v]
        /\ known' = [known EXCEPT ![c] = @ \cup {v}]
        /\ UNCHANGED <<flags, handed, given, made, req>>
    BY DEF Layers!Refresh
  <1>2. LayersTyped' /\ Grows
    BY <1>1 DEF LayersInv, LayersTyped, Grows
  <1> QED BY <1>1, <1>2, AllStand

(* The invariant is inductive.                                             *)
THEOREM LayersInvStep ==
  ASSUME LinksTyped PROVE LayersInv /\ [Layers!Next]_(Layers!vars) => LayersInv'
  <1> SUFFICES ASSUME LayersInv, [Layers!Next]_(Layers!vars) PROVE LayersInv'
    OBVIOUS
  <1>1. CASE UNCHANGED Layers!vars
    <2>1. UNCHANGED <<served, known, flags, handed, given, made, req>>
      BY <1>1 DEF Layers!vars
    <2>2. LayersTyped' /\ Grows
      BY <2>1 DEF Grows, LayersInv, LayersTyped
    <2> QED BY <2>1, <2>2, AllStand
  <1>2. CASE \E c \in Layers!Key, v \in Value \cup {Absent} : Layers!Refresh(c, v)
    BY <1>2, RefreshStep
  <1>3. ASSUME NEW q \in Request,
               \/ Layers!Pass(q) \/ Layers!Enter(q) \/ Layers!ResolveTracer(q)
               \/ Layers!NoTracer(q) \/ Layers!Open(q) \/ Layers!OpenFails(q)
               \/ Layers!ResolveConfig(q) \/ Layers!NameResource(q) \/ Layers!NameDefault(q)
               \/ Layers!KeyMissing(q) \/ Layers!ConnectDatabase(q) \/ Layers!ConnectFails(q)
               \/ Layers!AliasDatabase(q) \/ Layers!Finish(q)
        PROVE  LayersInv'
    BY <1>3, PassStep, EnterStep, ResolveTracerStep, NoTracerStep, OpenStep, FailingSteps,
       ResolveConfigStep, NameResourceStep, NameDefaultStep, ConnectStep, AliasStep, FinishStep
  <1> QED BY <1>1, <1>2, <1>3 DEF Layers!Next

(* It holds at first.                                                      *)
THEOREM InitLayersInv == ASSUME LinksTyped PROVE Layers!Init => LayersInv
  <1> SUFFICES ASSUME Layers!Init PROVE LayersInv
    OBVIOUS
  <1>1. /\ \A t \in Layers!Token : given[t] = <<>>
        /\ given = [t \in Layers!Token |-> <<>>]
        /\ handed = [t \in Layers!Token |-> [client |-> 0, name |-> Absent]]
        /\ made = 0 /\ flags = [i \in DOMAIN Layer |-> FALSE]
        /\ known = [c \in Layers!Key |-> {served[c]}]
        /\ served \in [Layers!Key -> {CHOOSE v \in Value : TRUE, Absent}]
        /\ req = [q \in Request |-> [layer |-> 1, pc |-> "enter", link |-> 1, client |-> 0,
                                     holds |-> FALSE, kept |-> <<>>]]
    BY DEF Layers!Init, Layers!None
  <1>2. PICK m : m = [layer |-> 1, pc |-> "enter", link |-> 1, client |-> 0,
                      holds |-> FALSE, kept |-> <<>>]
    OBVIOUS
  <1>3. m \in Standing
    <2>1. 1 \in 1..(Len(Layer) + 1) /\ 1 \in Nat \ {0} /\ <<>> \in Seq(MadeHandle)
      BY Layered
    <2> QED BY <1>2, <2>1 DEF Standing, Phases
  <1>4. RequestOK(m)
    <2>1. m.layer = 1 /\ m.pc = "enter" /\ m.client = 0 /\ m.kept = <<>> /\ Len(m.kept) = 0
      BY <1>2
    <2>2. Inside(m, Layer[1])
      BY <2>1 DEF Inside
    <2> QED BY <1>1, <2>1, <2>2 DEF RequestOK
  <1>5. LayersTyped
    <2>1. (CHOOSE v \in Value : TRUE) \in Value
      BY DEF LinksTyped
    <2>2. [client |-> 0, name |-> Absent] \in MadeHandle
      BY DEF MadeHandle
    <2> QED BY <1>1, <1>2, <1>3, <2>1, <2>2 DEF LayersTyped
  <1> QED BY <1>1, <1>2, <1>4, <1>5, TokenFacts DEF LayersInv, GivenOK

(* Whoever is past a resource layer finds, under the token of every linked *)
(* resource, and under the default token of an only one, a handle of an    *)
(* open client with a name that the resource's own key has had; however    *)
(* requests initialise the layers at once, fail, and repeat it.            *)
THEOREM HandlesReachCorrect ==
  ASSUME LinksTyped PROVE Layers!Spec => []Layers!HandlesReach
  <1>1. LayersInv => Layers!HandlesReach
    <2> SUFFICES ASSUME LayersInv, NEW q \in Request, NEW i \in DOMAIN Layer, req[q].layer > i,
                        NEW r \in Layers!Names(Layer[i]) \cup Defaults(Layer[i]),
                        NEW t \in TokensOf(Layer[i], r)
                 PROVE  MadeFor(handed[t], Layer[i], r)
      BY DEF Layers!HandlesReach, MadeFor, Defaults, TokensOf, Layers!Default
    <2>1. i \in 1..(req[q].layer - 1)
      BY Layered DEF LayersInv, LayersTyped, Standing
    <2> QED BY <2>1 DEF LayersInv, RequestOK, AllReached, Reached
  <1>2. Layers!Init => LayersInv
    BY InitLayersInv
  <1>3. LayersInv /\ [Layers!Next]_(Layers!vars) => LayersInv'
    BY LayersInvStep
  <1> QED BY <1>1, <1>2, <1>3, PTL DEF Layers!Spec
=============================================================================
