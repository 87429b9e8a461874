---------------------------- MODULE ResourcesProofs ---------------------------
(***************************************************************************)
(* The clients of MCResources, proved about for all instances.             *)
(*                                                                         *)
(* ResourceCredentials: the tokens connections are opened with are valid,  *)
(* for any number of connections, any configurations, and any times that   *)
(* satisfy Timing.                                                         *)
(*                                                                         *)
(* RedisCache: scans are faithful, commands keep to one slot and writes to *)
(* the keys of their handle, for any callers, handles, keys and queries    *)
(* that satisfy KeysTyped, and any number of resendings; batches,          *)
(* transactions and reads are fulfilled, for arguments that fit (Fitted).  *)
(*                                                                         *)
(* Batches: results account for every entry, for any number of entries in  *)
(* chunks of any size (Sized).                                             *)
(*                                                                         *)
(* Listings: a loop over a listing's pages gets what stayed in the store,  *)
(* for any numbers of items, pages, leaves and changes (Numbered).         *)
(***************************************************************************)
EXTENDS ResourceCredentials, SequenceTheorems, FiniteSetTheorems, WellFoundedInduction, TLAPS

CONSTANTS KeyPrefix, Queries, ClusterMode, Key, ClientSlot, ServerSlot, Masters, MasterOf,
          MaxResend
VARIABLES store, replica, call, ran, seen

Timing ==
    /\ Latency \in Nat /\ CacheFor \in Nat /\ Validity \in Nat
    /\ CacheFor + Latency <= Validity
    /\ 2 * Latency < Validity

Fields == {"st", "stage", "since", "token", "main", "host"}

\* A token that is in hand at time t is recent enough for another Latency.
Recent(token, t) ==
    /\ token.signed \in Nat
    /\ t < token.signed + CacheFor \/ t <= token.signed + Latency

ReaderInv ==
    /\ now \in Nat
    /\ info # <<>> => reader.st = "done"
    /\ info # <<>> => (info[1].authMode = "iam" => info[1].secure)

CachedInv ==
    /\ cached = [g \in Stage |-> cached[g]]
    /\ \A g \in Stage :
        /\ cached[g].token.signed \in Nat
        /\ cached[g].expiresAt \in Nat
        /\ cached[g].expiresAt <= cached[g].token.signed + CacheFor
        /\ cached[g].expiresAt > 0 =>
                info # <<>> /\ cached[g].token.host = StageHost(g)

Waiting == {"signing", "signed", "answered"}

ConnInv(c) ==
    /\ DOMAIN conn[c] = Fields
    /\ conn[c].stage \in Stage
    /\ conn[c].since \in Nat /\ conn[c].since <= now
    /\ conn[c].st # "none" => info # <<>>
    /\ conn[c].st \in Waiting => now <= conn[c].since + Latency
    /\ conn[c].st \in {"signed", "answered"} =>
            conn[c].token.host = StageHost(conn[c].stage)
    /\ conn[c].st = "signed" => /\ conn[c].token.signed \in Nat
                                /\ conn[c].since <= conn[c].token.signed
    /\ conn[c].st = "answered" => Recent(conn[c].token, now)
    /\ conn[c].st \in Waiting /\ conn[c].stage = "reader" =>
            /\ conn[c].main.host = info[1].host
            /\ Recent(conn[c].main, conn[c].since)
    /\ conn[c].st = "open" /\ info[1].authMode = "iam" =>
            /\ info[1].secure
            /\ conn[c].main.host = info[1].host
            /\ conn[c].since < conn[c].main.signed + Validity

IInv ==
    /\ ReaderInv
    /\ CachedInv
    /\ conn = [c \in Caller |-> conn[c]]
    /\ \A c \in Caller : ConnInv(c)
\* A recent token is valid for Latency more.
LEMMA RecentLasts ==
  ASSUME Timing, NEW token, NEW t \in Nat, NEW u \in Nat, Recent(token, t),
         u <= t + Latency
  PROVE  u < token.signed + Validity
<1>1. /\ token.signed \in Nat /\ Latency \in Nat /\ CacheFor \in Nat /\ Validity \in Nat
      /\ CacheFor + Latency <= Validity /\ Latency + Latency < Validity
      /\ t < token.signed + CacheFor \/ t <= token.signed + Latency
  BY DEF Recent, Timing
<1> QED BY <1>1

\* The initial state satisfies the invariant.
LEMMA InitIInv == ASSUME Timing PROVE Init => IInv
  BY DEF Timing, Init, IInv, ReaderInv, CachedInv, ConnInv, Idle, NoToken, Stage, Fields,
         Waiting

\* A connection that is not touched keeps its part of the invariant while neither
\* the clock nor the connection info changes.
LEMMA Untouched ==
  ASSUME NEW c \in Caller, ConnInv(c), conn'[c] = conn[c], now' = now, info' = info
  PROVE  ConnInv(c)'
  BY DEF ConnInv, Recent, StageHost

\* What a step of one connection has to show.
LEMMA OneConnection ==
  ASSUME IInv, NEW c \in Caller, NEW rec, conn' = [conn EXCEPT ![c] = rec],
         UNCHANGED <<now, served, reader, info, changes>>,
         CachedInv', ConnInv(c)'
  PROVE  IInv'
<1>1. ReaderInv'
  BY DEF IInv, ReaderInv
<1>2. conn' = [d \in Caller |-> conn'[d]]
  BY DEF IInv
<1>3. ASSUME NEW d \in Caller PROVE ConnInv(d)'
  <2>1. CASE d = c
    BY <2>1
  <2>2. CASE d # c
    <3>1. conn'[d] = conn[d] /\ ConnInv(d)
      BY <2>2 DEF IInv
    <3> QED BY <3>1, Untouched
  <2> QED BY <2>1, <2>2
<1> QED BY <1>1, <1>2, <1>3 DEF IInv

\* getToken: what is answered or begun satisfies the invariant.
LEMMA GetTokenInv ==
  ASSUME Timing, IInv, NEW c \in Caller, NEW stage \in Stage, NEW main,
         info # <<>>, GetToken(c, stage, main),
         UNCHANGED <<now, served, reader, info, cached, changes>>,
         stage = "reader" => main.host = info[1].host /\ Recent(main, now)
  PROVE  IInv'
<1> DEFINE Answer == [st |-> "answered", stage |-> stage, since |-> now,
                      token |-> cached[stage].token, main |-> main, host |-> Target(c)]
           Signing == [st |-> "signing", stage |-> stage, since |-> now,
                       token |-> NoToken, main |-> main, host |-> Target(c)]
<1>1. CachedInv'
  BY DEF IInv, CachedInv, StageHost
<1>2. now \in Nat /\ now <= now + Latency
  BY DEF IInv, ReaderInv, Timing
<1>3. CASE now < cached[stage].expiresAt
  <2>1. conn' = [conn EXCEPT ![c] = Answer]
    BY <1>3 DEF GetToken, Answered
  <2>2. conn'[c] = Answer
    BY <2>1 DEF IInv
  <2>3. cached[stage].token.host = StageHost(stage) /\ Recent(cached[stage].token, now)
    BY SMTT(30), <1>2, <1>3 DEF IInv, CachedInv, Recent, Timing
  <2>4. ConnInv(c)'
    BY <1>2, <2>2, <2>3 DEF ConnInv, Fields, Waiting, Recent, StageHost
  <2> HIDE DEF Answer
  <2> QED BY <1>1, <2>1, <2>4, OneConnection
<1>4. CASE ~(now < cached[stage].expiresAt)
  <2>1. conn' = [conn EXCEPT ![c] = Signing]
    BY <1>4 DEF GetToken
  <2>2. conn'[c] = Signing
    BY <2>1 DEF IInv
  <2>3. ConnInv(c)'
    BY <1>2, <2>2 DEF ConnInv, Fields, Waiting, Recent, StageHost
  <2> HIDE DEF Signing
  <2> QED BY <1>1, <2>1, <2>3, OneConnection
<1> QED BY <1>3, <1>4

\* A step that touches neither the connections nor the clock nor the info.
LEMMA ConnsKept ==
  ASSUME IInv, UNCHANGED <<now, info, cached, conn>>, ReaderInv'
  PROVE  IInv'
<1>1. CachedInv'
  BY DEF IInv, CachedInv, StageHost
<1>2. ASSUME NEW c \in Caller PROVE ConnInv(c)'
  BY Untouched DEF IInv
<1> QED BY <1>1, <1>2 DEF IInv

LEMMA RefreshInv == ASSUME IInv, NEW f \in Settings, Refresh(f) PROVE IInv'
  BY ConnsKept DEF Refresh, IInv, ReaderInv

LEMMA ReadKeyInv == ASSUME IInv, ReadKey PROVE IInv'
  BY ConnsKept DEF ReadKey, IInv, ReaderInv

LEMMA RefuseInv == ASSUME IInv, Refuse PROVE IInv'
  BY ConnsKept DEF Refuse, IInv, ReaderInv

\* The connection info is made once, before any connection, and IAM in it means TLS.
LEMMA ResolveInv == ASSUME IInv, Resolve PROVE IInv'
<1>1. info = <<>>
  BY DEF IInv, ReaderInv, Resolve
<1>2. \A c \in Caller : conn[c].st = "none"
  BY <1>1 DEF IInv, ConnInv
<1>3. ReaderInv'
  <2>1. now \in Nat
    BY DEF IInv, ReaderInv
  <2>2. DOMAIN reader = DOMAIN reader' \/ reader'.st = "done"
    BY DEF Resolve
  <2>3. info'[1].authMode = "iam" => info'[1].secure
    BY DEF Resolve, ConnectionInfo, Secure
  <2> QED BY <2>1, <2>3 DEF Resolve, ReaderInv, IInv
<1>4. CachedInv'
  BY <1>1 DEF IInv, CachedInv, Resolve, StageHost
<1>5. ASSUME NEW c \in Caller PROVE ConnInv(c)'
  BY <1>2 DEF IInv, ConnInv, Resolve, Waiting
<1> QED BY <1>3, <1>4, <1>5 DEF IInv, Resolve

LEMMA ConnectByPasswordInv ==
  ASSUME IInv, NEW c \in Caller, ConnectByPassword(c) PROVE IInv'
<1> DEFINE rec == [Idle EXCEPT !.st = "open", !.host = Target(c)]
<1>1. conn' = [conn EXCEPT ![c] = rec] /\ conn'[c] = rec
  BY DEF ConnectByPassword, IInv
<1>2. CachedInv'
  BY DEF IInv, CachedInv, StageHost, ConnectByPassword
<1>3. ConnInv(c)'
  <2>1. /\ rec.st = "open" /\ rec.since = 0 /\ DOMAIN rec = Fields /\ rec.stage = "writer"
    BY DEF Idle, Fields
  <2>2. now \in Nat /\ info # <<>> /\ info[1].authMode # "iam"
    BY DEF IInv, ReaderInv, ConnectByPassword
  <2> HIDE DEF rec
  <2>3. info' = info /\ now' = now
    BY DEF ConnectByPassword
  <2>4. /\ DOMAIN conn'[c] = Fields /\ conn'[c].stage \in Stage
        /\ conn'[c].since \in Nat /\ conn'[c].since <= now' /\ conn'[c].st = "open"
    BY <1>1, <2>1, <2>2, <2>3 DEF Stage
  <2>5. info' # <<>> /\ info'[1].authMode # "iam"
    BY <2>2, <2>3
  <2> QED BY <2>4, <2>5 DEF ConnInv, Waiting
<1> HIDE DEF rec
<1> QED BY <1>1, <1>2, <1>3, OneConnection DEF ConnectByPassword

LEMMA ConnectByTokenInv ==
  ASSUME Timing, IInv, NEW c \in Caller, ConnectByToken(c) PROVE IInv'
  BY GetTokenInv DEF ConnectByToken, Stage

LEMMA SignInv == ASSUME IInv, NEW c \in Caller, Sign(c) PROVE IInv'
<1> DEFINE token == [host |-> StageHost(conn[c].stage), signed |-> now]
           rec == [conn[c] EXCEPT !.st = "signed", !.token = token]
<1>1. conn' = [conn EXCEPT ![c] = rec] /\ conn'[c] = rec
  BY DEF Sign, IInv
<1>2. CachedInv'
  BY DEF IInv, CachedInv, StageHost, Sign
<1>3. ConnInv(c)'
  <2>1. ConnInv(c) /\ conn[c].st = "signing" /\ now \in Nat
    BY DEF Sign, IInv, ReaderInv
  <2>2. /\ rec.st = "signed" /\ rec.token = token /\ DOMAIN rec = Fields
        /\ rec.stage = conn[c].stage /\ rec.since = conn[c].since /\ rec.main = conn[c].main
    BY <2>1 DEF ConnInv, Fields
  <2> HIDE DEF rec
  <2> QED BY <1>1, <2>1, <2>2 DEF Sign, ConnInv, Waiting, StageHost, Recent
<1> HIDE DEF rec
<1> QED BY <1>1, <1>2, <1>3, OneConnection DEF Sign

LEMMA SignFailsInv == ASSUME IInv, NEW c \in Caller, SignFails(c) PROVE IInv'
<1> DEFINE rec == [conn[c] EXCEPT !.st = "error"]
<1>1. conn' = [conn EXCEPT ![c] = rec] /\ conn'[c] = rec
  BY DEF SignFails, IInv
<1>2. CachedInv'
  BY DEF IInv, CachedInv, StageHost, SignFails
<1>3. ConnInv(c)'
  <2>1. ConnInv(c) /\ conn[c].st = "signing"
    BY DEF SignFails, IInv
  <2> QED BY <1>1, <2>1 DEF SignFails, ConnInv, Waiting, Fields
<1> HIDE DEF rec
<1> QED BY <1>1, <1>2, <1>3, OneConnection DEF SignFails

\* What is kept expires CacheFor after the call began, so before the token is
\* CacheFor old.
LEMMA KeepInv == ASSUME Timing, IInv, NEW c \in Caller, Keep(c) PROVE IInv'
<1> DEFINE rec == [conn[c] EXCEPT !.st = "answered"]
           entry == [token |-> conn[c].token, expiresAt |-> conn[c].since + CacheFor]
<1>1. conn' = [conn EXCEPT ![c] = rec] /\ conn'[c] = rec
  BY DEF Keep, IInv
<1>2. ConnInv(c) /\ conn[c].st = "signed" /\ now \in Nat /\ conn[c].stage \in Stage
  BY DEF Keep, IInv, ReaderInv, ConnInv
<1>3. CachedInv'
  <2>1. /\ conn[c].token.signed \in Nat /\ conn[c].since \in Nat
        /\ conn[c].since <= conn[c].token.signed
        /\ conn[c].token.host = StageHost(conn[c].stage) /\ info # <<>>
    BY <1>2 DEF ConnInv
  <2>2. cached' = [cached EXCEPT ![conn[c].stage] = entry]
    BY DEF Keep
  <2>3. ASSUME NEW g \in Stage
        PROVE  /\ cached'[g].token.signed \in Nat
               /\ cached'[g].expiresAt \in Nat
               /\ cached'[g].expiresAt <= cached'[g].token.signed + CacheFor
               /\ cached'[g].expiresAt > 0 =>
                      info # <<>> /\ cached'[g].token.host = StageHost(g)
    <3>1. CASE g = conn[c].stage
      <4>1. cached'[g] = entry
        BY <2>2, <3>1 DEF IInv, CachedInv
      <4> QED BY <2>1, <3>1, <4>1 DEF Timing
    <3>2. CASE g # conn[c].stage
      <4>1. cached'[g] = cached[g]
        BY <2>2, <3>2 DEF IInv, CachedInv
      <4> QED BY <4>1 DEF IInv, CachedInv
    <3> QED BY <3>1, <3>2
  <2>4. info' = info
    BY DEF Keep
  <2>5. cached' = [g \in Stage |-> cached'[g]]
    BY <2>2 DEF IInv, CachedInv
  <2> HIDE DEF entry
  <2> QED BY <2>3, <2>4, <2>5 DEF CachedInv, StageHost
<1>4. ConnInv(c)'
  <2>1. /\ rec.st = "answered" /\ rec.token = conn[c].token /\ DOMAIN rec = Fields
        /\ rec.stage = conn[c].stage /\ rec.since = conn[c].since /\ rec.main = conn[c].main
    BY <1>2 DEF ConnInv, Fields
  <2>2. Recent(conn[c].token, now)
    BY <1>2 DEF ConnInv, Recent, Timing, Waiting
  <2> HIDE DEF rec
  <2> QED BY <1>1, <1>2, <2>1, <2>2 DEF Keep, ConnInv, Waiting, StageHost, Recent
<1> HIDE DEF rec
<1> QED BY <1>1, <1>3, <1>4, OneConnection DEF Keep

LEMMA AskForReaderInv ==
  ASSUME Timing, IInv, NEW c \in Caller, AskForReader(c) PROVE IInv'
<1>1. /\ ConnInv(c) /\ conn[c].st = "answered" /\ conn[c].stage = "writer"
  BY DEF AskForReader, IInv
<1>2. conn[c].token.host = info[1].host /\ Recent(conn[c].token, now) /\ info # <<>>
  BY <1>1 DEF ConnInv, StageHost
<1> QED BY <1>2, GetTokenInv DEF AskForReader, Stage

LEMMA OpenInv == ASSUME Timing, IInv, NEW c \in Caller, Open(c) PROVE IInv'
<1> DEFINE main == IF conn[c].stage = "reader" THEN conn[c].main ELSE conn[c].token
           rec == [conn[c] EXCEPT !.st = "open", !.since = now, !.main = main]
<1>1. conn' = [conn EXCEPT ![c] = rec] /\ conn'[c] = rec
  BY DEF Open, IInv
<1>2. CachedInv'
  BY DEF IInv, CachedInv, StageHost, Open
<1>3. ConnInv(c) /\ conn[c].st = "answered" /\ now \in Nat /\ info # <<>>
  BY DEF Open, IInv, ReaderInv, ConnInv
<1>4. /\ rec.st = "open" /\ rec.since = now /\ rec.main = main /\ DOMAIN rec = Fields
      /\ rec.stage = conn[c].stage
  BY <1>3 DEF ConnInv, Fields
<1>5. main.host = info[1].host /\ now < main.signed + Validity
  <2>1. CASE conn[c].stage = "reader"
    <3>1. /\ main = conn[c].main /\ main.host = info[1].host
          /\ Recent(main, conn[c].since)
          /\ conn[c].since \in Nat /\ now <= conn[c].since + Latency
      BY <1>3, <2>1 DEF ConnInv, Waiting
    <3> HIDE DEF main
    <3> QED BY <1>3, <3>1, RecentLasts
  <2>2. CASE conn[c].stage # "reader"
    <3>1. main = conn[c].token /\ conn[c].stage = "writer"
      BY <1>3, <2>2 DEF ConnInv, Stage
    <3>2. main.host = info[1].host /\ Recent(main, now)
      BY <1>3, <3>1 DEF ConnInv, StageHost
    <3> HIDE DEF main
    <3>3. now <= now + Latency
      BY <1>3 DEF Timing
    <3> QED BY <1>3, <3>2, <3>3, RecentLasts
  <2> QED BY <2>1, <2>2
<1>6. ConnInv(c)'
  <2>1. info[1].authMode = "iam" => info[1].secure
    BY <1>3 DEF IInv, ReaderInv
  <2>2. rec.stage \in Stage
    BY <1>3, <1>4 DEF ConnInv
  <2> HIDE DEF rec, main
  <2>3. info' = info /\ now' = now
    BY DEF Open
  <2>4. /\ DOMAIN conn'[c] = Fields /\ conn'[c].stage \in Stage
        /\ conn'[c].since \in Nat /\ conn'[c].since <= now' /\ conn'[c].st = "open"
    BY <1>1, <1>3, <1>4, <2>2, <2>3
  <2>5. info'[1].authMode = "iam" => info'[1].secure
    BY <2>1, <2>3
  <2>6. conn'[c].main.host = info'[1].host
        /\ conn'[c].since < conn'[c].main.signed + Validity
    BY <1>1, <1>4, <1>5, <2>3
  <2> QED BY <1>3, <2>3, <2>4, <2>5, <2>6 DEF ConnInv, Waiting
<1> HIDE DEF rec, main
<1> QED BY <1>1, <1>2, <1>6, OneConnection DEF Open

LEMMA TickInv == ASSUME Timing, IInv, Tick PROVE IInv'
<1>1. ReaderInv' /\ CachedInv'
  BY DEF Tick, IInv, ReaderInv, CachedInv, StageHost
<1>2. ASSUME NEW c \in Caller PROVE ConnInv(c)'
  <2>1. ConnInv(c) /\ conn[c].st # "answered" /\ now \in Nat
    BY DEF Tick, IInv, ReaderInv
  <2>2. conn[c].st \in Waiting => now + 1 <= conn[c].since + Latency
    BY <2>1 DEF Tick, Waiting, ConnInv, Timing
  <2> QED BY <2>1, <2>2 DEF Tick, ConnInv, Waiting, StageHost, Recent
<1> QED BY <1>1, <1>2 DEF IInv, Tick

\* Every step preserves the invariant.
THEOREM IInvStep == ASSUME Timing PROVE IInv /\ [Next]_vars => IInv'
<1> SUFFICES ASSUME IInv, [Next]_vars PROVE IInv'
  OBVIOUS
<1>1. CASE UNCHANGED vars
  BY <1>1, ConnsKept DEF vars, IInv, ReaderInv
<1>2. CASE ReadKey \/ Refuse \/ Resolve \/ Tick
  BY <1>2, ReadKeyInv, RefuseInv, ResolveInv, TickInv
<1>3. CASE \E f \in Settings : Refresh(f)
  BY <1>3, RefreshInv
<1>4. ASSUME NEW c \in Caller,
             \/ ConnectByPassword(c) \/ ConnectByToken(c) \/ Sign(c) \/ SignFails(c)
             \/ Keep(c) \/ AskForReader(c) \/ Open(c)
      PROVE  IInv'
  BY <1>4, ConnectByPasswordInv, ConnectByTokenInv, SignInv, SignFailsInv, KeepInv,
     AskForReaderInv, OpenInv
<1> QED BY <1>1, <1>2, <1>3, <1>4 DEF Next

\* Every connection opened under IAM is over TLS and has a token of the writer's host
\* that is not yet Validity old (IamCredentials.getIamAuth, RdsTokenProvider.getToken,
\* ElastiCacheTokenProvider.getToken).
THEOREM TokensValid == ASSUME Timing PROVE Spec => []TokensUsable
<1>1. IInv => TokensUsable
  BY DEF IInv, ConnInv, TokensUsable
<1>2. Init => IInv
  BY InitIInv
<1>3. IInv /\ [Next]_vars => IInv'
  BY IInvStep
<1> QED BY <1>1, <1>2, <1>3, PTL DEF Spec

-----------------------------------------------------------------------------
(* RedisCache. *)

Redis == INSTANCE RedisCache

(* A set of indices that is not empty has a greatest.                      *)
LEMMA GreatestIndex ==
  ASSUME NEW n \in Nat, NEW S \in SUBSET (1..n), S # {}
  PROVE  \E x \in S : \A y \in S : x >= y
  <1>1. PICK D : D = {n - i : i \in S}
    OBVIOUS
  <1>2. D \subseteq Nat /\ D # {}
    <2>1. \A i \in S : n - i \in Nat
      OBVIOUS
    <2>2. D # {}
      BY <1>1
    <2> QED BY <1>1, <2>1, <2>2
  <1>3. PICK d \in D : \A e \in D : ~(<<e, d>> \in OpToRel(<, Nat))
    BY <1>2, NatLessThanWellFounded, WFMin
  <1>4. \A e \in D : ~(e < d)
    BY <1>2, <1>3 DEF OpToRel
  <1>5. PICK x \in S : d = n - x
    BY <1>1
  <1>6. ASSUME NEW y \in S PROVE x >= y
    <2>1. n - y \in D
      BY <1>1
    <2>2. ~(n - y < n - x)
      BY <1>4, <1>5, <2>1
    <2>3. x \in Int /\ y \in Int
      OBVIOUS
    <2> QED BY <2>2, <2>3
  <1> QED BY <1>6

(* Induction over the naturals, by the least counterexample.               *)
LEMMA LeastNat ==
  ASSUME NEW B \in SUBSET Nat, B # {}
  PROVE  \E m \in B : m = 0 \/ m - 1 \in Nat \ B
  <1>1. PICK m \in B : \A e \in B : ~(<<e, m>> \in OpToRel(<, Nat))
    BY NatLessThanWellFounded, WFMin
  <1>2. \A e \in B : ~(e < m)
    BY <1>1 DEF OpToRel
  <1>3. m = 0 \/ m - 1 \in Nat
    OBVIOUS
  <1>4. m - 1 < m
    OBVIOUS
  <1> QED BY <1>2, <1>3, <1>4

(* An increasing enumeration of S.                                         *)
Increasing(s, n, S) ==
  /\ s \in [1..n -> S]
  /\ \A i, j \in 1..n : i < j => s[i] < s[j]

(* Every set of indices has one increasing enumeration, and it is onto.    *)
LEMMA HasEnumeration ==
  ASSUME NEW n \in Nat, NEW S \in SUBSET (1..n)
  PROVE  /\ IsFiniteSet(S) /\ Cardinality(S) \in Nat
         /\ \E s : Increasing(s, Cardinality(S), S)
  <1>1. \A T \in SUBSET (1..n) : IsFiniteSet(T) /\ Cardinality(T) \in Nat
    <2>1. IsFiniteSet(1..n)
      BY FS_Interval
    <2>2. ASSUME NEW T \in SUBSET (1..n) PROVE IsFiniteSet(T)
      BY <2>1, FS_Subset
    <2> QED BY <2>2, FS_CardinalityType
  <1>2. PICK B : B = {m \in Nat : \E T \in SUBSET (1..n) :
                        Cardinality(T) = m /\ ~\E s : Increasing(s, m, T)}
    OBVIOUS
  <1>3. CASE B = {}
    BY <1>1, <1>2, <1>3
  <1>4. CASE B # {}
    <2>1. PICK m \in B : m = 0 \/ m - 1 \in Nat \ B
      BY <1>2, <1>4, LeastNat
    <2>2. PICK T \in SUBSET (1..n) : Cardinality(T) = m /\ ~\E s : Increasing(s, m, T)
      BY <1>2, <2>1
    <2>3. m \in Nat
      BY <1>2, <2>1
    <2>4. CASE T = {}
      <3>1. m = 0
        BY <2>2, <2>4, FS_EmptySet
      <3>2. PICK s : s = [i \in 1..0 |-> 0]
        OBVIOUS
      <3>3. Increasing(s, m, T)
        BY <2>4, <3>1, <3>2 DEF Increasing
      <3> QED BY <2>2, <3>3
    <2>5. CASE T # {}
      <3>1. PICK x \in T : \A y \in T : x >= y
        BY <2>5, GreatestIndex
      <3>2. PICK U : U = T \ {x}
        OBVIOUS
      <3>3. U \in SUBSET (1..n) /\ Cardinality(U) = m - 1
        BY <1>1, <2>2, <3>1, <3>2, FS_RemoveElement
      <3>4. m - 1 \in Nat
        BY <1>1, <3>3
      <3>5. m - 1 \notin B
        BY <2>1, <3>4
      <3>6. PICK s : Increasing(s, m - 1, U)
        BY <1>2, <3>3, <3>4, <3>5
      <3>7. PICK t : t = [i \in 1..m |-> IF i = m THEN x ELSE s[i]]
        OBVIOUS
      <3>8. \A i \in 1..m : i # m => i \in 1..(m - 1)
        BY <2>3
      <3>9. t \in [1..m -> T]
        BY <3>1, <3>2, <3>6, <3>7, <3>8 DEF Increasing
      <3>10. ASSUME NEW i \in 1..m, NEW j \in 1..m, i < j PROVE t[i] < t[j]
        <4>1. i \in 1..(m - 1) /\ t[i] = s[i] /\ s[i] \in U
          BY <2>3, <3>6, <3>7, <3>10 DEF Increasing
        <4>2. CASE j = m
          <5>1. PICK a \in T : a = t[i] /\ a # x
            BY <3>2, <4>1
          <5>2. a \in Int /\ x \in Int /\ x >= a
            BY <3>1
          <5>3. t[j] = x
            BY <3>7, <4>2
          <5> QED BY <5>1, <5>2, <5>3
        <4>3. CASE j # m
          <5>1. j \in 1..(m - 1) /\ t[j] = s[j]
            BY <3>7, <3>8, <4>3
          <5> QED BY <3>6, <3>10, <4>1, <5>1 DEF Increasing
        <4> QED BY <4>2, <4>3
      <3>11. Increasing(t, m, T)
        BY <3>9, <3>10 DEF Increasing
      <3> QED BY <2>2, <3>11
    <2> QED BY <2>4, <2>5
  <1> QED BY <1>3, <1>4

(* Ascending chooses that enumeration.                                     *)
LEMMA AscendingIs ==
  ASSUME NEW n \in Nat, NEW S \in SUBSET (1..n)
  PROVE  Cardinality(S) \in Nat /\ Increasing(Redis!Ascending(S), Cardinality(S), S)
  <1>1. PICK k : k = Cardinality(S)
    OBVIOUS
  <1>2. k \in Nat /\ \E s : Increasing(s, k, S)
    BY <1>1, HasEnumeration
  <1>3. \A s : Increasing(s, k, S) <=>
          s \in [1..k -> S] /\ \A i, j \in DOMAIN s : i < j => s[i] < s[j]
    BY DEF Increasing
  <1>4. Redis!Cardinality(S) = k
    <2>1. Redis!Cardinality(S) = Cardinality(S)
      BY Zenon DEF Redis!Cardinality, Cardinality
    <2> QED BY <1>1, <2>1
  <1>5. Redis!Ascending(S) = CHOOSE s \in [1..k -> S] : \A i, j \in DOMAIN s : i < j => s[i] < s[j]
    BY <1>1, <1>4 DEF Redis!Ascending
  <1>6. Redis!Ascending(S) \in [1..k -> S]
        /\ \A i, j \in DOMAIN Redis!Ascending(S) : i < j => Redis!Ascending(S)[i] < Redis!Ascending(S)[j]
    BY <1>2, <1>3, <1>5
  <1> QED BY <1>1, <1>2, <1>3, <1>6

(* The partial concatenations of q.                                        *)
Joins(f, m, q) == f = [i \in 1..m |-> IF i = 1 THEN q[i] ELSE f[i - 1] \o q[i]]

(* They exist, for a recursive function is chosen.                         *)
LEMMA HasJoins ==
  ASSUME NEW n \in Nat, NEW q
  PROVE  \E f : Joins(f, n, q)
  <1>1. PICK B : B = {m \in Nat : ~\E f : Joins(f, m, q)}
    OBVIOUS
  <1>2. CASE B = {}
    BY <1>1, <1>2
  <1>3. CASE B # {}
    <2>1. PICK m \in B : m = 0 \/ m - 1 \in Nat \ B
      BY <1>1, <1>3, LeastNat
    <2>2. m \in Nat /\ ~\E f : Joins(f, m, q)
      BY <1>1, <2>1
    <2>3. CASE m = 0
      <3>1. PICK f : f = [i \in 1..0 |-> 0]
        OBVIOUS
      <3>2. f = [i \in 1..0 |-> IF i = 1 THEN q[i] ELSE f[i - 1] \o q[i]]
        BY <3>1
      <3> QED BY <2>2, <2>3, <3>2 DEF Joins
    <2>4. CASE m # 0
      <3>1. PICK f : Joins(f, m - 1, q)
        BY <1>1, <2>1, <2>4
      <3>2. PICK g : g = [i \in 1..m |-> IF i < m THEN f[i] ELSE IF i = 1 THEN q[i] ELSE f[i - 1] \o q[i]]
        OBVIOUS
      <3>3. ASSUME NEW i \in 1..m PROVE g[i] = IF i = 1 THEN q[i] ELSE g[i - 1] \o q[i]
        <4>1. i # 1 => i - 1 \in 1..m /\ i - 1 < m
          BY <2>2
        <4>2. i # 1 => g[i - 1] = f[i - 1]
          BY <3>2, <4>1
        <4>3. CASE i < m
          <5>1. i \in 1..(m - 1)
            BY <2>2, <4>3
          <5>2. f[i] = IF i = 1 THEN q[i] ELSE f[i - 1] \o q[i]
            BY <3>1, <5>1 DEF Joins
          <5> QED BY <3>2, <4>2, <4>3, <5>2
        <4>4. CASE ~(i < m)
          BY <3>2, <4>2, <4>4
        <4> QED BY <4>3, <4>4
      <3>4. g = [i \in 1..m |-> IF i = 1 THEN q[i] ELSE g[i - 1] \o q[i]]
        <4>1. PICK h : h = [i \in 1..m |-> IF i = 1 THEN q[i] ELSE g[i - 1] \o q[i]]
          OBVIOUS
        <4>2. DOMAIN g = 1..m /\ DOMAIN h = 1..m /\ \A i \in 1..m : g[i] = h[i]
          BY <3>2, <3>3, <4>1
        <4>3. g = [i \in 1..m |-> g[i]] /\ h = [i \in 1..m |-> h[i]]
          BY <3>2, <4>1
        <4> QED BY <4>1, <4>2, <4>3
      <3> QED BY <2>2, <3>4 DEF Joins
    <2> QED BY <2>3, <2>4
  <1> QED BY <1>2, <1>3

(* A sequence of members of R that has all that k sequences have.          *)
KeepsAll(x, q, k, R) ==
  /\ x \in Seq(R)
  /\ \A i \in 1..k : \A j \in 1..Len(q[i]) : \E m \in 1..Len(x) : x[m] = q[i][j]

(* FlattenSeq loses nothing and adds nothing.                              *)
LEMMA FlatKeeps ==
  ASSUME NEW R, NEW n \in Nat, NEW q, q = [i \in 1..n |-> q[i]], \A i \in 1..n : q[i] \in Seq(R)
  PROVE  KeepsAll(Redis!FlattenSeq(q), q, n, R)
  <1>1. Len(q) = n
    OBVIOUS
  <1>2. CASE n = 0
    <2>1. Redis!FlattenSeq(q) = q
      BY <1>1, <1>2 DEF Redis!FlattenSeq
    <2>2. q \in Seq(R) /\ \A i \in 1..n : FALSE
      BY <1>2
    <2> QED BY <2>1, <2>2 DEF KeepsAll
  <1>3. CASE n # 0
    <2>1. PICK F : F = CHOOSE f : f = [i \in 1..n |-> IF i = 1 THEN q[i] ELSE f[i - 1] \o q[i]]
      OBVIOUS
    <2>2. Redis!FlattenSeq(q) = F[n]
      BY <1>1, <1>3, <2>1 DEF Redis!FlattenSeq
    <2>3. F = [i \in 1..n |-> IF i = 1 THEN q[i] ELSE F[i - 1] \o q[i]]
      BY <2>1, HasJoins DEF Joins
    <2>4. PICK B : B = {k \in 1..n : ~KeepsAll(F[k], q, k, R)}
      OBVIOUS
    <2>5. B = {}
      <3>1. SUFFICES ASSUME B # {} PROVE FALSE
        OBVIOUS
      <3>2. B \in SUBSET Nat
        BY <2>4
      <3>3. PICK k \in B : k = 0 \/ k - 1 \in Nat \ B
        BY <3>1, <3>2, LeastNat
      <3>4. k \in 1..n
        BY <2>4
      <3>5. CASE k = 1
        <4>1. PICK c : c = F[k]
          OBVIOUS
        <4>2. c = q[k] /\ c \in Seq(R)
          BY <2>3, <3>4, <3>5, <4>1
        <4>3. \A i \in 1..k : i = k
          BY <3>5
        <4>4. KeepsAll(c, q, k, R)
          BY <4>2, <4>3 DEF KeepsAll
        <4> QED BY <2>4, <4>1, <4>4
      <3>6. CASE k # 1
        <4>1. k - 1 \in 1..n /\ k - 1 \notin B
          BY <3>3, <3>4, <3>6
        <4>2. PICK a, b : a = F[k - 1] /\ b = q[k]
          OBVIOUS
        <4>3. /\ a \in Seq(R)
              /\ \A i \in 1..(k - 1) : \A j \in 1..Len(q[i]) : \E m \in 1..Len(a) : a[m] = q[i][j]
          BY <2>4, <4>1, <4>2 DEF KeepsAll
        <4>4. b \in Seq(R) /\ F[k] = a \o b
          BY <2>3, <3>4, <3>6, <4>2
        <4>5. PICK c \in Seq(R) : c = a \o b
          <5>1. a \in Seq(R) /\ b \in Seq(R)
            BY <4>3, <4>4
          <5>2. a \o b \in Seq(R)
            BY <5>1
          <5> QED BY <5>2
        <4>6. Len(c) = Len(a) + Len(b) /\ Len(a) \in Nat /\ Len(b) \in Nat
          BY <4>3, <4>4, <4>5
        <4>7. \A m \in 1..Len(a) : m \in 1..Len(c) /\ c[m] = a[m]
          BY <4>3, <4>4, <4>5, <4>6
        <4>8. \A m \in 1..Len(b) : Len(a) + m \in 1..Len(c) /\ c[Len(a) + m] = b[m]
          BY <4>3, <4>4, <4>5, <4>6
        <4>9. ASSUME NEW i \in 1..k, NEW j \in 1..Len(q[i])
              PROVE  \E m \in 1..Len(c) : c[m] = q[i][j]
          <5>1. CASE i = k
            BY <4>2, <4>8, <4>9, <5>1
          <5>2. CASE i # k
            <6>1. i \in 1..(k - 1)
              BY <3>4, <5>2
            <6>2. PICK m \in 1..Len(a) : a[m] = q[i][j]
              BY <4>3, <4>9, <6>1
            <6> QED BY <4>7, <6>2
          <5> QED BY <5>1, <5>2
        <4>10. F[k] = c
          BY <4>4, <4>5
        <4>11. KeepsAll(c, q, k, R)
          BY <4>5, <4>9 DEF KeepsAll
        <4> QED BY <2>4, <4>10, <4>11
      <3> QED BY <3>5, <3>6
    <2>6. n \in 1..n
      BY <1>3
    <2> QED BY <2>2, <2>4, <2>5, <2>6
  <1> QED BY <1>2, <1>3

(* Keys, and the names of the methods.                                     *)
Text == Seq(Nat)

(* A sequence of whatever elements.                                        *)
IsSeq(s) == Len(s) \in Nat /\ s = [i \in 1..Len(s) |-> s[i]]

Direct == DOMAIN Redis!Forwarded \cup
  {"set", "incr", "decr", "hashIncr", "listPush", "listPop", "sortedSetRank", "sortedSetRange",
   "sortedSetRangeByScore", "sortedSetIncr", "rename"}
Batched == {"mget", "mset", "mdelete"}

Queueable == DOMAIN Redis!QueuedName \cup {"set", "incr", "decr", "hashIncr", "listPush", "sortedSetIncr"}

(* A method of the builder has the keys its signature asks for.            *)
QueuedTyped(q) ==
  /\ q.op \in Queueable /\ q.keys \in Seq(Text) /\ q.keys # <<>>
  /\ q.op = "rename" => Len(q.keys) = 2

(* A method of the handle has the keys its signature asks for; a pattern   *)
(* that is given is not empty: the code takes an empty one for none.       *)
QueryTyped(q) ==
  /\ q.op \in Direct \cup Batched \cup DOMAIN Redis!OneSlot \cup {"scan", "transaction"}
  /\ q.keys \in Seq(Text)
  /\ q.op \in Direct => q.keys # <<>>
  /\ q.op = "rename" => Len(q.keys) = 2
  /\ q.op = "scan" /\ "match" \in q.opt => Len(q.keys) = 1 /\ q.keys[1] # <<>>
  /\ q.op = "transaction" => IsSeq(q.args) /\ \A i \in 1..Len(q.args) : QueuedTyped(q.args[i])

(* Keys are texts, and every key has its master.                           *)
KeysTyped ==
  /\ Key \subseteq Text
  /\ ClusterMode \in BOOLEAN
  /\ Len(Masters) \in Nat
  /\ ClusterMode => \A k \in Key : \E i \in 1..Len(Masters) : MasterOf[k] = Masters[i]
  /\ \A h \in Redis!Handle : KeyPrefix[h] \in Text
  /\ \A c \in Caller : \A q \in Queries[c] : QueryTyped(q)

(* A scan with a pattern has one key, the pattern.                         *)
LEMMA PatternGiven ==
  ASSUME KeysTyped, NEW c \in Caller, NEW q \in Queries[c], q.op = "scan", "match" \in q.opt
  PROVE  \E p \in Text : p # <<>> /\ q.keys = <<p>>
  <1>1. PICK s \in Seq(Text) : s = q.keys /\ Len(s) = 1 /\ s[1] # <<>>
    BY DEF KeysTyped, QueryTyped
  <1>2. s[1] \in Text /\ s = <<s[1]>>
    BY <1>1
  <1> QED BY <1>1, <1>2

(* The servers a scan asks, and which of them has a key.                   *)
Nodes == IF ClusterMode THEN Len(Masters) ELSE 1
OnNode(k, i) == ClusterMode => MasterOf[k] = Masters[i]

(* The groups of a batch: indices of its keys, those of one group with one *)
(* slot.                                                                   *)
LEMMA EnumerationIs ==
  ASSUME NEW n \in Nat, NEW S \in SUBSET (1..n)
  PROVE  IsSeq(Redis!Ascending(S)) /\ Redis!Ascending(S) \in Seq(S)
  <1>1. PICK k, s : k \in Nat /\ s = Redis!Ascending(S) /\ s \in [1..k -> S]
    BY AscendingIs DEF Increasing
  <1>2. Len(s) = k /\ s \in Seq(S) /\ s = [i \in 1..k |-> s[i]]
    BY <1>1
  <1> QED BY <1>1, <1>2 DEF IsSeq

(* A group: indices of keys, in cluster mode of one slot for the client.   *)
GroupOK(keys, s) ==
  /\ s \in Seq(1..Len(keys))
  /\ ClusterMode => \A a, b \in DOMAIN s : ClientSlot[keys[s[a]]] = ClientSlot[keys[s[b]]]

(* Batches are split into such groups.                                     *)
LEMMA GroupsAre ==
  ASSUME NEW keys \in Seq(Text)
  PROVE  /\ IsSeq(Redis!Groups(keys))
         /\ \A g \in 1..Len(Redis!Groups(keys)) : GroupOK(keys, Redis!Groups(keys)[g])
  <1>1. PICK n \in Nat : n = Len(keys) /\ DOMAIN keys = 1..n
    OBVIOUS
  <1>2. CASE ~ClusterMode \/ n <= 1
    <2>1. PICK s : s = [i \in 1..n |-> i]
      OBVIOUS
    <2>2. Redis!Groups(keys) = <<s>>
      BY <1>1, <1>2, <2>1 DEF Redis!Groups
    <2>3. s \in Seq(1..n) /\ DOMAIN s = 1..n
      BY <2>1
    <2>4. ClusterMode => \A a, b \in 1..n : a = b
      BY <1>1, <1>2
    <2>5. GroupOK(keys, s)
      BY <1>1, <2>3, <2>4 DEF GroupOK
    <2>6. Len(<<s>>) = 1 /\ <<s>> = [i \in 1..1 |-> <<s>>[i]] /\ <<s>>[1] = s /\ 1..1 = {1}
      OBVIOUS
    <2> QED BY <2>2, <2>5, <2>6 DEF IsSeq
  <1>3. CASE ClusterMode /\ ~(n <= 1)
    <2>1. PICK L : L = {i \in 1..n : \A j \in 1..(i - 1) : ClientSlot[keys[j]] # ClientSlot[keys[i]]}
      OBVIOUS
    <2>2. PICK s : s = Redis!Ascending(L)
      OBVIOUS
    <2>3. IsSeq(s) /\ s \in Seq(L) /\ L \in SUBSET (1..n)
      BY <2>1, <2>2, EnumerationIs
    <2>4. PICK f : f = [g \in DOMAIN s |->
              Redis!Ascending({i \in 1..n : ClientSlot[keys[i]] = ClientSlot[keys[s[g]]]})]
      OBVIOUS
    <2>5. Redis!Groups(keys) = f
      BY <1>1, <1>3, <2>1, <2>2, <2>4 DEF Redis!Groups, Redis!GroupBySlot
    <2>6. DOMAIN s = 1..Len(s) /\ Len(s) \in Nat
      BY <2>3
    <2>7. Len(f) = Len(s) /\ f = [g \in 1..Len(s) |-> f[g]]
      BY <2>4, <2>6
    <2>8. ASSUME NEW g \in 1..Len(s) PROVE GroupOK(keys, f[g])
      <3>1. PICK S \in SUBSET (1..n) : S = {i \in 1..n : ClientSlot[keys[i]] = ClientSlot[keys[s[g]]]}
        OBVIOUS
      <3>2. PICK t : t = f[g]
        OBVIOUS
      <3>3. t \in Seq(S)
        <4>1. t = Redis!Ascending(S)
          BY <2>4, <2>6, <3>1, <3>2
        <4> QED BY <4>1, EnumerationIs
      <3>4. t \in Seq(1..n) /\ \A a \in DOMAIN t : t[a] \in S
        <4>1. \A a \in DOMAIN t : t[a] \in S
          BY <3>3
        <4>2. PICK m \in Nat : t \in [1..m -> S]
          BY <3>3
        <4>3. t \in [1..m -> 1..n]
          BY <4>2
        <4> QED BY <4>1, <4>3
      <3>5. \A a \in DOMAIN t : ClientSlot[keys[t[a]]] = ClientSlot[keys[s[g]]]
        BY <3>1, <3>4
      <3> QED BY <1>1, <3>2, <3>4, <3>5 DEF GroupOK
    <2> QED BY <2>5, <2>6, <2>7, <2>8 DEF IsSeq
  <1> QED BY <1>2, <1>3

(* A scan sends the same pattern to each node.                             *)
LEMMA ScanCommands ==
  ASSUME KeysTyped, NEW h, NEW q, q.op = "scan"
  PROVE  /\ Redis!Commands(h, q) = Redis!Scan(h, q)
         /\ Len(Redis!Scan(h, q)) = Nodes /\ Nodes \in Nat
         /\ (Redis!Scan(h, q) = <<>>) <=> Nodes = 0
         /\ \A i \in 1..Nodes : LET s == Redis!Scan(h, q)[i] IN
              /\ s.cmd = "scan" /\ s.args[1] = Redis!ScanMatch(h, q)
              /\ \A k : (ClusterMode => <<MasterOf[k]>> = s.args[2]) <=> OnNode(k, i)
  <1>1. DOMAIN Redis!OneSlot = {"setUnion", "setIntersect", "setDiff"}
    BY DEF Redis!OneSlot
  <1>2. Redis!Commands(h, q) = Redis!Scan(h, q)
    BY <1>1 DEF Redis!Commands
  <1>3. Nodes \in Nat
    BY DEF Nodes, KeysTyped
  <1>4. Redis!Scan(h, q) = [n \in 1..Nodes |->
          Redis!Cmd("scan", <<>>, <<Redis!ScanMatch(h, q), Redis!When(ClusterMode, <<Masters[n]>>)>>)]
    BY DEF Redis!Scan, Nodes
  <1>5. PICK s : s = Redis!Scan(h, q)
    OBVIOUS
  <1>6. \A n \in Nat : \A f : f = [i \in 1..n |-> f[i]] => Len(f) = n /\ (f = <<>> <=> n = 0)
    OBVIOUS
  <1>7. Len(s) = Nodes /\ (s = <<>> <=> Nodes = 0)
    BY <1>3, <1>4, <1>5, <1>6
  <1>8. ASSUME NEW i \in 1..Nodes
        PROVE  /\ s[i].cmd = "scan" /\ s[i].args[1] = Redis!ScanMatch(h, q)
               /\ \A k : (ClusterMode => <<MasterOf[k]>> = s[i].args[2]) <=> OnNode(k, i)
    <2>1. s[i] = Redis!Cmd("scan", <<>>, <<Redis!ScanMatch(h, q), Redis!When(ClusterMode, <<Masters[i]>>)>>)
      BY <1>4, <1>5, <1>8
    <2>2. /\ s[i].cmd = "scan"
          /\ s[i].args = <<Redis!ScanMatch(h, q), Redis!When(ClusterMode, <<Masters[i]>>)>>
      BY <2>1 DEF Redis!Cmd
    <2>3. s[i].args[1] = Redis!ScanMatch(h, q) /\ s[i].args[2] = Redis!When(ClusterMode, <<Masters[i]>>)
      BY <2>2
    <2>4. \A a, b : <<a>> = <<b>> <=> a = b
      OBVIOUS
    <2> QED BY <2>2, <2>3, <2>4 DEF OnNode, Redis!When
  <1> QED BY <1>2, <1>3, <1>5, <1>7, <1>8

(* The keys a query's commands may name.                                   *)
Prefixed(h, q) ==
  {k \in Text : \/ \E i \in 1..Len(q.keys) : k = Redis!PrefixKey(h, q.keys[i])
                \/ /\ q.op = "transaction"
                   /\ \E i \in 1..Len(q.args) : \E j \in 1..Len(q.args[i].keys) :
                        k = Redis!PrefixKey(h, q.args[i].keys[j])}

(* A command that changes what its first key holds names one.              *)
Shaped(s) ==
  /\ s.cmd \notin Redis!KeepsContent \cup {"mset", "del"} => s.keys # <<>>
  /\ s.cmd = "rename" => Len(s.keys) = 2

(* What is sent as one unit: its parts, their keys among those a query     *)
(* names.                                                                  *)
CommandOK(h, q, s) ==
  /\ s.keys \in Seq(Prefixed(h, q))
  /\ IsSeq(Redis!Parts(s))
  /\ \A p \in 1..Len(Redis!Parts(s)) : LET t == Redis!Parts(s)[p] IN
       /\ Shaped(t) /\ t.keys \in Seq(Prefixed(h, q))
       /\ \A a \in DOMAIN t.keys : \E b \in DOMAIN s.keys : t.keys[a] = s.keys[b]

(* Prefixed keys are texts, and among those a query names.                 *)
LEMMA PrefixKeysAre ==
  ASSUME KeysTyped, NEW h \in Redis!Handle, NEW c \in Caller, NEW q \in Queries[c]
  PROVE  /\ IsSeq(Redis!PrefixKeys(h, q.keys)) /\ Len(Redis!PrefixKeys(h, q.keys)) = Len(q.keys)
         /\ Redis!PrefixKeys(h, q.keys) \in Seq(Text) /\ Redis!PrefixKeys(h, q.keys) \in Seq(Prefixed(h, q))
         /\ Len(q.keys) \in Nat
         /\ q.keys # <<>> => Redis!PrefixKey(h, q.keys[1]) \in Prefixed(h, q)
  <1>1. PICK s \in Seq(Text), n \in Nat : s = q.keys /\ n = Len(s)
    BY DEF KeysTyped, QueryTyped
  <1>2. PICK f : f = Redis!PrefixKeys(h, s)
    OBVIOUS
  <1>3. f = [i \in 1..n |-> Redis!PrefixKey(h, s[i])]
    BY <1>1, <1>2 DEF Redis!PrefixKeys
  <1>4. ASSUME NEW i \in 1..n PROVE Redis!PrefixKey(h, s[i]) \in Text /\ Redis!PrefixKey(h, s[i]) \in Prefixed(h, q)
    <2>1. s[i] \in Seq(Nat) /\ KeyPrefix[h] \in Seq(Nat)
      BY <1>1 DEF KeysTyped, Text
    <2>2. KeyPrefix[h] \o s[i] \in Seq(Nat)
      BY <2>1
    <2>3. Redis!PrefixKey(h, s[i]) \in Text
      BY <2>2 DEF Redis!PrefixKey, Text
    <2> QED BY <1>1, <2>3 DEF Prefixed
  <1>5. Len(f) = n /\ f = [i \in 1..n |-> f[i]]
    BY <1>3
  <1>6. f \in Seq(Text)
    BY <1>3, <1>4
  <1>7. f \in Seq(Prefixed(h, q))
    BY <1>3, <1>4
  <1>8. s # <<>> => 1 \in 1..n
    BY <1>1
  <1> QED BY <1>1, <1>2, <1>4, <1>5, <1>6, <1>7, <1>8 DEF IsSeq

(* A command is no transaction.                                            *)
LEMMA PlainCommand ==
  ASSUME NEW h, NEW q, NEW s, s.parts = <<>>, s.keys \in Seq(Prefixed(h, q)), Shaped(s)
  PROVE  CommandOK(h, q, s)
  <1>1. Redis!Parts(s) \in {<<>>, <<s>>}
    BY DEF Redis!Parts
  <1>2. Len(<<>>) = 0 /\ <<>> = [i \in 1..0 |-> <<>>[i]]
    OBVIOUS
  <1>3. Len(<<s>>) = 1 /\ <<s>> = [i \in 1..1 |-> <<s>>[i]] /\ \A p \in 1..1 : <<s>>[p] = s
    OBVIOUS
  <1>4. IsSeq(Redis!Parts(s)) /\ \A p \in 1..Len(Redis!Parts(s)) : Redis!Parts(s)[p] = s
    <2>1. CASE Redis!Parts(s) = <<>>
      BY <1>2, <2>1 DEF IsSeq
    <2>2. CASE Redis!Parts(s) = <<s>>
      BY <1>3, <2>2 DEF IsSeq
    <2> QED BY <1>1, <2>1, <2>2
  <1> QED BY <1>4 DEF CommandOK

(* None of the tables leads to RENAME.                                     *)
NotRename(t) == \A op \in DOMAIN t : t[op] # "rename"

(* Nor does their union.                                                   *)
LEMMA ForwardedIs == NotRename(Redis!Forwarded)
  <1>1. \A t \in Redis!Tables : NotRename(t)
    <2>1. NotRename(Redis!CoreCommand)
      BY DEF NotRename, Redis!CoreCommand
    <2>2. NotRename(Redis!KeyCommand)
      BY DEF NotRename, Redis!KeyCommand
    <2>3. NotRename(Redis!HashCommand)
      BY DEF NotRename, Redis!HashCommand
    <2>4. NotRename(Redis!ListCommand)
      BY DEF NotRename, Redis!ListCommand
    <2>5. NotRename(Redis!SetCommand)
      BY DEF NotRename, Redis!SetCommand
    <2>6. NotRename(Redis!SortedSetCommand)
      BY DEF NotRename, Redis!SortedSetCommand
    <2>7. NotRename([incrFloat |-> "incrbyfloat"])
      BY DEF NotRename
    <2> QED BY <2>1, <2>2, <2>3, <2>4, <2>5, <2>6, <2>7 DEF Redis!Tables
  <1>2. ASSUME NEW op \in DOMAIN Redis!Forwarded PROVE Redis!Forwarded[op] # "rename"
    <2>1. PICK t : t = CHOOSE table \in Redis!Tables : op \in DOMAIN table
      OBVIOUS
    <2>2. (\E table \in Redis!Tables : op \in DOMAIN table) /\ Redis!Forwarded[op] = t[op]
      BY <2>1 DEF Redis!Forwarded
    <2>3. t \in Redis!Tables /\ op \in DOMAIN t
      BY <2>1, <2>2
    <2> QED BY <1>1, <2>2, <2>3 DEF NotRename
  <1> QED BY <1>2 DEF NotRename

(* A method on one key sends one command with keys of the query.           *)
LEMMA DirectIs ==
  ASSUME KeysTyped, NEW h \in Redis!Handle, NEW c \in Caller, NEW q \in Queries[c], q.op \in Direct
  PROVE  LET s == Redis!DirectCommand(h, q) IN
         /\ s.parts = <<>>
         /\ \/ s.keys = <<Redis!PrefixKey(h, q.keys[1])>> /\ s.cmd # "rename"
            \/ q.op = "rename" /\ s.keys = Redis!PrefixKeys(h, q.keys)
  <1>1. PICK k : k = Redis!PrefixKey(h, q.keys[1])
    OBVIOUS
  <1>2. PICK s : s = Redis!DirectCommand(h, q)
    OBVIOUS
  <1>3. \/ \E a, d : s = Redis!Cmd(a, <<k>>, d) /\ a # "rename"
        \/ q.op = "rename" /\ \E a, d : s = Redis!Cmd(a, Redis!PrefixKeys(h, q.keys), d)
    <2>1. CASE q.op \in DOMAIN Redis!Forwarded
      BY <1>1, <1>2, <2>1, ForwardedIs DEF NotRename, Redis!DirectCommand, Redis!SetCommandOf, Redis!Counter, Redis!HashIncr,
        Redis!ListPush, Redis!ListPop, Redis!SortedSetRank, Redis!SortedSetRange,
        Redis!SortedSetRangeByScore, Redis!SortedSetIncr
    <2>2. CASE q.op \notin DOMAIN Redis!Forwarded
      <3>1. CASE q.op = "set"
        BY <1>1, <1>2, <2>2, <3>1 DEF Redis!DirectCommand, Redis!SetCommandOf
      <3>2. CASE q.op \in {"incr", "decr"}
        BY <1>1, <1>2, <2>2, <3>2 DEF Redis!DirectCommand, Redis!Counter
      <3>3. CASE q.op = "hashIncr"
        BY <1>1, <1>2, <2>2, <3>3 DEF Redis!DirectCommand, Redis!HashIncr
      <3>4. CASE q.op = "listPush"
        BY <1>1, <1>2, <2>2, <3>4 DEF Redis!DirectCommand, Redis!ListPush
      <3>5. CASE q.op = "listPop"
        BY <1>1, <1>2, <2>2, <3>5 DEF Redis!DirectCommand, Redis!ListPop
      <3>6. CASE q.op = "sortedSetRank"
        BY <1>1, <1>2, <2>2, <3>6 DEF Redis!DirectCommand, Redis!SortedSetRank
      <3>7. CASE q.op = "sortedSetRange"
        BY <1>1, <1>2, <2>2, <3>7 DEF Redis!DirectCommand, Redis!SortedSetRange
      <3>8. CASE q.op = "sortedSetRangeByScore"
        BY <1>1, <1>2, <2>2, <3>8 DEF Redis!DirectCommand, Redis!SortedSetRangeByScore
      <3>9. CASE q.op = "sortedSetIncr"
        BY <1>1, <1>2, <2>2, <3>9 DEF Redis!DirectCommand, Redis!SortedSetIncr
      <3>10. CASE q.op = "rename"
        BY <1>2, <2>2, <3>10 DEF Redis!DirectCommand
      <3> QED BY <2>2, <3>1, <3>2, <3>3, <3>4, <3>5, <3>6, <3>7, <3>8, <3>9, <3>10 DEF Direct
    <2> QED BY <2>1, <2>2
  <1>4. \A a, b, d, t : t = Redis!Cmd(a, b, d) => t.parts = <<>> /\ t.keys = b /\ t.cmd = a
    BY DEF Redis!Cmd
  <1> QED BY <1>1, <1>2, <1>3, <1>4

(* The keys of a command have one slot for the client.                     *)
SlotOK(s) == ClusterMode => \A a, b \in DOMAIN s.keys : ClientSlot[s.keys[a]] = ClientSlot[s.keys[b]]

(* A call that assertSameSlot accepts.                                     *)
Accepted(q, commands) == ~Redis!SlotRefused(q, commands)

(* The fields of a command.                                                *)
LEMMA CmdFields ==
  ASSUME NEW a, NEW b, NEW d, NEW s, s = Redis!Cmd(a, b, d)
  PROVE  s.cmd = a /\ s.keys = b /\ s.args = d /\ s.parts = <<>>
  BY DEF Redis!Cmd

(* One command is a sequence of them.                                      *)
LEMMA Alone ==
  ASSUME NEW s
  PROVE  IsSeq(<<s>>) /\ Len(<<s>>) = 1 /\ \A i \in 1..Len(<<s>>) : <<s>>[i] = s
  BY DEF IsSeq

(* What assertSameSlot lets pass has keys of one slot.                     *)
LEMMA SameSlots ==
  ASSUME NEW q, NEW s, q.op \in {"rename", "transaction"} \cup DOMAIN Redis!OneSlot,
         Accepted(q, <<s>>)
  PROVE  SlotOK(s)
  <1>1. ClusterMode => Redis!AllSame(s.keys)
    BY DEF Accepted, Redis!SlotRefused
  <1> QED BY <1>1 DEF SlotOK, Redis!AllSame

(* Picked elements are elements.                                           *)
LEMMA PickedIs ==
  ASSUME NEW S, NEW keys \in Seq(S), NEW s \in Seq(1..Len(keys))
  PROVE  /\ Redis!Picked(keys, s) \in Seq(S) /\ DOMAIN Redis!Picked(keys, s) = DOMAIN s
         /\ \A j \in DOMAIN s : Redis!Picked(keys, s)[j] = keys[s[j]]
  <1>1. PICK n \in Nat : s \in [1..n -> 1..Len(keys)] /\ DOMAIN s = 1..n
    OBVIOUS
  <1>2. PICK f : f = [j \in 1..n |-> keys[s[j]]]
    OBVIOUS
  <1>3. Redis!Picked(keys, s) = f
    BY <1>1, <1>2 DEF Redis!Picked
  <1>4. \A j \in 1..n : keys[s[j]] \in S
    BY <1>1
  <1>5. f \in [1..n -> S]
    BY <1>2, <1>4
  <1>6. f \in Seq(S)
    BY <1>5
  <1> QED BY <1>1, <1>2, <1>3, <1>6

(* Every command of a batch is well made and of one slot.                  *)
LEMMA BatchIs ==
  ASSUME KeysTyped, NEW h \in Redis!Handle, NEW c \in Caller, NEW q \in Queries[c], q.op \in Batched
  PROVE  LET commands == Redis!Commands(h, q) IN
         /\ IsSeq(commands)
         /\ \A i \in 1..Len(commands) : CommandOK(h, q, commands[i]) /\ SlotOK(commands[i])
  <1>1. PICK keys : keys = Redis!PrefixKeys(h, q.keys)
    OBVIOUS
  <1>2. keys \in Seq(Text) /\ keys \in Seq(Prefixed(h, q))
    BY <1>1, PrefixKeysAre
  <1>3. PICK gs : gs = Redis!Groups(keys)
    OBVIOUS
  <1>4. IsSeq(gs) /\ \A g \in 1..Len(gs) : GroupOK(keys, gs[g])
    BY <1>2, <1>3, GroupsAre
  <1>5. DOMAIN gs = 1..Len(gs) /\ Len(gs) \in Nat
    BY <1>4 DEF IsSeq
  <1>6. PICK f : f = Redis!Commands(h, q)
    OBVIOUS
  <1>7. /\ f = [g \in 1..Len(gs) |-> f[g]]
        /\ \A g \in 1..Len(gs) : \E a \in {"mget", "mset", "del"} : \E d :
             f[g] = Redis!Cmd(a, Redis!Picked(keys, gs[g]), d)
    <2>0. DOMAIN Redis!OneSlot = {"setUnion", "setIntersect", "setDiff"}
      BY DEF Redis!OneSlot
    <2>1. CASE q.op = "mget"
      <3>1. f = Redis!MGet(h, q)
        BY <1>6, <2>0, <2>1 DEF Redis!Commands
      <3> QED BY <1>1, <1>3, <1>5, <3>1 DEF Redis!MGet
    <2>2. CASE q.op = "mset"
      <3>1. f = Redis!MSet(h, q)
        BY <1>6, <2>0, <2>2 DEF Redis!Commands
      <3> QED BY <1>1, <1>3, <1>5, <3>1 DEF Redis!MSet
    <2>3. CASE q.op = "mdelete"
      <3>1. f = Redis!MDelete(h, q)
        BY <1>6, <2>0, <2>3 DEF Redis!Commands
      <3> QED BY <1>1, <1>3, <1>5, <3>1 DEF Redis!MDelete
    <2> QED BY <2>1, <2>2, <2>3 DEF Batched
  <1>8. Len(f) = Len(gs)
    BY <1>5, <1>7
  <1>9. ASSUME NEW g \in 1..Len(gs) PROVE CommandOK(h, q, f[g]) /\ SlotOK(f[g])
    <2>1. PICK s, t : s = f[g] /\ t = gs[g]
      OBVIOUS
    <2>2. s.keys = Redis!Picked(keys, t) /\ s.parts = <<>> /\ s.cmd \in {"mget", "mset", "del"}
      BY <1>7, <2>1, CmdFields
    <2>7. Shaped(s)
      BY <2>2 DEF Shaped, Redis!KeepsContent
    <2>3. t \in Seq(1..Len(keys))
          /\ (ClusterMode => \A a, b \in DOMAIN t : ClientSlot[keys[t[a]]] = ClientSlot[keys[t[b]]])
      BY <1>4, <2>1 DEF GroupOK
    <2>4. s.keys \in Seq(Prefixed(h, q)) /\ DOMAIN s.keys = DOMAIN t
          /\ \A j \in DOMAIN t : s.keys[j] = keys[t[j]]
      BY <1>2, <2>2, <2>3, PickedIs
    <2>5. CommandOK(h, q, s)
      BY <2>2, <2>4, <2>7, PlainCommand
    <2>6. SlotOK(s)
      BY <2>3, <2>4 DEF SlotOK
    <2> QED BY <2>1, <2>5, <2>6
  <1> QED BY <1>5, <1>6, <1>7, <1>8, <1>9 DEF IsSeq

(* So is that of a method that sends one, unless it is refused.            *)
LEMMA SingleIs ==
  ASSUME KeysTyped, NEW h \in Redis!Handle, NEW c \in Caller, NEW q \in Queries[c],
         q.op \in Direct \cup DOMAIN Redis!OneSlot, q.op \notin Batched \cup {"scan", "transaction"}
  PROVE  LET commands == Redis!Commands(h, q) IN
         /\ IsSeq(commands)
         /\ \A i \in 1..Len(commands) :
              CommandOK(h, q, commands[i]) /\ (Accepted(q, commands) => SlotOK(commands[i]))
  <1>0. DOMAIN Redis!OneSlot = {"setUnion", "setIntersect", "setDiff"}
    BY DEF Redis!OneSlot
  <1>1. PICK keys : keys = Redis!PrefixKeys(h, q.keys) /\ keys \in Seq(Prefixed(h, q))
    BY PrefixKeysAre
  <1>2. PICK s : /\ Redis!Commands(h, q) = <<s>>
                 /\ s.parts = <<>>
                 /\ \/ s.keys = <<Redis!PrefixKey(h, q.keys[1])>> /\ q.op \in Direct /\ s.cmd # "rename"
                    \/ s.keys = keys /\ q.op = "rename"
                    \/ s.keys = keys /\ q.op \in DOMAIN Redis!OneSlot /\ s.cmd \in {"sunion", "sinter", "sdiff"}
    <2>1. CASE q.op \in DOMAIN Redis!OneSlot
      <3>1. Redis!Commands(h, q) = <<Redis!Cmd(Redis!OneSlot[q.op], keys, <<>>)>>
        BY <1>0, <1>1, <2>1 DEF Redis!Commands, Batched
      <3>2. Redis!OneSlot[q.op] \in {"sunion", "sinter", "sdiff"}
        BY <2>1 DEF Redis!OneSlot
      <3> QED BY <1>1, <2>1, <3>1, <3>2, CmdFields
    <2>2. CASE q.op \notin DOMAIN Redis!OneSlot
      <3>1. Redis!Commands(h, q) = <<Redis!DirectCommand(h, q)>>
        BY <1>0, <2>2 DEF Redis!Commands, Batched
      <3> QED BY <1>1, <2>2, <3>1, DirectIs
    <2> QED BY <2>1, <2>2
  <1>3. s.keys \in Seq(Prefixed(h, q))
    <2>1. CASE s.keys = <<Redis!PrefixKey(h, q.keys[1])>> /\ q.op \in Direct
      <3>1. PICK k \in Prefixed(h, q) : k = Redis!PrefixKey(h, q.keys[1])
        BY <2>1, PrefixKeysAre DEF KeysTyped, QueryTyped
      <3> QED BY <2>1, <3>1
    <2> QED BY <1>1, <1>2, <2>1
  <1>6. Shaped(s)
    <2>1. CASE s.keys = <<Redis!PrefixKey(h, q.keys[1])>> /\ s.cmd # "rename"
      <3>1. \A k : <<k>> # <<>>
        OBVIOUS
      <3> QED BY <2>1, <3>1 DEF Shaped
    <2>2. CASE s.keys = keys /\ q.op = "rename"
      <3>1. Len(keys) = 2 /\ keys # <<>>
        BY <1>1, <2>2, PrefixKeysAre DEF KeysTyped, QueryTyped
      <3> QED BY <2>2, <3>1 DEF Shaped
    <2>3. CASE s.cmd \in {"sunion", "sinter", "sdiff"}
      BY <2>3 DEF Shaped, Redis!KeepsContent
    <2> QED BY <1>2, <2>1, <2>2, <2>3
  <1>4. CommandOK(h, q, s)
    BY <1>2, <1>3, <1>6, PlainCommand
  <1>5. Accepted(q, <<s>>) => SlotOK(s)
    <2>1. CASE s.keys = <<Redis!PrefixKey(h, q.keys[1])>>
      <3>1. \A k : \A a, b \in DOMAIN <<k>> : a = b
        OBVIOUS
      <3> QED BY <2>1, <3>1 DEF SlotOK
    <2>2. CASE q.op \in {"rename"} \cup DOMAIN Redis!OneSlot
      BY <2>2, SameSlots
    <2> QED BY <1>2, <2>1, <2>2
  <1> QED BY <1>2, <1>4, <1>5, Alone

(* No command is a sequence of them.                                       *)
LEMMA NoCommand == IsSeq(<<>>) /\ Len(<<>>) = 0
  <1>1. PICK e : e = <<>>
    OBVIOUS
  <1>2. Len(e) = 0 /\ e = [i \in 1..0 |-> e[i]]
    BY <1>1
  <1> QED BY <1>1, <1>2 DEF IsSeq

(* Only rename queues a RENAME.                                            *)
LEMMA QueuedRename ==
  ASSUME NEW q, q.op \in Queueable, Redis!QueuedCall(q)[1] = "rename"
  PROVE  q.op = "rename"
  <1>1. \A op \in DOMAIN Redis!QueuedName : Redis!QueuedName[op] = "rename" => op = "rename"
    BY DEF Redis!QueuedName
  <1>2. DOMAIN Redis!QueuedName \cap {"set", "incr", "decr", "hashIncr", "listPush", "sortedSetIncr"} = {}
    BY DEF Redis!QueuedName
  <1>3. \A a, b : <<a, b>>[1] = a
    OBVIOUS
  <1>4. CASE q.op \in DOMAIN Redis!QueuedName
    BY <1>1, <1>2, <1>3, <1>4 DEF Redis!QueuedCall
  <1>5. CASE q.op \notin DOMAIN Redis!QueuedName
    BY <1>3, <1>5 DEF Redis!QueuedCall, Redis!QueuedCounter, Queueable
  <1> QED BY <1>4, <1>5

(* So are the parts of a transaction, unless it is refused.                *)
LEMMA TransactionIs ==
  ASSUME KeysTyped, NEW h \in Redis!Handle, NEW c \in Caller, NEW q \in Queries[c],
         q.op = "transaction"
  PROVE  LET commands == Redis!Commands(h, q) IN
         /\ IsSeq(commands)
         /\ \A i \in 1..Len(commands) :
              CommandOK(h, q, commands[i]) /\ (Accepted(q, commands) => SlotOK(commands[i]))
  <1>1. PICK n \in Nat : n = Len(q.args) /\ q.args = [i \in 1..n |-> q.args[i]]
                         /\ \A i \in 1..n : QueuedTyped(q.args[i])
    BY DEF KeysTyped, QueryTyped, IsSeq
  <1>2. PICK ks : ks = [i \in 1..n |-> Redis!BuilderKeys(h, q.args[i])]
    OBVIOUS
  <1>3. PICK ps : ps = [i \in 1..n |-> Redis!Queued(h, q.args[i])]
    OBVIOUS
  <1>4. PICK s : s = Redis!Transaction(h, q)
    OBVIOUS
  <1>5. s.cmd = "multi" /\ s.keys = Redis!FlattenSeq(ks) /\ s.parts = ps
    <2>1. DOMAIN q.args = 1..n
      BY <1>1
    <2> QED BY <1>2, <1>3, <1>4, <2>1 DEF Redis!Transaction
  <1>6. ASSUME NEW i \in 1..n
        PROVE  ps[i].keys = ks[i] /\ ks[i] \in Seq(Prefixed(h, q)) /\ Shaped(ps[i])
    <2>1. ps[i].keys = ks[i]
      BY <1>2, <1>3 DEF Redis!Queued, Redis!Cmd
    <2>2. PICK m \in Nat, t \in Seq(Text) : t = q.args[i].keys /\ m = Len(t) /\ DOMAIN t = 1..m
      <3>1. PICK t \in Seq(Text) : t = q.args[i].keys
        BY <1>1 DEF QueuedTyped
      <3>2. Len(t) \in Nat /\ DOMAIN t = 1..Len(t)
        OBVIOUS
      <3> QED BY <3>1, <3>2
    <2>3. PICK f : f = [j \in 1..m |-> KeyPrefix[h] \o t[j]]
      OBVIOUS
    <2>4. ks[i] = f
      BY <1>2, <2>2, <2>3 DEF Redis!BuilderKeys
    <2>5. ASSUME NEW j \in 1..m PROVE KeyPrefix[h] \o t[j] \in Prefixed(h, q)
      <3>1. t[j] \in Seq(Nat) /\ KeyPrefix[h] \in Seq(Nat)
        BY <2>2 DEF KeysTyped, Text
      <3>2. KeyPrefix[h] \o t[j] \in Text
        BY <3>1 DEF Text
      <3> QED BY <1>1, <2>2, <3>2 DEF Prefixed, Redis!PrefixKey
    <2>6. f \in [1..m -> Prefixed(h, q)]
      BY <2>3, <2>5
    <2>7. f \in Seq(Prefixed(h, q))
      BY <2>6
    <2>8. Len(f) = m
      BY <2>3
    <2>9. PICK a : a = q.args[i] /\ QueuedTyped(a) /\ ps[i] = Redis!Queued(h, a)
      BY <1>1, <1>3
    <2>10. ps[i].cmd = "rename" => a.op = "rename"
      BY <2>9, QueuedRename DEF QueuedTyped, Redis!Queued, Redis!Cmd
    <2>11. m # 0 /\ (a.op = "rename" => m = 2)
      BY <2>2, <2>9 DEF QueuedTyped
    <2>12. f # <<>>
      BY <2>8, <2>11
    <2>13. Shaped(ps[i])
      BY <2>1, <2>4, <2>8, <2>10, <2>11, <2>12 DEF Shaped
    <2> QED BY <2>1, <2>4, <2>7, <2>13
  <1>7. PICK F : F = Redis!FlattenSeq(ks) /\ KeepsAll(F, ks, n, Prefixed(h, q))
    BY <1>2, <1>6, FlatKeeps
  <1>8. CommandOK(h, q, s)
    <2>1. Redis!Parts(s) = ps
      BY <1>5 DEF Redis!Parts
    <2>2. Len(ps) = n /\ IsSeq(ps)
      BY <1>3 DEF IsSeq
    <2>3. F \in Seq(Prefixed(h, q)) /\ DOMAIN F = 1..Len(F)
      BY <1>7 DEF KeepsAll
    <2>4. ASSUME NEW i \in 1..n
          PROVE  /\ Shaped(ps[i]) /\ ps[i].keys \in Seq(Prefixed(h, q))
                 /\ \A a \in DOMAIN ps[i].keys : \E b \in DOMAIN F : ps[i].keys[a] = F[b]
      <3>1. PICK t \in Seq(Prefixed(h, q)) : t = ks[i] /\ t = ps[i].keys
        BY <1>6
      <3>0. DOMAIN t = 1..Len(t)
        OBVIOUS
      <3>2. \A j \in 1..Len(t) : \E m \in 1..Len(F) : F[m] = t[j]
        <4>1. \A j \in 1..Len(ks[i]) : \E m \in 1..Len(F) : F[m] = ks[i][j]
          BY <1>7 DEF KeepsAll
        <4> QED BY <3>1, <4>1
      <3> QED BY <1>6, <2>3, <3>0, <3>1, <3>2
    <2> QED BY <1>5, <1>7, <2>1, <2>2, <2>3, <2>4 DEF CommandOK
  <1>9. Redis!Commands(h, q) \in {<<>>, <<s>>}
    <2>1. DOMAIN Redis!OneSlot = {"setUnion", "setIntersect", "setDiff"}
      BY DEF Redis!OneSlot
    <2> QED BY <1>4, <2>1 DEF Redis!Commands, Redis!When
  <1>10. Accepted(q, <<s>>) => SlotOK(s)
    BY SameSlots
  <1>11. CASE Redis!Commands(h, q) = <<>>
    BY <1>11, NoCommand
  <1>12. CASE Redis!Commands(h, q) = <<s>>
    BY <1>8, <1>10, <1>12, Alone
  <1> QED BY <1>9, <1>11, <1>12

(* So is every command a query sends.                                      *)
LEMMA CommandsAre ==
  ASSUME KeysTyped, NEW h \in Redis!Handle, NEW c \in Caller, NEW q \in Queries[c]
  PROVE  LET commands == Redis!Commands(h, q) IN
         /\ IsSeq(commands)
         /\ \A i \in 1..Len(commands) :
              CommandOK(h, q, commands[i]) /\ (Accepted(q, commands) => SlotOK(commands[i]))
  <1>1. CASE q.op \in Batched
    BY <1>1, BatchIs
  <1>2. CASE q.op = "transaction"
    BY <1>2, TransactionIs
  <1>3. CASE q.op = "scan"
    <2>1. PICK f : f = Redis!Scan(h, q)
      OBVIOUS
    <2>2. Redis!Commands(h, q) = f /\ Len(f) = Nodes /\ Nodes \in Nat
      BY <1>3, <2>1, ScanCommands
    <2>3. /\ f = [i \in 1..Nodes |-> f[i]]
          /\ \A i \in 1..Nodes : \E d : f[i] = Redis!Cmd("scan", <<>>, d)
      BY <2>1 DEF Redis!Scan, Nodes
    <2>4. ASSUME NEW i \in 1..Nodes PROVE CommandOK(h, q, f[i]) /\ SlotOK(f[i])
      <3>1. PICK s : s = f[i] /\ s.keys = <<>> /\ s.parts = <<>> /\ s.cmd = "scan"
        BY <2>3, CmdFields
      <3>5. Shaped(s)
        BY <3>1 DEF Shaped, Redis!KeepsContent
      <3>2. s.keys \in Seq(Prefixed(h, q)) /\ DOMAIN s.keys = {}
        BY <3>1
      <3>3. CommandOK(h, q, s)
        BY <3>1, <3>2, <3>5, PlainCommand
      <3>4. SlotOK(s)
        BY <3>2 DEF SlotOK
      <3> QED BY <3>1, <3>3, <3>4
    <2> QED BY <2>2, <2>3, <2>4 DEF IsSeq
  <1>4. CASE q.op \notin Batched \cup {"scan", "transaction"}
    <2>1. q.op \in Direct \cup DOMAIN Redis!OneSlot
      BY <1>4 DEF KeysTyped, QueryTyped
    <2> QED BY <1>4, <2>1, SingleIs
  <1> QED BY <1>1, <1>2, <1>3, <1>4

(* The fields of a call that was made.                                     *)
Made(m) ==
  m = [h |-> m.h, q |-> m.q, cmds |-> m.cmds, at |-> m.at, got |-> m.got, resent |-> m.resent,
       out |-> m.out, st |-> m.st]

(* A call that is under way has a command to send, and assertSameSlot let  *)
(* it pass.                                                                *)
Ready(m) == m.st = "running" => m.at \in 1..Len(m.cmds) /\ Accepted(m.q, m.cmds)

(* A call sends the commands of its query.                                 *)
CallOK(c) ==
  call[c].st # "idle" =>
    /\ Made(call[c]) /\ Ready(call[c]) /\ call[c].h \in Redis!Handle /\ call[c].q \in Queries[c]
    /\ call[c].cmds = Redis!Commands(call[c].h, call[c].q)
    /\ call[c].st \in {"running", "ok", "error"}

(* A scan has yielded what it got, the keys that were there throughout on  *)
(* the nodes it is done with among it.                                     *)
ScanOK(m, sight) ==
  m.st \in {"running", "ok"} /\ m.q.op = "scan" =>
    /\ m.at \in 1..(Nodes + 1) /\ (m.st = "ok" <=> m.at = Nodes + 1)
    /\ m.out = {Redis!StripPrefix(m.h, k) : k \in m.got}
    /\ \A k \in m.got :
         k \in Key /\ Redis!Matches(Redis!ScanMatch(m.h, m.q), k) /\ sight[k] \ {Absent} # {}
    /\ \A k \in Key : \A i \in 1..(m.at - 1) :
         OnNode(k, i) /\ Absent \notin sight[k] /\ Redis!Matches(Redis!ScanMatch(m.h, m.q), k) => k \in m.got

(* The inductive invariant of ScanFaithful and NoCrossSlot.                *)
ScanInv ==
  /\ DOMAIN call = Caller /\ DOMAIN seen = Caller
  /\ \A c \in Caller : CallOK(c) /\ ScanOK(call[c], seen[c])

(* It holds at first.                                                      *)
LEMMA InitScanInv == Redis!Init => ScanInv
  BY DEF Redis!Init, ScanInv, CallOK, ScanOK

(* What a call has seen is not forgotten.                                  *)
LEMMA Remembered ==
  ASSUME NEW m, NEW s, NEW t, ScanOK(m, s), \A k \in Key : s[k] \subseteq t[k]
  PROVE  ScanOK(m, t)
  BY DEF ScanOK

(* Observing adds what is there to what a call has seen.                   *)
LEMMA Observed ==
  ASSUME ScanInv, NEW masters, NEW replicas, Redis!Observe(masters, replicas)
  PROVE  /\ DOMAIN seen' = Caller
         /\ \A c \in Caller :
              /\ call[c].st = "running" /\ call[c].q.op = "scan" =>
                   \A k \in Key : seen'[c][k] = seen[c][k] \cup {masters[k]}
              /\ ScanOK(call[c], seen'[c])
  <1>1. DOMAIN seen' = Caller
    BY DEF Redis!Observe
  <1>2. ASSUME NEW c \in Caller
        PROVE  /\ call[c].st = "running" /\ call[c].q.op = "scan" =>
                    \A k \in Key : seen'[c][k] = seen[c][k] \cup {masters[k]}
               /\ ScanOK(call[c], seen'[c])
    <2>1. CASE call[c].st = "running" /\ call[c].q.op \in {"get", "mget", "scan"}
      <3>1. PICK contents :
              /\ call[c].q.op = "scan" => contents = masters
              /\ seen'[c] = [k \in Key |-> seen[c][k] \cup {contents[k]}]
        BY <2>1 DEF Redis!Observe, Redis!Running, Redis!FromReplica
      <3>2. \A k \in Key : seen'[c][k] = seen[c][k] \cup {contents[k]}
        BY <3>1
      <3>3. ScanOK(call[c], seen'[c])
        BY <3>2, Remembered DEF ScanInv
      <3> QED BY <3>1, <3>2, <3>3
    <2>2. CASE ~(call[c].st = "running" /\ call[c].q.op \in {"get", "mget", "scan"})
      <3>1. seen'[c] = seen[c]
        BY <2>2 DEF Redis!Observe, Redis!Running
      <3> QED BY <2>2, <3>1 DEF ScanInv
    <2> QED BY <2>1, <2>2
  <1> QED BY <1>1, <1>2

(* A step that leaves every call but one and observes what it leaves.      *)
LEMMA OneCall ==
  ASSUME ScanInv, NEW c \in Caller, NEW m, Made(m), call' = [call EXCEPT ![c] = m],
         DOMAIN seen' = Caller, \A d \in Caller : d # c => ScanOK(call[d], seen'[d]),
         m.h \in Redis!Handle, m.q \in Queries[c], m.cmds = Redis!Commands(m.h, m.q),
         m.st \in {"running", "ok", "error"}, Ready(m), ScanOK(m, seen'[c])
  PROVE  ScanInv'
  <1>1. DOMAIN call' = Caller /\ call'[c] = m /\ \A d \in Caller : d # c => call'[d] = call[d]
    BY DEF ScanInv
  <1>2. (ScanOK(m, seen[c]))' <=> ScanOK(m, seen'[c])
    BY DEF ScanOK
  <1>3. ASSUME NEW d \in Caller
        PROVE  CallOK(d)' /\ ScanOK(call[d], seen[d])'
    <2>1. CASE d = c
      <3>1. CallOK(d)'
        BY <1>1, <2>1 DEF CallOK, Ready
      <3>2. ScanOK(call'[d], seen'[d])
        BY <1>1, <2>1
      <3> QED BY <3>1, <3>2
    <2>2. CASE d # c
      <3>1. call'[d] = call[d]
        BY <1>1, <2>2
      <3>2. CallOK(d) /\ ScanOK(call[d], seen'[d])
        BY <2>2 DEF ScanInv
      <3>3. CallOK(d)'
        BY <3>1, <3>2 DEF CallOK, Ready
      <3>4. ScanOK(call'[d], seen'[d])
        BY <3>1, <3>2
      <3> QED BY <3>3, <3>4
    <2> QED BY <2>1, <2>2
  <1> QED BY <1>1, <1>3 DEF ScanInv

(* A call that begins has nothing behind it.                               *)
LEMMA BeginScan ==
  ASSUME KeysTyped, ScanInv, NEW c \in Caller, NEW h \in Redis!Handle, NEW q \in Queries[c],
         Redis!Begin(c, h, q)
  PROVE  ScanInv'
  <1>1. PICK m : m = [h |-> h, q |-> q, cmds |-> Redis!Commands(h, q), at |-> 1, got |-> {},
            resent |-> 0, out |-> Redis!FirstOut(q),
            st |-> CASE Redis!SlotRefused(q, Redis!Commands(h, q)) -> "error"
                     [] Redis!Commands(h, q) = <<>> -> "ok"
                     [] OTHER -> "running"]
    OBVIOUS
  <1>2. call' = [call EXCEPT ![c] = m]
    BY <1>1 DEF Redis!Begin
  <1>3. /\ Made(m) /\ m.h = h /\ m.q = q /\ m.cmds = Redis!Commands(h, q)
        /\ m.at = 1 /\ m.got = {} /\ m.out = Redis!FirstOut(q)
    BY <1>1 DEF Made
  <1>4. m.st = CASE Redis!SlotRefused(q, Redis!Commands(h, q)) -> "error"
                 [] Redis!Commands(h, q) = <<>> -> "ok"
                 [] OTHER -> "running"
    BY <1>1
  <1>5. m.st \in {"running", "ok", "error"}
    BY <1>4
  <1>6. DOMAIN seen' = Caller /\ \A d \in Caller : d # c => seen'[d] = seen[d]
    BY DEF Redis!Begin, ScanInv
  <1>7. \A d \in Caller : d # c => ScanOK(call[d], seen'[d])
    BY <1>6 DEF ScanInv
  <1>8. ScanOK(m, seen'[c])
    <2>1. SUFFICES ASSUME m.st \in {"running", "ok"}, q.op = "scan"
                   PROVE  /\ m.at \in 1..(Nodes + 1) /\ (m.st = "ok" <=> m.at = Nodes + 1)
                          /\ m.out = {}
      BY <1>3 DEF ScanOK
    <2>2. ~Redis!SlotRefused(q, Redis!Commands(h, q))
      BY <2>1 DEF Redis!SlotRefused, Redis!OneSlot
    <2>3. Nodes \in Nat /\ (Redis!Commands(h, q) = <<>> <=> Nodes = 0)
      BY <2>1, ScanCommands
    <2>4. m.st = "ok" <=> Nodes = 0
      BY <1>4, <2>2, <2>3
    <2>5. m.out = {}
      BY <1>3, <2>1 DEF Redis!FirstOut
    <2> QED BY <1>3, <2>3, <2>4, <2>5
  <1>9. Ready(m)
    <2>1. SUFFICES ASSUME m.st = "running" PROVE 1 \in 1..Len(m.cmds) /\ Accepted(q, m.cmds)
      BY <1>3 DEF Ready
    <2>2. Accepted(q, m.cmds) /\ m.cmds # <<>>
      BY <1>3, <1>4, <2>1 DEF Accepted
    <2>3. PICK f : f = m.cmds /\ IsSeq(f)
      BY <1>3, CommandsAre
    <2>4. Len(f) = 0 => f = <<>>
      BY <2>3 DEF IsSeq
    <2>5. Len(f) \in Nat \ {0}
      BY <2>2, <2>3, <2>4 DEF IsSeq
    <2> QED BY <2>2, <2>3, <2>5
  <1> QED BY <1>2, <1>3, <1>5, <1>6, <1>7, <1>8, <1>9, OneCall

(* A call that is not a scan, or that is rejected, has nothing to keep.    *)
LEMMA NoScan ==
  ASSUME KeysTyped, ScanInv, NEW c \in Caller, Redis!Running(c), NEW m, Made(m),
         call' = [call EXCEPT ![c] = m],
         m.h = call[c].h, m.q = call[c].q, m.cmds = call[c].cmds,
         m.st \in {"running", "ok", "error"}, Ready(m), m.q.op # "scan" \/ m.st = "error",
         NEW masters, NEW replicas, Redis!Observe(masters, replicas)
  PROVE  ScanInv'
  <1>1. DOMAIN seen' = Caller /\ \A d \in Caller : ScanOK(call[d], seen'[d])
    BY Observed
  <1>2. ScanOK(m, seen'[c])
    BY DEF ScanOK
  <1>3. m.h \in Redis!Handle /\ m.q \in Queries[c] /\ m.cmds = Redis!Commands(m.h, m.q)
    BY DEF ScanInv, CallOK, Redis!Running
  <1> QED BY <1>1, <1>2, <1>3, OneCall

(* The node a scan is at, and what it asks it.                             *)
LEMMA ScanningNode ==
  ASSUME KeysTyped, ScanInv, NEW c \in Caller, Redis!Running(c), call[c].q.op = "scan"
  PROVE  LET i == call[c].at IN
         /\ i \in 1..Nodes /\ Nodes \in Nat /\ Len(call[c].cmds) = Nodes
         /\ Redis!Current(c).cmd = "scan"
         /\ Redis!Current(c).args[1] = Redis!ScanMatch(call[c].h, call[c].q)
         /\ \A k : (ClusterMode => <<MasterOf[k]>> = Redis!Current(c).args[2]) <=> OnNode(k, i)
  <1>1. PICK i : i = call[c].at
    OBVIOUS
  <1>2. call[c].cmds = Redis!Scan(call[c].h, call[c].q)
    BY ScanCommands DEF ScanInv, CallOK, Redis!Running
  <1>3. Nodes \in Nat /\ Len(call[c].cmds) = Nodes
    BY <1>2, ScanCommands
  <1>4. i \in 1..(Nodes + 1) /\ i # Nodes + 1
    BY <1>1 DEF ScanInv, ScanOK, Redis!Running
  <1>5. i \in 1..Nodes
    BY <1>3, <1>4
  <1>6. PICK s : s = Redis!Current(c)
    OBVIOUS
  <1>7. s = Redis!Scan(call[c].h, call[c].q)[i]
    BY <1>1, <1>2, <1>6 DEF Redis!Current
  <1>8. /\ s.cmd = "scan"
        /\ s.args[1] = Redis!ScanMatch(call[c].h, call[c].q)
        /\ \A k : (ClusterMode => <<MasterOf[k]>> = s.args[2]) <=> OnNode(k, i)
    BY <1>5, <1>7, ScanCommands
  <1> QED BY <1>1, <1>3, <1>5, <1>6, <1>8

(* What Advance makes of a call.                                           *)
LEMMA AdvancedScan ==
  ASSUME KeysTyped, ScanInv, NEW c \in Caller, Redis!Running(c), NEW g, NEW o, Redis!Advance(c, g, o)
  PROVE  \E m : /\ Made(m) /\ Ready(m) /\ call' = [call EXCEPT ![c] = m]
                /\ m.h = call[c].h /\ m.q = call[c].q /\ m.cmds = call[c].cmds
                /\ m.at = call[c].at + 1 /\ m.got = g /\ m.out = o
                /\ m.st = IF call[c].at = Len(call[c].cmds) THEN "ok" ELSE "running"
  <1>1. PICK w : w = call[c]
    OBVIOUS
  <1>2. PICK st : st = IF w.at = Len(w.cmds) THEN "ok" ELSE "running"
    OBVIOUS
  <1>3. PICK a : a = w.at + 1
    OBVIOUS
  <1>4. PICK m : m = Redis!Kept(w, a, g, o, st)
    OBVIOUS
  <1>5. call' = [call EXCEPT ![c] = m]
    BY <1>1, <1>2, <1>3, <1>4 DEF Redis!Advance
  <1>6. /\ Made(m) /\ m.h = w.h /\ m.q = w.q /\ m.cmds = w.cmds
        /\ m.at = a /\ m.got = g /\ m.out = o /\ m.st = st
    BY <1>4 DEF Redis!Kept, Made
  <1>7. Ready(m)
    <2>1. w.at \in 1..Len(w.cmds) /\ Accepted(w.q, w.cmds) /\ w.cmds = Redis!Commands(w.h, w.q)
          /\ w.h \in Redis!Handle /\ w.q \in Queries[c]
      BY <1>1 DEF ScanInv, CallOK, Ready, Redis!Running
    <2>2. Len(w.cmds) \in Nat
      BY <2>1, CommandsAre DEF IsSeq
    <2>3. w.at # Len(w.cmds) => a \in 1..Len(w.cmds)
      BY <1>3, <2>1, <2>2
    <2>4. m.st = "running" => w.at # Len(w.cmds)
      BY <1>2, <1>6
    <2> QED BY <1>6, <2>1, <2>3, <2>4 DEF Ready
  <1> QED BY <1>1, <1>2, <1>3, <1>5, <1>6, <1>7

(* What Reject makes of a call.                                            *)
LEMMA RejectedScan ==
  ASSUME ScanInv, NEW c \in Caller, Redis!Running(c), Redis!Reject(c)
  PROVE  \E m : /\ Made(m) /\ call' = [call EXCEPT ![c] = m]
                /\ m.h = call[c].h /\ m.q = call[c].q /\ m.cmds = call[c].cmds /\ m.st = "error"
  <1>1. PICK w : w = call[c]
    OBVIOUS
  <1>2. Made(w)
    BY <1>1 DEF ScanInv, CallOK, Redis!Running
  <1>3. call' = [call EXCEPT ![c] = [w EXCEPT !.st = "error"]]
    BY <1>1 DEF Redis!Reject, ScanInv
  <1>4. PICK m : m = [h |-> w.h, q |-> w.q, cmds |-> w.cmds, at |-> w.at, got |-> w.got,
                      resent |-> w.resent, out |-> w.out, st |-> "error"]
    OBVIOUS
  <1>5. [w EXCEPT !.st = "error"] = m
    BY <1>2, <1>4 DEF Made
  <1>6. Made(m)
    BY <1>4 DEF Made
  <1> QED BY <1>1, <1>3, <1>4, <1>5, <1>6

(* Commands that are carried out.                                          *)
LEMMA ExecutedScan ==
  ASSUME KeysTyped, ScanInv, NEW c \in Caller, Redis!Executed(c)
  PROVE  ScanInv'
  <1>1. Redis!Running(c) /\ call[c].q.op # "scan"
    BY ScanningNode DEF Redis!Executed
  <1>2. PICK masters, replicas : Redis!Observe(masters, replicas)
    BY DEF Redis!Executed, Redis!Effect
  <1>3. PICK m : /\ Made(m) /\ Ready(m) /\ call' = [call EXCEPT ![c] = m]
                 /\ m.h = call[c].h /\ m.q = call[c].q /\ m.cmds = call[c].cmds
                 /\ m.st = IF call[c].at = Len(call[c].cmds) THEN "ok" ELSE "running"
    BY <1>1, AdvancedScan DEF Redis!Executed
  <1>4. m.st \in {"running", "ok", "error"}
    BY <1>3
  <1> QED BY <1>1, <1>2, <1>3, <1>4, NoScan

(* Commands that fail or are given up.                                     *)
LEMMA RefusedScan ==
  ASSUME KeysTyped, ScanInv, NEW c \in Caller, Redis!Failed(c) \/ Redis!GiveUp(c)
  PROVE  ScanInv'
  <1>1. Redis!Running(c) /\ Redis!Reject(c)
    BY DEF Redis!Failed, Redis!GiveUp
  <1>2. PICK masters, replicas : Redis!Observe(masters, replicas)
    BY DEF Redis!Failed, Redis!GiveUp, Redis!Effect
  <1>3. PICK m : /\ Made(m) /\ call' = [call EXCEPT ![c] = m]
                 /\ m.h = call[c].h /\ m.q = call[c].q /\ m.cmds = call[c].cmds /\ m.st = "error"
    BY <1>1, RejectedScan
  <1>4. Ready(m)
    BY <1>3 DEF Ready
  <1> QED BY <1>1, <1>2, <1>3, <1>4, NoScan

(* Commands that are sent again.                                           *)
LEMMA ResentScan ==
  ASSUME KeysTyped, ScanInv, NEW c \in Caller, Redis!Resend(c)
  PROVE  ScanInv'
  <1>1. Redis!Running(c)
    BY DEF Redis!Resend
  <1>2. PICK masters, replicas : Redis!Observe(masters, replicas)
    BY DEF Redis!Resend, Redis!Effect
  <1>3. DOMAIN seen' = Caller /\ \A d \in Caller : ScanOK(call[d], seen'[d])
    BY <1>2, Observed
  <1>4. PICK w : w = call[c]
    OBVIOUS
  <1>5. Made(w)
    BY <1>1, <1>4 DEF ScanInv, CallOK, Redis!Running
  <1>6. PICK m : m = [h |-> w.h, q |-> w.q, cmds |-> w.cmds, at |-> w.at, got |-> w.got,
                      resent |-> w.resent + 1, out |-> w.out, st |-> w.st]
    OBVIOUS
  <1>7. [w EXCEPT !.resent = @ + 1] = m
    BY <1>5, <1>6 DEF Made
  <1>8. call' = [call EXCEPT ![c] = m]
    BY <1>4, <1>7 DEF Redis!Resend
  <1>9. Made(m) /\ m.h = w.h /\ m.q = w.q /\ m.cmds = w.cmds /\ m.at = w.at /\ m.got = w.got
        /\ m.out = w.out /\ m.st = w.st
    BY <1>6 DEF Made
  <1>10. ScanOK(m, seen'[c])
    BY <1>3, <1>4, <1>9 DEF ScanOK
  <1>11. /\ w.h \in Redis!Handle /\ w.q \in Queries[c] /\ w.cmds = Redis!Commands(w.h, w.q)
         /\ w.st \in {"running", "ok", "error"}
    BY <1>1, <1>4 DEF ScanInv, CallOK, Redis!Running
  <1>12. Ready(m)
    BY <1>1, <1>4, <1>9 DEF ScanInv, CallOK, Ready, Redis!Running
  <1> QED BY <1>3, <1>8, <1>9, <1>10, <1>11, <1>12, OneCall

(* Replication.                                                            *)
LEMMA ReplicatedScan ==
  ASSUME KeysTyped, ScanInv, NEW k \in Key, Redis!Replicate(k)
  PROVE  ScanInv'
  <1>1. call' = call
    BY DEF Redis!Replicate
  <1>2. PICK masters, replicas : Redis!Observe(masters, replicas)
    BY DEF Redis!Replicate
  <1>3. DOMAIN seen' = Caller /\ \A d \in Caller : ScanOK(call[d], seen'[d])
    BY <1>2, Observed
  <1>4. \A d \in Caller : CallOK(d)'
    BY <1>1 DEF ScanInv, CallOK, Ready
  <1>5. ASSUME NEW d \in Caller PROVE ScanOK(call[d], seen[d])'
    <2>1. ScanOK(call'[d], seen'[d])
      BY <1>1, <1>3
    <2> QED BY <2>1
  <1> QED BY <1>1, <1>3, <1>4, <1>5 DEF ScanInv

(* A page of a scan: the cursor is 0 only when the node's stable keys are  *)
(* in.                                                                     *)
LEMMA PageScan ==
  ASSUME KeysTyped, ScanInv, NEW c \in Caller, Redis!ScanOnce(c)
  PROVE  ScanInv'
  <1>1. PICK w, i, s : w = call[c] /\ i = w.at /\ s = Redis!Current(c)
    OBVIOUS
  <1>2. Redis!Running(c) /\ s.cmd = "scan"
    BY <1>1 DEF Redis!ScanOnce
  <1>3. \A k : k \in Redis!Here(c) <=>
          /\ k \in Key /\ store[k] # Absent
          /\ ClusterMode => <<MasterOf[k]>> = s.args[2]
          /\ Redis!Matches(s.args[1], k)
    BY <1>1 DEF Redis!Here
  <1>4. PICK page, m :
          /\ page \in SUBSET Redis!Here(c)
          /\ Made(m) /\ Ready(m) /\ call' = [call EXCEPT ![c] = m]
          /\ m.h = w.h /\ m.q = w.q /\ m.cmds = w.cmds
          /\ m.got = w.got \cup page
          /\ m.out = w.out \cup Redis!Stripped(w.h, page)
          /\ \/ m.at = i /\ m.st = w.st
             \/ /\ m.at = i + 1
                /\ m.st = (IF i = Len(w.cmds) THEN "ok" ELSE "running")
                /\ \A k \in Redis!Here(c) : Absent \in seen[c][k] \/ k \in m.got
    <2>1. PICK page, g, o :
            /\ page \in SUBSET Redis!Here(c)
            /\ g = w.got \cup page
            /\ o = w.out \cup Redis!Stripped(w.h, page)
            /\ \/ (\A k \in Redis!Here(c) : Absent \in seen[c][k] \/ k \in g) /\ Redis!Advance(c, g, o)
               \/ call' = [call EXCEPT ![c] = Redis!Kept(w, w.at, g, o, w.st)]
      BY <1>1 DEF Redis!ScanOnce
    <2>2. CASE (\A k \in Redis!Here(c) : Absent \in seen[c][k] \/ k \in g) /\ Redis!Advance(c, g, o)
      <3>1. PICK m : /\ Made(m) /\ Ready(m) /\ call' = [call EXCEPT ![c] = m]
                     /\ m.h = call[c].h /\ m.q = call[c].q /\ m.cmds = call[c].cmds
                     /\ m.at = call[c].at + 1 /\ m.got = g /\ m.out = o
                     /\ m.st = IF call[c].at = Len(call[c].cmds) THEN "ok" ELSE "running"
        BY <1>2, <2>2, AdvancedScan
      <3> QED BY <1>1, <2>1, <2>2, <3>1
    <2>3. CASE call' = [call EXCEPT ![c] = Redis!Kept(w, w.at, g, o, w.st)]
      <3>1. PICK m : m = Redis!Kept(w, w.at, g, o, w.st)
        OBVIOUS
      <3>2. /\ Made(m) /\ m.h = w.h /\ m.q = w.q /\ m.cmds = w.cmds
            /\ m.at = w.at /\ m.got = g /\ m.out = o /\ m.st = w.st
        BY <3>1 DEF Redis!Kept, Made
      <3>3. call' = [call EXCEPT ![c] = m]
        BY <2>3, <3>1
      <3>4. Ready(m)
        BY <1>1, <1>2, <3>2 DEF ScanInv, CallOK, Ready, Redis!Running
      <3> QED BY <1>1, <2>1, <3>2, <3>3, <3>4
    <2> QED BY <2>1, <2>2, <2>3
  <1>5. Redis!Observe(store, replica)
    BY DEF Redis!ScanOnce
  <1>6. DOMAIN seen' = Caller /\ \A d \in Caller : ScanOK(call[d], seen'[d])
    BY <1>5, Observed
  <1>7. CallOK(c) /\ w.st = "running"
    BY <1>1, <1>2 DEF ScanInv, Redis!Running
  <1>8. m.st \in {"running", "ok", "error"}
    BY <1>4, <1>7
  <1>9. CASE w.q.op # "scan"
    BY <1>1, <1>2, <1>4, <1>5, <1>8, <1>9, NoScan
  <1>10. CASE w.q.op = "scan"
    <2>1. /\ i \in 1..Nodes /\ Nodes \in Nat /\ Len(w.cmds) = Nodes
          /\ s.args[1] = Redis!ScanMatch(w.h, w.q)
          /\ \A k : (ClusterMode => <<MasterOf[k]>> = s.args[2]) <=> OnNode(k, i)
      BY <1>1, <1>2, <1>10, ScanningNode
    <2>2. \A k \in Key : seen'[c][k] = seen[c][k] \cup {store[k]}
      BY <1>1, <1>5, <1>7, <1>10, Observed
    <2>3. /\ w.out = {Redis!StripPrefix(w.h, k) : k \in w.got}
          /\ \A k \in w.got : /\ k \in Key /\ Redis!Matches(Redis!ScanMatch(w.h, w.q), k)
                              /\ seen'[c][k] \ {Absent} # {}
          /\ \A k \in Key : \A j \in 1..(i - 1) :
               OnNode(k, j) /\ Absent \notin seen'[c][k]
                 /\ Redis!Matches(Redis!ScanMatch(w.h, w.q), k) => k \in w.got
      BY <1>1, <1>6, <1>7, <1>10 DEF ScanOK
    <2>4. m.out = {Redis!StripPrefix(m.h, k) : k \in m.got}
      BY <1>4, <2>3 DEF Redis!Stripped
    <2>5. \A k \in m.got : /\ k \in Key /\ Redis!Matches(Redis!ScanMatch(m.h, m.q), k)
                           /\ seen'[c][k] \ {Absent} # {}
      BY <1>3, <1>4, <2>1, <2>2, <2>3
    <2>6. m.at \in 1..(Nodes + 1) /\ (m.st = "ok" <=> m.at = Nodes + 1)
      BY <1>4, <1>7, <2>1
    <2>7. ASSUME NEW k \in Key, NEW j \in 1..(m.at - 1), OnNode(k, j), Absent \notin seen'[c][k],
                 Redis!Matches(Redis!ScanMatch(m.h, m.q), k)
          PROVE  k \in m.got
      <3>1. CASE j \in 1..(i - 1)
        BY <1>4, <2>3, <2>7, <3>1
      <3>2. CASE j \notin 1..(i - 1)
        <4>1. j = i /\ m.at = i + 1
          BY <1>4, <2>1, <2>7, <3>2
        <4>2. store[k] # Absent /\ Absent \notin seen[c][k]
          BY <2>2, <2>7
        <4>3. k \in Redis!Here(c)
          BY <1>3, <1>4, <2>1, <2>7, <4>1, <4>2
        <4>4. i + 1 # i
          BY <2>1
        <4> QED BY <1>4, <4>1, <4>2, <4>3, <4>4
      <3> QED BY <3>1, <3>2
    <2>8. ScanOK(m, seen'[c])
      BY <2>4, <2>5, <2>6, <2>7 DEF ScanOK
    <2>9. /\ m.h \in Redis!Handle /\ m.q \in Queries[c] /\ m.cmds = Redis!Commands(m.h, m.q)
      BY <1>1, <1>4, <1>7 DEF CallOK
    <2> QED BY <1>4, <1>6, <1>8, <2>8, <2>9, OneCall
  <1> QED BY <1>9, <1>10

(* The invariant is inductive.                                             *)
LEMMA StepScanInv ==
  ASSUME KeysTyped, ScanInv, [Redis!Next]_(Redis!vars)
  PROVE  ScanInv'
  <1>1. CASE UNCHANGED Redis!vars
    BY <1>1 DEF Redis!vars, ScanInv, CallOK, Ready, ScanOK
  <1>2. CASE Redis!Next
    BY <1>2, BeginScan, ExecutedScan, RefusedScan, ResentScan, PageScan, ReplicatedScan
    DEF Redis!Next
  <1> QED BY <1>1, <1>2

(* Prefixes as concatenation.                                              *)
LEMMA PrefixConcat ==
  ASSUME NEW R, NEW s \in Seq(R), NEW t \in Seq(R)
  PROVE  Redis!IsPrefix(s, t) <=> \E r \in Seq(R) : t = s \o r
  <1>1. ASSUME Redis!IsPrefix(s, t)
        PROVE  \E r \in Seq(R) : t = s \o r
    <2>1. Len(s) <= Len(t) /\ SubSeq(s, 1, Len(s)) = SubSeq(t, 1, Len(s))
      BY <1>1 DEF Redis!IsPrefix
    <2>2. SubSeq(t, Len(s) + 1, Len(t)) \in Seq(R)
      BY <2>1
    <2>3. t = s \o SubSeq(t, Len(s) + 1, Len(t))
      <3>1. SubSeq(s, 1, Len(s)) = s
        OBVIOUS
      <3>2. SubSeq(t, 1, Len(s)) = s
        BY <2>1, <3>1
      <3>3. t = SubSeq(t, 1, Len(s)) \o SubSeq(t, Len(s) + 1, Len(t))
        <4>1. 1 \in 1..(Len(t) + 1) /\ Len(s) \in (1 - 1)..Len(t) /\ Len(t) \in Len(s)..Len(t)
          BY <2>1
        <4>2. SubSeq(t, 1, Len(s)) \o SubSeq(t, Len(s) + 1, Len(t)) = SubSeq(t, 1, Len(t))
          BY <4>1, ConcatAdjacentSubSeq
        <4> QED BY <4>2, SubSeqFull
      <3> QED BY <3>2, <3>3
    <2> QED BY <2>2, <2>3
  <1>2. ASSUME NEW r \in Seq(R), t = s \o r
        PROVE  Redis!IsPrefix(s, t)
    <2>1. Len(t) = Len(s) + Len(r) /\ Len(s) <= Len(t)
      BY <1>2
    <2>2. SubSeq(s, 1, Len(s)) = SubSeq(t, 1, Len(s))
      BY <1>2, <2>1
    <2> QED BY <2>1, <2>2 DEF Redis!IsPrefix
  <1> QED BY <1>1, <1>2

(* A key with the prefix is the prefix and what is left of it.             *)
LEMMA Stripping ==
  ASSUME KeysTyped, NEW h \in Redis!Handle, NEW k \in Text, Redis!IsPrefix(KeyPrefix[h], k)
  PROVE  /\ Redis!StripPrefix(h, k) \in Text
         /\ k = KeyPrefix[h] \o Redis!StripPrefix(h, k)
  <1>1. PICK p, u : p = KeyPrefix[h] /\ u = Redis!StripPrefix(h, k)
    OBVIOUS
  <1>2. p \in Seq(Nat)
    BY <1>1 DEF KeysTyped, Text
  <1>3. u = SubSeq(k, Len(p) + 1, Len(k))
    BY <1>1 DEF Redis!StripPrefix
  <1>4. PICK r \in Seq(Nat) : k = p \o r
    <2>1. k \in Seq(Nat) /\ Redis!IsPrefix(p, k)
      BY <1>1 DEF Text
    <2>2. \E r \in Seq(Nat) : k = p \o r
      BY ONLY <1>2, <2>1, PrefixConcat
    <2> QED BY ONLY <2>2
  <1>5. u = r
    BY <1>2, <1>3, <1>4
  <1> QED BY <1>1, <1>4, <1>5 DEF Text

(* A pattern behind a prefix.                                              *)
LEMMA PrefixedPattern ==
  ASSUME NEW p \in Text, NEW t \in Text, t # <<>>, NEW u \in Text
  PROVE  /\ Redis!Last(p \o t) = Redis!Last(t)
         /\ Redis!Front(t) \in Text
         /\ Redis!Front(p \o t) = p \o Redis!Front(t)
  <1>1. p \in Seq(Nat) /\ t \in Seq(Nat) /\ Len(t) \in Nat \ {0} /\ Len(p) \in Nat
    BY DEF Text
  <1>2. PICK x, f : x = p \o t /\ f = SubSeq(t, 1, Len(t) - 1)
    OBVIOUS
  <1>3. Len(x) = Len(p) + Len(t) /\ x[Len(p) + Len(t)] = t[Len(t)]
    BY <1>1, <1>2
  <1>4. f \in Seq(Nat)
    BY <1>1, <1>2
  <1>5. SubSeq(x, 1, Len(p) + Len(t) - 1) = p \o f
    <2>1. PICK y, z : y = SubSeq(x, 1, Len(p) + Len(t) - 1) /\ z = p \o f
      OBVIOUS
    <2>0. \A s \in Seq(Nat) : \A n \in 0..Len(s) :
            /\ SubSeq(s, 1, n) \in Seq(Nat) /\ Len(SubSeq(s, 1, n)) = n
            /\ \A i \in 1..n : SubSeq(s, 1, n)[i] = s[i]
      OBVIOUS
    <2>2. /\ y \in Seq(Nat) /\ Len(y) = Len(p) + Len(t) - 1
          /\ \A i \in 1..Len(y) : y[i] = x[i]
      <3>1. x \in Seq(Nat) /\ Len(p) + Len(t) - 1 \in 0..Len(x)
        BY <1>1, <1>2, <1>3
      <3> QED BY <2>0, <2>1, <3>1
    <2>3. z \in Seq(Nat) /\ Len(f) = Len(t) - 1 /\ Len(z) = Len(p) + Len(t) - 1
      <3>1. Len(t) - 1 \in 0..Len(t)
        BY <1>1
      <3>2. Len(f) = Len(t) - 1
        BY <1>1, <1>2, <2>0, <3>1
      <3>3. z \in Seq(Nat) /\ Len(z) = Len(p) + Len(f)
        BY <1>1, <1>4, <2>1
      <3> QED BY <1>1, <3>2, <3>3
    <2>4. \A i \in 1..Len(y) : y[i] = x[i]
      BY <2>2
    <2>5. ASSUME NEW i \in 1..Len(z) PROVE z[i] = x[i]
      <3>1. CASE i <= Len(p)
        BY <1>1, <1>2, <1>4, <2>1, <2>3, <3>1
      <3>2. CASE i > Len(p)
        <4>1. i - Len(p) \in 1..Len(f) /\ i - Len(p) \in 1..(Len(t) - 1)
          BY <1>1, <2>3, <3>2
        <4>2. z[i] = f[i - Len(p)] /\ x[i] = t[i - Len(p)]
          BY SMTT(30), <1>1, <1>2, <1>4, <2>1, <2>3, <3>2, <4>1
        <4>3. f[i - Len(p)] = t[i - Len(p)]
          BY <1>1, <1>2, <4>1
        <4> QED BY <4>2, <4>3
      <3> QED BY <1>1, <2>3, <3>1, <3>2
    <2> QED BY <2>1, <2>2, <2>3, <2>4, <2>5, SeqEqual
  <1>6. Redis!Last(x) = Redis!Last(t)
    BY <1>3 DEF Redis!Last
  <1>7. Redis!Front(t) = f
    BY <1>2 DEF Redis!Front
  <1>8. Redis!Front(x) = p \o f
    BY <1>3, <1>5 DEF Redis!Front
  <1> QED BY <1>2, <1>4, <1>6, <1>7, <1>8 DEF Text

(* A common prefix does not matter.                                        *)
LEMMA PrefixBoth ==
  ASSUME NEW p \in Text, NEW f \in Text, NEW u \in Text
  PROVE  Redis!IsPrefix(p \o f, p \o u) <=> Redis!IsPrefix(f, u)
  <1>1. p \in Seq(Nat) /\ f \in Seq(Nat) /\ u \in Seq(Nat) /\ p \o f \in Seq(Nat) /\ p \o u \in Seq(Nat)
    BY DEF Text
  <1>2. ASSUME NEW r \in Seq(Nat)
        PROVE  (p \o u = (p \o f) \o r) <=> (u = f \o r)
    <2>1. (p \o f) \o r = p \o (f \o r)
      BY SMTT(30), <1>1
    <2>2. f \o r \in Seq(Nat)
      BY <1>1
    <2>3. p \o u = p \o (f \o r) => u = f \o r
      BY <1>1, <2>2, ConcatSimplifications
    <2> QED BY <1>1, <2>1, <2>2, <2>3
  <1>3. Redis!IsPrefix(p \o f, p \o u) <=> \E r \in Seq(Nat) : p \o u = (p \o f) \o r
    <2>1. PICK a \in Seq(Nat), b \in Seq(Nat) : a = p \o f /\ b = p \o u
      BY <1>1
    <2>2. Redis!IsPrefix(a, b) <=> \E r \in Seq(Nat) : b = a \o r
      BY PrefixConcat
    <2> QED BY <2>1, <2>2
  <1>4. Redis!IsPrefix(f, u) <=> \E r \in Seq(Nat) : u = f \o r
    BY <1>1, PrefixConcat
  <1> QED BY <1>2, <1>3, <1>4

(* A key with the handle's prefix matches what the server is asked for if  *)
(* what is left of it matches the pattern.                                 *)
LEMMA PatternMatch ==
  ASSUME KeysTyped, NEW h \in Redis!Handle, NEW c \in Caller, NEW q \in Queries[c], q.op = "scan",
         NEW u \in Text
  PROVE  Redis!Matches(Redis!ScanMatch(h, q), KeyPrefix[h] \o u)
           <=> ("match" \in q.opt => Redis!Matches(q.keys, u))
  <1>1. PICK p : p = KeyPrefix[h] /\ p \in Text
    BY DEF KeysTyped
  <1>2. p \in Seq(Nat) /\ u \in Seq(Nat) /\ p \o u \in Seq(Nat)
    BY <1>1 DEF Text
  <1>3. CASE "match" \in q.opt
    <2>1. PICK t \in Text : t # <<>> /\ q.keys = <<t>>
      BY <1>3, PatternGiven
    <2>2. PICK x : x = p \o t
      OBVIOUS
    <2>3. Redis!ScanMatch(h, q) = <<x>>
      BY <1>1, <1>3, <2>1, <2>2 DEF Redis!ScanMatch, Redis!PrefixKey
    <2>4. /\ Redis!Last(x) = Redis!Last(t) /\ Redis!Front(t) \in Text
          /\ Redis!Front(x) = p \o Redis!Front(t)
      BY <1>1, <2>1, <2>2, PrefixedPattern
    <2>5. Redis!IsPrefix(Redis!Front(x), p \o u) <=> Redis!IsPrefix(Redis!Front(t), u)
      BY <1>1, <2>4, PrefixBoth
    <2>6. p \o u = x <=> u = t
      BY <1>2, <2>1, <2>2, ConcatSimplifications DEF Text
    <2>7. <<x>>[1] = x /\ <<t>>[1] = t /\ <<x>> # <<>> /\ <<t>> # <<>>
      OBVIOUS
    <2>8. Redis!Matches(<<x>>, p \o u) <=> Redis!Matches(<<t>>, u)
      BY <2>4, <2>5, <2>6, <2>7 DEF Redis!Matches
    <2> QED BY <1>1, <1>3, <2>1, <2>3, <2>8
  <1>4. CASE "match" \notin q.opt
    <2>1. CASE p = <<>>
      BY <1>1, <1>4, <2>1 DEF Redis!ScanMatch, Redis!When, Redis!Matches
    <2>2. CASE p # <<>>
      <3>1. PICK x : x = Append(p, Redis!Star)
        OBVIOUS
      <3>2. Redis!ScanMatch(h, q) = <<x>>
        BY <1>1, <1>4, <2>2, <3>1 DEF Redis!ScanMatch, Redis!When
      <3>3. Redis!Star \in Nat
        BY DEF Redis!Star
      <3>4. Redis!Last(x) = Redis!Star /\ Redis!Front(x) = p
        <4>1. \A s \in Seq(Nat), e \in Nat : /\ Len(Append(s, e)) = Len(s) + 1
                                             /\ Append(s, e)[Len(s) + 1] = e
                                             /\ SubSeq(Append(s, e), 1, Len(s)) = s
          OBVIOUS
        <4> QED BY <1>2, <3>1, <3>3, <4>1 DEF Redis!Last, Redis!Front
      <3>5. Redis!IsPrefix(p, p \o u)
        BY <1>2, PrefixConcat
      <3>6. <<x>>[1] = x
        OBVIOUS
      <3> QED BY <1>1, <1>4, <3>2, <3>4, <3>5, <3>6 DEF Redis!Matches
    <2> QED BY <2>1, <2>2
  <1> QED BY <1>3, <1>4

(* What a scan's pattern matches has the prefix of its handle.             *)
LEMMA PatternPrefix ==
  ASSUME KeysTyped, NEW h \in Redis!Handle, NEW c \in Caller, NEW q \in Queries[c], q.op = "scan",
         NEW k \in Text, Redis!Matches(Redis!ScanMatch(h, q), k)
  PROVE  Redis!IsPrefix(KeyPrefix[h], k)
  <1>1. PICK p : p = KeyPrefix[h] /\ p \in Text
    BY DEF KeysTyped
  <1>2. p \in Seq(Nat) /\ k \in Seq(Nat)
    BY <1>1 DEF Text
  <1>3. CASE "match" \in q.opt
    <2>1. PICK t \in Text : t # <<>> /\ q.keys = <<t>>
      BY <1>3, PatternGiven
    <2>2. PICK x, f : x = p \o t /\ f = Redis!Front(t)
      OBVIOUS
    <2>3. Redis!ScanMatch(h, q) = <<x>>
      BY <1>1, <1>3, <2>1, <2>2 DEF Redis!ScanMatch, Redis!PrefixKey
    <2>4. f \in Seq(Nat) /\ Redis!Front(x) = p \o f /\ p \o f \in Seq(Nat)
      <3>1. f \in Text /\ Redis!Front(x) = p \o f
        BY <1>1, <2>1, <2>2, PrefixedPattern
      <3> QED BY <1>2, <3>1 DEF Text
    <2>5. <<x>>[1] = x /\ <<x>> # <<>>
      OBVIOUS
    <2>6. Redis!IsPrefix(p \o f, k) \/ k = p \o t
      BY <2>2, <2>3, <2>4, <2>5 DEF Redis!Matches
    <2>7. PICK y \in Seq(Nat) : y = p \o f
      BY <1>2, <2>4
    <2>8. CASE Redis!IsPrefix(p \o f, k)
      <3>1. PICK r \in Seq(Nat) : k = y \o r
        <4>1. Redis!IsPrefix(y, k)
          BY <2>7, <2>8
        <4> QED BY <1>2, <4>1, PrefixConcat
      <3>2. k = p \o (f \o r) /\ f \o r \in Seq(Nat)
        <4>1. f \o r \in Seq(Nat)
          BY <2>4, <3>1
        <4>2. (p \o f) \o r = p \o (f \o r)
          <5>1. p \in Seq(Nat) /\ f \in Seq(Nat) /\ r \in Seq(Nat)
            BY <1>2, <2>4, <3>1
          <5> QED BY SMTT(30), <5>1
        <4>3. k = (p \o f) \o r
          BY <2>7, <3>1
        <4> QED BY <4>1, <4>2, <4>3
      <3> QED BY <1>1, <1>2, <3>2, PrefixConcat
    <2>9. CASE k = p \o t
      BY <1>1, <1>2, <2>1, <2>9, PrefixConcat DEF Text
    <2> QED BY <2>6, <2>8, <2>9
  <1>4. CASE "match" \notin q.opt
    <2>1. CASE p = <<>>
      <3>1. k = p \o k
        BY <1>2, <2>1
      <3> QED BY <1>1, <1>2, <3>1, PrefixConcat
    <2>2. CASE p # <<>>
      <3>1. PICK x : x = Append(p, Redis!Star)
        OBVIOUS
      <3>2. Redis!ScanMatch(h, q) = <<x>>
        BY <1>1, <1>4, <2>2, <3>1 DEF Redis!ScanMatch, Redis!When
      <3>3. Redis!Star \in Nat
        BY DEF Redis!Star
      <3>4. Redis!Last(x) = Redis!Star /\ Redis!Front(x) = p
        <4>1. \A s \in Seq(Nat), e \in Nat : /\ Len(Append(s, e)) = Len(s) + 1
                                             /\ Append(s, e)[Len(s) + 1] = e
                                             /\ SubSeq(Append(s, e), 1, Len(s)) = s
          OBVIOUS
        <4> QED BY <1>2, <3>1, <3>3, <4>1 DEF Redis!Last, Redis!Front
      <3>5. <<x>>[1] = x /\ <<x>> # <<>>
        OBVIOUS
      <3> QED BY <1>1, <3>2, <3>4, <3>5 DEF Redis!Matches
    <2> QED BY <2>1, <2>2
  <1> QED BY <1>3, <1>4

(* The invariant implies the property.                                     *)
LEMMA ScanInvFaithful ==
  ASSUME KeysTyped, ScanInv
  PROVE  Redis!ScanFaithful
  <1>1. SUFFICES ASSUME NEW c \in Caller, Redis!Resolved(c), call[c].q.op = "scan"
        PROVE  LET mine == call[c] IN
               /\ \A k \in Key :
                   (/\ Redis!IsPrefix(KeyPrefix[mine.h], k)
                    /\ Absent \notin seen[c][k]
                    /\ "match" \in mine.q.opt => Redis!Matches(mine.q.keys, Redis!StripPrefix(mine.h, k)))
                      => Redis!StripPrefix(mine.h, k) \in mine.out
               /\ \A u \in mine.out : /\ Redis!PrefixKey(mine.h, u) \in Key
                                     /\ seen[c][Redis!PrefixKey(mine.h, u)] # {Absent}
    BY DEF Redis!ScanFaithful
  <1>2. PICK h, q : h = call[c].h /\ q = call[c].q
    OBVIOUS
  <1>3. h \in Redis!Handle /\ q \in Queries[c] /\ q.op = "scan" /\ call[c].st = "ok"
    BY <1>1, <1>2 DEF ScanInv, CallOK, Redis!Resolved
  <1>4. /\ call[c].at = Nodes + 1
        /\ call[c].out = {Redis!StripPrefix(h, k) : k \in call[c].got}
        /\ \A k \in call[c].got :
             k \in Key /\ Redis!Matches(Redis!ScanMatch(h, q), k) /\ seen[c][k] \ {Absent} # {}
        /\ \A k \in Key : \A i \in 1..(call[c].at - 1) :
             OnNode(k, i) /\ Absent \notin seen[c][k] /\ Redis!Matches(Redis!ScanMatch(h, q), k)
               => k \in call[c].got
    BY <1>1, <1>2, <1>3 DEF ScanInv, ScanOK
  <1>5. ASSUME NEW k \in Key, Redis!IsPrefix(KeyPrefix[h], k), Absent \notin seen[c][k],
               "match" \in q.opt => Redis!Matches(q.keys, Redis!StripPrefix(h, k))
        PROVE  Redis!StripPrefix(h, k) \in call[c].out
    <2>1. k \in Text
      BY DEF KeysTyped
    <2>2. PICK u \in Text : u = Redis!StripPrefix(h, k) /\ k = KeyPrefix[h] \o u
      BY <1>3, <1>5, <2>1, Stripping
    <2>3. Redis!Matches(Redis!ScanMatch(h, q), k)
      BY <1>3, <1>5, <2>2, PatternMatch
    <2>4. PICK i \in 1..Nodes : OnNode(k, i)
      BY DEF KeysTyped, Nodes, OnNode
    <2>5. Nodes \in Nat
      BY DEF KeysTyped, Nodes
    <2>6. k \in call[c].got
      BY <1>4, <1>5, <2>3, <2>4, <2>5
    <2> QED BY <1>4, <2>6
  <1>6. ASSUME NEW u \in call[c].out
        PROVE  Redis!PrefixKey(h, u) \in Key /\ seen[c][Redis!PrefixKey(h, u)] # {Absent}
    <2>1. PICK k \in call[c].got : u = Redis!StripPrefix(h, k)
      BY <1>4
    <2>2. k \in Key /\ k \in Text /\ Redis!Matches(Redis!ScanMatch(h, q), k) /\ seen[c][k] # {Absent}
      BY <1>4 DEF KeysTyped
    <2>3. Redis!PrefixKey(h, u) = k
      BY <1>3, <2>1, <2>2, PatternPrefix, Stripping DEF Redis!PrefixKey
    <2> QED BY <2>2, <2>3
  <1> QED BY <1>2, <1>5, <1>6

\* A scan that ends has yielded every key of its handle that was there all the
\* time and matches, and only keys with which the same handle could find an entry,
\* whatever writes, resendings and failures interleave (RedisCache.scan).
THEOREM ScanFaithfulCorrect ==
  ASSUME KeysTyped
  PROVE  Redis!Spec => []Redis!ScanFaithful
  <1>1. ScanInv => Redis!ScanFaithful
    BY ScanInvFaithful
  <1>2. ScanInv /\ [Redis!Next]_(Redis!vars) => ScanInv'
    BY StepScanInv
  <1> QED BY <1>1, <1>2, InitScanInv, PTL DEF Redis!Spec

(* The client and the cluster compute the same slots for the keys it sends.*)
SlotsAgree ==
  \A h \in Redis!Handle : \A c \in Caller : \A q \in Queries[c] : \A k \in Prefixed(h, q) :
    ClientSlot[k] = ServerSlot[k]

(* And the other one, if client and cluster agree on the slots.            *)
LEMMA NoCrossing ==
  ASSUME KeysTyped, SlotsAgree, ScanInv
  PROVE  Redis!NoCrossSlot
  <1>1. SUFFICES ASSUME NEW c \in Caller, ClusterMode, Redis!Running(c),
                        NEW j \in UNION {Redis!ToSet(p.keys) : p \in Redis!ToSet(Redis!Parts(Redis!Current(c)))},
                        NEW k \in UNION {Redis!ToSet(p.keys) : p \in Redis!ToSet(Redis!Parts(Redis!Current(c)))}
                 PROVE  ServerSlot[j] = ServerSlot[k]
    BY DEF Redis!NoCrossSlot
  <1>2. PICK h, q, s : h = call[c].h /\ q = call[c].q /\ s = Redis!Current(c)
    OBVIOUS
  <1>3. /\ h \in Redis!Handle /\ q \in Queries[c] /\ call[c].cmds = Redis!Commands(h, q)
        /\ call[c].at \in 1..Len(call[c].cmds) /\ Accepted(q, call[c].cmds)
    BY <1>1, <1>2 DEF ScanInv, CallOK, Ready, Redis!Running
  <1>4. CommandOK(h, q, s) /\ SlotOK(s)
    BY <1>2, <1>3, CommandsAre DEF Redis!Current
  <1>5. PICK ps : ps = Redis!Parts(s)
    OBVIOUS
  <1>6. DOMAIN ps = 1..Len(ps)
    BY <1>4, <1>5 DEF CommandOK, IsSeq
  <1>7. ASSUME NEW x \in UNION {Redis!ToSet(p.keys) : p \in Redis!ToSet(ps)}
        PROVE  x \in Prefixed(h, q) /\ \E b \in DOMAIN s.keys : x = s.keys[b]
    <2>1. PICK p \in 1..Len(ps) : \E a \in DOMAIN ps[p].keys : x = ps[p].keys[a]
      BY <1>6, <1>7 DEF Redis!ToSet
    <2>2. PICK b \in DOMAIN s.keys : x = s.keys[b]
      BY <1>4, <1>5, <2>1 DEF CommandOK
    <2>3. s.keys \in Seq(Prefixed(h, q))
      BY <1>4 DEF CommandOK
    <2> QED BY <2>2, <2>3
  <1>8. ClientSlot[j] = ClientSlot[k]
    BY <1>1, <1>2, <1>4, <1>5, <1>7 DEF SlotOK
  <1> QED BY <1>1, <1>2, <1>3, <1>5, <1>7, <1>8 DEF SlotsAgree

\* No command that reaches a cluster has keys of two slots as the cluster computes
\* them, if the client computes the same (RedisCache, groupBySlot and assertSameSlot).
THEOREM NoCrossSlotCorrect ==
  ASSUME KeysTyped, SlotsAgree
  PROVE  Redis!Spec => []Redis!NoCrossSlot
  <1>1. ScanInv => Redis!NoCrossSlot
    BY NoCrossing
  <1>2. ScanInv /\ [Redis!Next]_(Redis!vars) => ScanInv'
    BY StepScanInv
  <1> QED BY <1>1, <1>2, InitScanInv, PTL DEF Redis!Spec

(* A command changes only what its keys hold.                              *)
LEMMA WriteKeeps ==
  ASSUME NEW content, NEW t, NEW R, t.keys \in Seq(R), Shaped(t)
  PROVE  /\ DOMAIN Redis!WriteTo(content, t) = DOMAIN content
         /\ \A k \in DOMAIN content : (\A i \in DOMAIN t.keys : t.keys[i] # k)
              => Redis!WriteTo(content, t)[k] = content[k]
  <1>1. PICK w, j : w = Redis!WriteTo(content, t) /\ j = t.keys[1]
    OBVIOUS
  <1>2. PICK ks \in Seq(R) : ks = t.keys
    OBVIOUS
  <1>3. DOMAIN ks = 1..Len(ks) /\ Len(ks) \in Nat
    OBVIOUS
  <1>4. ks # <<>> => 1 \in DOMAIN ks
    BY <1>3
  <1>5. CASE t.cmd \in Redis!KeepsContent
    <2>1. t.cmd \notin {"set", "getset", "mset", "del", "rename"} \cup Redis!Shrinking
      BY <1>5 DEF Redis!KeepsContent, Redis!Shrinking
    <2>2. w = content
      BY <1>1, <1>5, <2>1 DEF Redis!WriteTo
    <2> QED BY <1>1, <2>2
  <1>6. CASE t.cmd = "mset"
    <2>1. t.cmd \notin Redis!KeepsContent \cup Redis!Shrinking
      BY <1>6 DEF Redis!KeepsContent, Redis!Shrinking
    <2>2. w = [x \in DOMAIN content |->
                IF Redis!Contains(ks, x) THEN t.args[Redis!Max({i \in DOMAIN ks : ks[i] = x})]
                ELSE content[x]]
      BY <1>1, <1>2, <1>6, <2>1 DEF Redis!WriteTo
    <2> QED BY <1>1, <1>2, <1>3, <2>2 DEF Redis!Contains
  <1>7. CASE t.cmd = "del"
    <2>1. t.cmd \notin Redis!KeepsContent \cup Redis!Shrinking
      BY <1>7 DEF Redis!KeepsContent, Redis!Shrinking
    <2>2. w = [x \in DOMAIN content |-> IF Redis!Contains(ks, x) THEN Absent ELSE content[x]]
      BY <1>1, <1>2, <1>7, <2>1 DEF Redis!WriteTo
    <2> QED BY <1>1, <1>2, <1>3, <2>2 DEF Redis!Contains
  <1>8. CASE t.cmd = "rename"
    <2>1. t.cmd \notin Redis!KeepsContent \cup Redis!Shrinking
      BY <1>8 DEF Redis!KeepsContent, Redis!Shrinking
    <2>2. w = content \/ w = [[content EXCEPT ![j] = Absent] EXCEPT ![ks[2]] = content[j]]
      BY <1>1, <1>2, <1>8, <2>1 DEF Redis!WriteTo
    <2>3. Len(t.keys) = 2
      BY <1>8 DEF Shaped
    <2>4. 1 \in DOMAIN ks /\ 2 \in DOMAIN ks
      BY <1>2, <1>3, <2>3
    <2> QED BY <1>1, <1>2, <2>2, <2>4
  <1>9. CASE t.cmd \notin Redis!KeepsContent \cup {"mset", "del", "rename"}
    <2>1. 1 \in DOMAIN ks
      BY <1>2, <1>4, <1>9 DEF Shaped
    <2>2. w = content \/ \E v : w = [content EXCEPT ![j] = v]
      <3>1. CASE t.cmd = "set"
        <4>1. t.cmd \notin Redis!Shrinking
          BY <3>1 DEF Redis!Shrinking
        <4> QED BY <1>1, <1>9, <3>1, <4>1 DEF Redis!WriteTo
      <3>2. CASE t.cmd = "getset"
        <4>1. t.cmd \notin Redis!Shrinking
          BY <3>2 DEF Redis!Shrinking
        <4> QED BY <1>1, <1>9, <3>2, <4>1 DEF Redis!WriteTo
      <3>3. CASE t.cmd \notin {"set", "getset"}
        BY <1>1, <1>9, <3>3 DEF Redis!WriteTo
      <3> QED BY <3>1, <3>2, <3>3
    <2> QED BY <1>1, <1>2, <2>1, <2>2
  <1> QED BY <1>5, <1>6, <1>7, <1>8, <1>9

(* The contents after each of the commands.                                *)
Runs(f, m, content, q) == f = [i \in 0..m |-> IF i = 0 THEN content ELSE Redis!WriteTo(f[i - 1], q[i])]

(* They exist.                                                             *)
LEMMA HasRuns ==
  ASSUME NEW n \in Nat, NEW q, NEW content
  PROVE  \E f : Runs(f, n, content, q)
  <1>1. PICK B : B = {m \in Nat : ~\E f : Runs(f, m, content, q)}
    OBVIOUS
  <1>2. CASE B = {}
    BY <1>1, <1>2
  <1>3. CASE B # {}
    <2>1. PICK m \in B : m = 0 \/ m - 1 \in Nat \ B
      BY <1>1, <1>3, LeastNat
    <2>2. m \in Nat /\ ~\E f : Runs(f, m, content, q)
      BY <1>1, <2>1
    <2>3. CASE m = 0
      <3>1. PICK f : f = [i \in 0..0 |-> content]
        OBVIOUS
      <3>2. f = [i \in 0..0 |-> IF i = 0 THEN content ELSE Redis!WriteTo(f[i - 1], q[i])]
        BY <3>1
      <3> QED BY <2>2, <2>3, <3>2 DEF Runs
    <2>4. CASE m # 0
      <3>1. PICK f : Runs(f, m - 1, content, q)
        BY <1>1, <2>1, <2>4
      <3>2. PICK g : g = [i \in 0..m |-> IF i < m THEN f[i] ELSE Redis!WriteTo(f[i - 1], q[i])]
        OBVIOUS
      <3>3. ASSUME NEW i \in 0..m PROVE g[i] = IF i = 0 THEN content ELSE Redis!WriteTo(g[i - 1], q[i])
        <4>1. i # 0 => i - 1 \in 0..m /\ i - 1 < m
          BY <2>2
        <4>2. i # 0 => g[i - 1] = f[i - 1]
          BY <3>2, <4>1
        <4>3. CASE i < m
          <5>1. i \in 0..(m - 1)
            BY <2>2, <4>3
          <5>2. f[i] = IF i = 0 THEN content ELSE Redis!WriteTo(f[i - 1], q[i])
            BY <3>1, <5>1 DEF Runs
          <5> QED BY <3>2, <4>2, <4>3, <5>2
        <4>4. CASE ~(i < m)
          <5>1. i = m
            BY <2>2, <4>4
          <5> QED BY <2>4, <3>2, <4>2, <4>4, <5>1
        <4> QED BY <4>3, <4>4
      <3>4. g = [i \in 0..m |-> IF i = 0 THEN content ELSE Redis!WriteTo(g[i - 1], q[i])]
        <4>1. PICK h : h = [i \in 0..m |-> IF i = 0 THEN content ELSE Redis!WriteTo(g[i - 1], q[i])]
          OBVIOUS
        <4>2. DOMAIN g = 0..m /\ DOMAIN h = 0..m /\ \A i \in 0..m : g[i] = h[i]
          BY <3>2, <3>3, <4>1
        <4>3. g = [i \in 0..m |-> g[i]] /\ h = [i \in 0..m |-> h[i]]
          BY <3>2, <4>1
        <4> QED BY <4>1, <4>2, <4>3
      <3> QED BY <2>2, <3>4 DEF Runs
    <2> QED BY <2>3, <2>4
  <1> QED BY <1>2, <1>3

(* Commands change only what one of their keys holds.                      *)
LEMMA AppliedKeeps ==
  ASSUME NEW content, NEW q, IsSeq(q), NEW R,
         \A p \in 1..Len(q) : q[p].keys \in Seq(R) /\ Shaped(q[p])
  PROVE  /\ DOMAIN Redis!Applied(content, q) = DOMAIN content
         /\ \A k \in DOMAIN content :
              (\A p \in 1..Len(q) : \A i \in DOMAIN q[p].keys : q[p].keys[i] # k)
                => Redis!Applied(content, q)[k] = content[k]
  <1>1. PICK n \in Nat : n = Len(q)
    BY DEF IsSeq
  <1>2. PICK F : F = CHOOSE f : f = [i \in 0..n |->
                       IF i = 0 THEN content ELSE Redis!WriteTo(f[i - 1], q[i])]
    OBVIOUS
  <1>3. Redis!Applied(content, q) = F[n]
    BY <1>1, <1>2 DEF Redis!Applied
  <1>4. F = [i \in 0..n |-> IF i = 0 THEN content ELSE Redis!WriteTo(F[i - 1], q[i])]
    <2>1. F = CHOOSE f : Runs(f, n, content, q)
      BY <1>2 DEF Runs
    <2>2. \E f : Runs(f, n, content, q)
      BY HasRuns
    <2>3. Runs(F, n, content, q)
      BY <2>1, <2>2, Zenon
    <2> QED BY <2>3 DEF Runs
  <1>5. PICK K : K = {k \in DOMAIN content : \A p \in 1..n : \A i \in DOMAIN q[p].keys : q[p].keys[i] # k}
    OBVIOUS
  <1>6. PICK B : B = {i \in 0..n : ~(DOMAIN F[i] = DOMAIN content /\ \A k \in K : F[i][k] = content[k])}
    OBVIOUS
  <1>7. B = {}
    <2>1. SUFFICES ASSUME B # {} PROVE FALSE
      OBVIOUS
    <2>2. B \in SUBSET Nat
      BY <1>6
    <2>3. PICK m \in B : m = 0 \/ m - 1 \in Nat \ B
      BY <2>1, <2>2, LeastNat
    <2>4. m \in 0..n
      BY <1>6
    <2>5. CASE m = 0
      <3>1. F[m] = content
        BY <1>4, <2>4, <2>5
      <3> QED BY <1>6, <3>1
    <2>6. CASE m # 0
      <3>1. m - 1 \in 0..n /\ m - 1 \notin B /\ m \in 1..n
        BY <2>3, <2>4, <2>6
      <3>2. PICK a : a = F[m - 1]
        OBVIOUS
      <3>3. DOMAIN a = DOMAIN content /\ \A k \in K : a[k] = content[k]
        BY <1>6, <3>1, <3>2
      <3>4. F[m] = Redis!WriteTo(a, q[m])
        BY <1>4, <2>4, <2>6, <3>2
      <3>5. q[m].keys \in Seq(R) /\ Shaped(q[m])
        BY <1>1, <3>1
      <3>6. /\ DOMAIN Redis!WriteTo(a, q[m]) = DOMAIN a
            /\ \A k \in DOMAIN a : (\A i \in DOMAIN q[m].keys : q[m].keys[i] # k)
                  => Redis!WriteTo(a, q[m])[k] = a[k]
        BY <3>5, WriteKeeps
      <3>7. DOMAIN F[m] = DOMAIN content /\ \A k \in K : F[m][k] = content[k]
        BY <1>5, <3>1, <3>3, <3>4, <3>6
      <3> QED BY <1>6, <3>7
    <2> QED BY <2>5, <2>6
  <1>8. n \in 0..n
    OBVIOUS
  <1>9. DOMAIN F[n] = DOMAIN content /\ \A k \in K : F[n][k] = content[k]
    BY <1>6, <1>7, <1>8
  <1> QED BY <1>1, <1>3, <1>5, <1>9

(* Keys that a query's commands name have its handle's prefix.             *)
LEMMA PrefixedStarts ==
  ASSUME KeysTyped, NEW h \in Redis!Handle, NEW c \in Caller, NEW q \in Queries[c], NEW k \in Prefixed(h, q)
  PROVE  Redis!IsPrefix(KeyPrefix[h], k)
  <1>1. PICK p \in Text : p = KeyPrefix[h]
    BY DEF KeysTyped
  <1>2. \E u \in Text : k = p \o u
    <2>1. CASE \E i \in 1..Len(q.keys) : k = Redis!PrefixKey(h, q.keys[i])
      <3>1. PICK s \in Seq(Text) : s = q.keys
        BY DEF KeysTyped, QueryTyped
      <3>2. PICK i \in 1..Len(s) : k = p \o s[i]
        BY <1>1, <2>1, <3>1 DEF Redis!PrefixKey
      <3>3. s[i] \in Text
        BY <3>2
      <3> QED BY <3>2, <3>3
    <2>2. CASE q.op = "transaction" /\ \E i \in 1..Len(q.args) : \E j \in 1..Len(q.args[i].keys) :
                 k = Redis!PrefixKey(h, q.args[i].keys[j])
      <3>1. PICK i \in 1..Len(q.args) : \E j \in 1..Len(q.args[i].keys) :
                 k = Redis!PrefixKey(h, q.args[i].keys[j])
        BY <2>2
      <3>2. PICK s \in Seq(Text) : s = q.args[i].keys
        BY <2>2, <3>1 DEF KeysTyped, QueryTyped, QueuedTyped
      <3>3. PICK j \in 1..Len(s) : k = p \o s[j]
        BY <1>1, <3>1, <3>2 DEF Redis!PrefixKey
      <3>4. s[j] \in Text
        BY <3>3
      <3> QED BY <3>3, <3>4
    <2> QED BY <2>1, <2>2 DEF Prefixed
  <1>3. PICK u \in Text : k = p \o u
    BY <1>2
  <1>4. p \in Seq(Nat) /\ u \in Seq(Nat) /\ k \in Seq(Nat)
    BY DEF Text, Prefixed
  <1>5. Redis!IsPrefix(p, k)
    BY <1>3, <1>4, PrefixConcat
  <1> QED BY <1>1, <1>5

(* What a number of sendings leaves of the rest of the invariant.          *)
Counted(m) == m.st = "running" => m.resent \in Nat

(* The inductive invariant of Isolated.                                    *)
StoreInv ==
  /\ ScanInv
  /\ DOMAIN store = Key
  /\ \A c \in Caller : Counted(call[c])

(* Parts of what a call sends next, and any choice of them in order, change *)
(* only what keys with the prefix of its handle hold.                       *)
LEMMA EffectKeeps ==
  ASSUME KeysTyped, StoreInv, NEW c \in Caller, Redis!Running(c), NEW n \in Nat, NEW parts,
         n = Len(Redis!Parts(Redis!Current(c))),
         \/ parts = Redis!Parts(Redis!Current(c))
         \/ \E failed \in SUBSET (1..n) :
              parts = Redis!Picked(Redis!Parts(Redis!Current(c)), Redis!Ascending((1..n) \ failed)),
         Redis!Effect(c, parts)
  PROVE  /\ DOMAIN store' = Key
         /\ \A k \in Key : store'[k] # store[k] => Redis!IsPrefix(KeyPrefix[call[c].h], k)
  <1>1. PICK h, q, s, all : h = call[c].h /\ q = call[c].q /\ s = Redis!Current(c) /\ all = Redis!Parts(s)
    OBVIOUS
  <1>2. /\ h \in Redis!Handle /\ q \in Queries[c] /\ call[c].cmds = Redis!Commands(h, q)
        /\ call[c].at \in 1..Len(call[c].cmds)
    BY <1>1 DEF StoreInv, ScanInv, CallOK, Ready, Redis!Running
  <1>3. CommandOK(h, q, s)
    BY <1>1, <1>2, CommandsAre DEF Redis!Current
  <1>4. PICK R : R = Prefixed(h, q)
    OBVIOUS
  <1>5. IsSeq(all) /\ \A i \in 1..n : Shaped(all[i]) /\ all[i].keys \in Seq(R)
    BY <1>1, <1>3, <1>4 DEF CommandOK
  <1>6. IsSeq(parts) /\ \A i \in 1..Len(parts) : parts[i].keys \in Seq(R) /\ Shaped(parts[i])
    <2>1. CASE parts = all
      BY <1>1, <1>5, <2>1
    <2>2. CASE \E failed \in SUBSET (1..n) : parts = Redis!Picked(all, Redis!Ascending((1..n) \ failed))
      <3>1. PICK failed, a :
              failed \in SUBSET (1..n) /\ a = Redis!Ascending((1..n) \ failed) /\ parts = Redis!Picked(all, a)
        BY <2>2
      <3>2. PICK T \in SUBSET (1..n) : T = (1..n) \ failed
        OBVIOUS
      <3>3. IsSeq(a) /\ a \in Seq(T)
        BY <3>1, <3>2, EnumerationIs
      <3>4. PICK m \in Nat : m = Len(a) /\ DOMAIN a = 1..m
        BY <3>3
      <3>5. parts = [j \in 1..m |-> all[a[j]]]
        BY <3>1, <3>4 DEF Redis!Picked
      <3>6. Len(parts) = m /\ parts = [j \in 1..m |-> parts[j]]
        BY <3>5
      <3>7. \A j \in 1..m : a[j] \in 1..n
        <4>1. \A j \in 1..m : a[j] \in T
          BY <3>3, <3>4
        <4> QED BY <4>1
      <3>8. \A j \in 1..m : parts[j] = all[a[j]]
        BY <3>5
      <3> QED BY <1>5, <3>6, <3>7, <3>8 DEF IsSeq
    <2> QED BY <1>1, <2>1, <2>2
  <1>7. store' = Redis!Applied(store, parts)
    BY DEF Redis!Effect
  <1>8. /\ DOMAIN store' = DOMAIN store
        /\ \A k \in DOMAIN store :
             (\A p \in 1..Len(parts) : \A i \in DOMAIN parts[p].keys : parts[p].keys[i] # k)
               => store'[k] = store[k]
    BY <1>6, <1>7, AppliedKeeps
  <1>9. ASSUME NEW k \in Key, store'[k] # store[k]
        PROVE  Redis!IsPrefix(KeyPrefix[h], k)
    <2>1. PICK p \in 1..Len(parts) : \E i \in DOMAIN parts[p].keys : parts[p].keys[i] = k
      BY <1>8, <1>9 DEF StoreInv
    <2>2. PICK ks \in Seq(R) : ks = parts[p].keys
      BY <1>6, <2>1
    <2>3. k \in R
      BY <2>1, <2>2
    <2> QED BY <1>2, <1>4, <2>3, PrefixedStarts
  <1> QED BY <1>1, <1>8, <1>9 DEF StoreInv

(* Each step keeps the count, and a step that writes moves its call.       *)
LEMMA MovedOn ==
  ASSUME KeysTyped, StoreInv, NEW c \in Caller, Redis!Running(c),
         \/ \E g, o : Redis!Advance(c, g, o)
         \/ Redis!Reject(c)
         \/ call' = [call EXCEPT ![c].resent = @ + 1]
  PROVE  call'[c] # call[c] /\ \A d \in Caller : Counted(call'[d])
  <1>1. PICK w : w = call[c]
    OBVIOUS
  <1>2. Made(w) /\ Ready(w) /\ w.st = "running" /\ w.resent \in Nat /\ w.cmds = Redis!Commands(w.h, w.q)
        /\ w.h \in Redis!Handle /\ w.q \in Queries[c]
    BY <1>1 DEF StoreInv, Counted, ScanInv, CallOK, Redis!Running
  <1>3. Len(w.cmds) \in Nat
    BY <1>2, CommandsAre DEF IsSeq
  <1>4. w.at \in Nat
    BY <1>2, <1>3 DEF Ready
  <1>5. PICK m : call' = [call EXCEPT ![c] = m] /\ m # w /\ Counted(m)
    <2>1. CASE \E g, o : Redis!Advance(c, g, o)
      <3>1. PICK g, o : Redis!Advance(c, g, o)
        BY <2>1
      <3>2. PICK st, a : a = w.at + 1 /\ st = IF w.at = Len(w.cmds) THEN "ok" ELSE "running"
        OBVIOUS
      <3>3. PICK m : m = Redis!Kept(w, a, g, o, st)
        OBVIOUS
      <3>4. call' = [call EXCEPT ![c] = m]
        BY <1>1, <3>1, <3>2, <3>3 DEF Redis!Advance
      <3>5. m.at = a /\ m.resent = w.resent
        BY <3>3 DEF Redis!Kept
      <3>6. a # w.at
        BY <1>4, <3>2
      <3> QED BY <1>2, <3>4, <3>5, <3>6 DEF Counted
    <2>2. CASE Redis!Reject(c)
      <3>1. PICK m : m = [w EXCEPT !.st = "error"]
        OBVIOUS
      <3>2. call' = [call EXCEPT ![c] = m]
        BY <1>1, <2>2, <3>1 DEF Redis!Reject, StoreInv, ScanInv
      <3>3. m.st = "error"
        <4>1. DOMAIN w = {"h", "q", "cmds", "at", "got", "resent", "out", "st"}
          BY <1>2 DEF Made
        <4> QED BY <3>1, <4>1
      <3> QED BY <1>2, <3>2, <3>3 DEF Counted
    <2>3. CASE call' = [call EXCEPT ![c].resent = @ + 1]
      <3>1. PICK m : m = [w EXCEPT !.resent = w.resent + 1]
        OBVIOUS
      <3>2. call' = [call EXCEPT ![c] = m]
        BY <1>1, <2>3, <3>1
      <3>3. m.resent = w.resent + 1
        <4>1. DOMAIN w = {"h", "q", "cmds", "at", "got", "resent", "out", "st"}
          BY <1>2 DEF Made
        <4> QED BY <3>1, <4>1
      <3>4. w.resent + 1 \in Nat /\ w.resent + 1 # w.resent
        BY <1>2
      <3> QED BY <3>2, <3>3, <3>4 DEF Counted
    <2> QED BY <2>1, <2>2, <2>3
  <1>6. DOMAIN call = Caller /\ \A d \in Caller : Counted(call[d])
    BY DEF StoreInv, ScanInv
  <1>7. call'[c] = m /\ \A d \in Caller : d # c => call'[d] = call[d]
    BY <1>5, <1>6
  <1>8. ASSUME NEW d \in Caller PROVE Counted(call'[d])
    <2>1. CASE d = c
      BY <1>5, <1>7, <2>1
    <2>2. CASE d # c
      BY <1>6, <1>7, <2>2
    <2> QED BY <2>1, <2>2
  <1> QED BY <1>1, <1>5, <1>7, <1>8

(* A step that writes.                                                     *)
LEMMA WritingStep ==
  ASSUME KeysTyped, StoreInv, NEW c \in Caller,
         Redis!Executed(c) \/ Redis!Failed(c) \/ Redis!Resend(c) \/ Redis!GiveUp(c)
  PROVE  /\ DOMAIN store' = Key /\ \A d \in Caller : Counted(call'[d])
         /\ Redis!IsolatedStep
  <1>1. Redis!Running(c)
    BY DEF Redis!Executed, Redis!Failed, Redis!Resend, Redis!GiveUp
  <1>2. /\ call'[c] # call[c] /\ \A d \in Caller : Counted(call'[d])
    BY <1>1, MovedOn DEF Redis!Executed, Redis!Failed, Redis!Resend, Redis!GiveUp
  <1>3. PICK h, q, s, all : h = call[c].h /\ q = call[c].q /\ s = Redis!Current(c) /\ all = Redis!Parts(s)
    OBVIOUS
  <1>4. PICK n \in Nat : n = Len(all) /\ DOMAIN all = 1..n
    <2>1. /\ h \in Redis!Handle /\ q \in Queries[c] /\ call[c].cmds = Redis!Commands(h, q)
          /\ call[c].at \in 1..Len(call[c].cmds)
      BY <1>1, <1>3 DEF StoreInv, ScanInv, CallOK, Ready, Redis!Running
    <2>2. CommandOK(h, q, s)
      BY <1>3, <2>1, CommandsAre DEF Redis!Current
    <2> QED BY <1>3, <2>2 DEF CommandOK, IsSeq
  <1>5. PICK parts : /\ Redis!Effect(c, parts)
                     /\ \/ parts = all
                        \/ \E failed \in SUBSET (1..n) :
                             parts = Redis!Picked(all, Redis!Ascending((1..n) \ failed))
    BY <1>3, <1>4 DEF Redis!Executed, Redis!Failed, Redis!Resend, Redis!GiveUp
  <1>6. /\ DOMAIN store' = Key
        /\ \A k \in Key : store'[k] # store[k] => Redis!IsPrefix(KeyPrefix[call[c].h], k)
    BY <1>1, <1>3, <1>4, <1>5, EffectKeeps
  <1> QED BY <1>1, <1>2, <1>6 DEF Redis!IsolatedStep

(* It is inductive, and every step is isolated.                            *)
LEMMA StepStoreInv ==
  ASSUME KeysTyped, StoreInv, [Redis!Next]_(Redis!vars)
  PROVE  StoreInv' /\ [Redis!IsolatedStep]_(Redis!vars)
  <1>1. ScanInv'
    BY StepScanInv DEF StoreInv
  <1>2. CASE UNCHANGED Redis!vars
    <2>1. DOMAIN store' = Key /\ \A c \in Caller : Counted(call'[c])
      BY <1>2 DEF Redis!vars, StoreInv
    <2> QED BY <1>1, <1>2, <2>1 DEF StoreInv, Counted
  <1>3. ASSUME NEW c \in Caller, Redis!Executed(c) \/ Redis!Failed(c) \/ Redis!Resend(c) \/ Redis!GiveUp(c)
        PROVE  StoreInv' /\ Redis!IsolatedStep
    <2>1. /\ DOMAIN store' = Key /\ \A d \in Caller : Counted(call'[d])
          /\ Redis!IsolatedStep
      BY <1>3, WritingStep
    <2> QED BY <1>1, <2>1 DEF StoreInv, Counted
  <1>4. ASSUME NEW c \in Caller, Redis!ScanOnce(c)
        PROVE  StoreInv' /\ Redis!IsolatedStep
    <2>1. store' = store
      BY <1>4 DEF Redis!ScanOnce
    <2>2. \A d \in Caller : Counted(call'[d])
      <3>1. PICK w : w = call[c] /\ Redis!Running(c)
        BY <1>4 DEF Redis!ScanOnce
      <3>2. w.resent \in Nat /\ DOMAIN call = Caller /\ \A d \in Caller : Counted(call[d])
        BY <3>1 DEF StoreInv, ScanInv, Counted, Redis!Running
      <3>3. PICK a, g, o, st : call' = [call EXCEPT ![c] = Redis!Kept(w, a, g, o, st)]
        BY <1>4, <3>1 DEF Redis!ScanOnce, Redis!Advance
      <3>4. PICK m : m = Redis!Kept(w, a, g, o, st)
        OBVIOUS
      <3>5. m.resent = w.resent
        BY <3>4 DEF Redis!Kept
      <3>6. call'[c] = m /\ \A d \in Caller : d # c => call'[d] = call[d]
        BY <3>2, <3>3, <3>4
      <3>7. Counted(m)
        BY <3>2, <3>5 DEF Counted
      <3>8. ASSUME NEW d \in Caller PROVE Counted(call'[d])
        BY <3>2, <3>6, <3>7
      <3> QED BY <3>8
    <2> QED BY <1>1, <2>1, <2>2 DEF StoreInv, Counted, Redis!IsolatedStep
  <1>5. ASSUME NEW c \in Caller, NEW h \in Redis!Handle, NEW q \in Queries[c], Redis!Begin(c, h, q)
        PROVE  StoreInv' /\ Redis!IsolatedStep
    <2>1. store' = store
      BY <1>5 DEF Redis!Begin
    <2>2. PICK m : call' = [call EXCEPT ![c] = m] /\ m.resent = 0
      <3>1. PICK st : st = CASE Redis!SlotRefused(q, Redis!Commands(h, q)) -> "error"
                             [] Redis!Commands(h, q) = <<>> -> "ok"
                             [] OTHER -> "running"
        OBVIOUS
      <3>2. PICK m : m = [h |-> h, q |-> q, cmds |-> Redis!Commands(h, q), at |-> 1, got |-> {},
                          resent |-> 0, out |-> Redis!FirstOut(q), st |-> st]
        OBVIOUS
      <3>3. call' = [call EXCEPT ![c] = m]
        BY <1>5, <3>1, <3>2 DEF Redis!Begin
      <3>4. m.resent = 0
        BY <3>2
      <3> QED BY <3>3, <3>4
    <2>3. DOMAIN call = Caller /\ \A d \in Caller : Counted(call[d])
      BY DEF StoreInv, ScanInv
    <2>4. call'[c] = m /\ \A d \in Caller : d # c => call'[d] = call[d]
      BY <2>2, <2>3
    <2>5. Counted(m)
      BY <2>2 DEF Counted
    <2>6. ASSUME NEW d \in Caller PROVE Counted(call'[d])
      BY <2>3, <2>4, <2>5
    <2> QED BY <1>1, <2>1, <2>6 DEF StoreInv, Counted, Redis!IsolatedStep
  <1>6. ASSUME NEW k \in Key, Redis!Replicate(k)
        PROVE  StoreInv' /\ Redis!IsolatedStep
    <2>1. store' = store /\ call' = call
      BY <1>6 DEF Redis!Replicate
    <2>2. \A d \in Caller : Counted(call'[d])
      BY <2>1 DEF StoreInv
    <2> QED BY <1>1, <2>1, <2>2 DEF StoreInv, Counted, Redis!IsolatedStep
  <1> QED BY <1>2, <1>3, <1>4, <1>5, <1>6 DEF Redis!Next

\* What a key holds changes only by a step of a call on a handle whose prefix it
\* has, through a method, a batch or a transaction (RedisCache, prefixKey).
THEOREM IsolatedCorrect ==
  ASSUME KeysTyped
  PROVE  Redis!Spec => Redis!Isolated
  <1>1. Redis!Init => StoreInv
    <2>1. SUFFICES ASSUME Redis!Init PROVE StoreInv
      OBVIOUS
    <2>2. DOMAIN store = Key
      BY <2>1 DEF Redis!Init, Redis!Blank, Redis!Full
    <2>3. \A c \in Caller : Counted(call[c])
      BY <2>1 DEF Redis!Init, Counted
    <2> QED BY <2>1, <2>2, <2>3, InitScanInv DEF StoreInv
  <1>2. StoreInv /\ [Redis!Next]_(Redis!vars) => StoreInv' /\ [Redis!IsolatedStep]_(Redis!vars)
    BY StepStoreInv
  <1> QED BY <1>1, <1>2, PTL DEF Redis!Spec, Redis!Isolated

(* The increasing enumeration of a set of indices has them all.            *)
LEMMA AscendingOnto ==
  ASSUME NEW n \in Nat, NEW S \in SUBSET (1..n), NEW x \in S
  PROVE  \E i \in DOMAIN Redis!Ascending(S) : Redis!Ascending(S)[i] = x
  <1>1. PICK s, k : s = Redis!Ascending(S) /\ k = Cardinality(S)
    OBVIOUS
  <1>2. k \in Nat /\ Increasing(s, k, S)
    BY <1>1, AscendingIs
  <1>3. SUFFICES ASSUME \A i \in 1..k : s[i] # x PROVE FALSE
    BY <1>1, <1>2 DEF Increasing
  <1>4. PICK U : U = S \ {x}
    OBVIOUS
  <1>5. IsFiniteSet(S)
    BY HasEnumeration
  <1>6. IsFiniteSet(U) /\ Cardinality(U) = k - 1
    BY <1>1, <1>4, <1>5, FS_RemoveElement, FS_Subset
  <1>7. IsFiniteSet(1..k) /\ Cardinality(1..k) = k
    <2>1. 1 \in Int /\ k \in Int
      BY <1>2
    <2> QED BY <1>2, <2>1, FS_Interval
  <1>8. s \in [1..k -> U]
    BY <1>2, <1>3, <1>4 DEF Increasing
  <1>9. PICK i \in 1..k, j \in 1..k : i # j /\ s[i] = s[j]
    <2>1. Cardinality(U) < Cardinality(1..k)
      BY <1>2, <1>6, <1>7
    <2>2. \A f \in [1..k -> U] : \E i, j \in 1..k : i # j /\ f[i] = f[j]
      BY <1>6, <1>7, <2>1, FS_PigeonHole
    <2> QED BY <1>8, <2>2
  <1>10. s[i] \in Int /\ s[j] \in Int
    <2>1. s[i] \in S /\ s[j] \in S
      BY <1>2 DEF Increasing
    <2>2. \A y \in S : y \in Int
      OBVIOUS
    <2> QED BY <2>1, <2>2
  <1>11. i < j \/ j < i
    BY <1>9
  <1> QED BY <1>2, <1>9, <1>10, <1>11 DEF Increasing

(* A group has its indices in order, and all of those of a key.            *)
Whole(keys, s) ==
  /\ s \in Seq(1..Len(keys))
  /\ \A a, b \in DOMAIN s : a < b => s[a] < s[b]
  /\ \A a \in DOMAIN s : \A i \in 1..Len(keys) :
       keys[i] = keys[s[a]] => \E b \in DOMAIN s : s[b] = i

LEMMA GroupsWhole ==
  ASSUME NEW keys \in Seq(Text)
  PROVE  /\ \A g \in 1..Len(Redis!Groups(keys)) : Whole(keys, Redis!Groups(keys)[g])
         /\ \A i \in 1..Len(keys) : \E g \in 1..Len(Redis!Groups(keys)) :
              \E a \in DOMAIN Redis!Groups(keys)[g] : Redis!Groups(keys)[g][a] = i
  <1>1. PICK n \in Nat : n = Len(keys) /\ DOMAIN keys = 1..n
    OBVIOUS
  <1>2. CASE ~ClusterMode \/ n <= 1
    <2>1. PICK s : s = [i \in 1..n |-> i]
      OBVIOUS
    <2>2. Redis!Groups(keys) = <<s>>
      BY <1>1, <1>2, <2>1 DEF Redis!Groups
    <2>3. s \in Seq(1..n) /\ DOMAIN s = 1..n /\ \A i \in 1..n : s[i] = i
      BY <2>1
    <2>4. Whole(keys, s)
      BY <1>1, <2>3 DEF Whole
    <2>5. Len(<<s>>) = 1 /\ <<s>>[1] = s /\ 1..1 = {1}
      OBVIOUS
    <2> QED BY <1>1, <2>2, <2>3, <2>4, <2>5
  <1>3. CASE ClusterMode /\ ~(n <= 1)
    <2>1. PICK L \in SUBSET (1..n) :
            L = {i \in 1..n : \A j \in 1..(i - 1) : ClientSlot[keys[j]] # ClientSlot[keys[i]]}
      OBVIOUS
    <2>2. PICK s : s = Redis!Ascending(L)
      OBVIOUS
    <2>3. IsSeq(s) /\ s \in Seq(L)
      BY <2>2, EnumerationIs
    <2>4. PICK f : f = [g \in DOMAIN s |->
              Redis!Ascending({i \in 1..n : ClientSlot[keys[i]] = ClientSlot[keys[s[g]]]})]
      OBVIOUS
    <2>5. Redis!Groups(keys) = f
      BY <1>1, <1>3, <2>1, <2>2, <2>4 DEF Redis!Groups, Redis!GroupBySlot
    <2>6. DOMAIN s = 1..Len(s) /\ Len(s) \in Nat
      BY <2>3
    <2>7. Len(f) = Len(s)
      BY <2>4, <2>6
    <2>8. ASSUME NEW g \in 1..Len(s)
          PROVE  /\ Whole(keys, f[g])
                 /\ \A i \in 1..n : ClientSlot[keys[i]] = ClientSlot[keys[s[g]]] =>
                      \E a \in DOMAIN f[g] : f[g][a] = i
      <3>1. PICK S \in SUBSET (1..n) : S = {i \in 1..n : ClientSlot[keys[i]] = ClientSlot[keys[s[g]]]}
        OBVIOUS
      <3>2. PICK t : t = f[g]
        OBVIOUS
      <3>3. t = Redis!Ascending(S)
        BY <2>4, <2>6, <3>1, <3>2
      <3>4. PICK k \in Nat : Increasing(t, k, S)
        BY <3>3, AscendingIs
      <3>5. DOMAIN t = 1..k /\ \A a \in 1..k : t[a] \in S /\ t[a] \in 1..n
        BY <3>4 DEF Increasing
      <3>6. t \in Seq(1..n)
        <4>1. t \in [1..k -> 1..n]
          BY <3>4, <3>5 DEF Increasing
        <4> QED BY <4>1
      <3>7. \A a, b \in DOMAIN t : a < b => t[a] < t[b]
        BY <3>4, <3>5 DEF Increasing
      <3>8. \A i \in S : \E b \in DOMAIN t : t[b] = i
        BY <3>3, AscendingOnto
      <3>9. \A a \in DOMAIN t : \A i \in 1..n : keys[i] = keys[t[a]] => i \in S
        BY <3>1, <3>5
      <3>10. Whole(keys, t)
        BY <1>1, <3>6, <3>7, <3>8, <3>9 DEF Whole
      <3> QED BY <3>1, <3>2, <3>8, <3>10
    <2>9. ASSUME NEW i \in 1..n
          PROVE  \E g \in 1..Len(s) : ClientSlot[keys[i]] = ClientSlot[keys[s[g]]]
      <3>1. PICK B : B = {j \in 1..n : ClientSlot[keys[j]] = ClientSlot[keys[i]]}
        OBVIOUS
      <3>2. B \subseteq Nat /\ i \in B
        BY <3>1
      <3>3. PICK j \in B : \A e \in B : ~(<<e, j>> \in OpToRel(<, Nat))
        BY <3>2, NatLessThanWellFounded, WFMin
      <3>4. \A e \in B : ~(e < j)
        BY <3>2, <3>3 DEF OpToRel
      <3>5. j \in 1..n /\ ClientSlot[keys[j]] = ClientSlot[keys[i]]
        BY <3>1
      <3>6. ASSUME NEW e \in 1..(j - 1) PROVE ClientSlot[keys[e]] # ClientSlot[keys[j]]
        <4>1. e < j /\ e \in 1..n
          BY <3>5
        <4>2. e \notin B
          BY <3>4, <4>1
        <4> QED BY <3>1, <3>5, <4>1, <4>2
      <3>7. j \in L
        BY <2>1, <3>5, <3>6
      <3>8. PICK g \in DOMAIN s : s[g] = j
        BY <2>2, <3>7, AscendingOnto
      <3> QED BY <2>6, <3>5, <3>8
    <2>10. ASSUME NEW i \in 1..n
           PROVE  \E g \in 1..Len(s) : \E a \in DOMAIN f[g] : f[g][a] = i
      <3>1. PICK g \in 1..Len(s) : ClientSlot[keys[i]] = ClientSlot[keys[s[g]]]
        BY <2>9
      <3> QED BY <2>8, <3>1
    <2>11. PICK G : G = Redis!Groups(keys)
      OBVIOUS
    <2>12. /\ \A g \in 1..Len(G) : Whole(keys, G[g])
           /\ \A i \in 1..Len(keys) : \E g \in 1..Len(G) : \E a \in DOMAIN G[g] : G[g][a] = i
      BY <1>1, <2>5, <2>7, <2>8, <2>10, <2>11
    <2> QED BY <2>11, <2>12
  <1> QED BY <1>2, <1>3

(* The greatest of a set of indices.                                       *)
LEMMA MaxIs ==
  ASSUME NEW n \in Nat, NEW S \in SUBSET (1..n), S # {}
  PROVE  /\ Redis!Max(S) \in S /\ \A y \in S : Redis!Max(S) >= y
         /\ \A z \in S : (\A y \in S : z >= y) => z = Redis!Max(S)
  <1>1. \E x \in S : \A y \in S : x >= y
    BY GreatestIndex
  <1>2. PICK x : x = Redis!Max(S)
    OBVIOUS
  <1>3. x = CHOOSE z \in S : \A y \in S : z >= y
    BY <1>2 DEF Redis!Max
  <1>4. x \in S /\ \A y \in S : x >= y
    BY <1>1, <1>3
  <1>5. ASSUME NEW z \in S, \A y \in S : z >= y PROVE z = x
    <2>1. z >= x /\ x >= z
      BY <1>4, <1>5
    <2>2. z \in Int /\ x \in Int
      BY <1>4
    <2> QED BY <2>1, <2>2
  <1> QED BY <1>2, <1>4, <1>5

(* What a batch leaves of a key it names.                                  *)
Latest(keys, x) == Redis!Max({i \in DOMAIN keys : keys[i] = x})
Entry(q, keys, x) == IF q.op = "mset" THEN q.args[Latest(keys, x)] ELSE Absent
Names(keys, s, x) == \E a \in DOMAIN s : keys[s[a]] = x

(* The last entry of a key in its group is its last entry.                 *)
LEMMA GroupLatest ==
  ASSUME NEW keys \in Seq(Text), NEW s, Whole(keys, s), NEW x, Names(keys, s, x), NEW args
  PROVE  Redis!Picked(args, s)[Latest(Redis!Picked(keys, s), x)] = args[Latest(keys, x)]
  <1>1. PICK n \in Nat : n = Len(keys) /\ DOMAIN keys = 1..n
    OBVIOUS
  <1>2. PICK m \in Nat : DOMAIN s = 1..m /\ s \in [1..m -> 1..n]
    BY <1>1 DEF Whole
  <1>3. PICK J \in SUBSET (1..m), I \in SUBSET (1..n) :
          J = {j \in 1..m : keys[s[j]] = x} /\ I = {i \in 1..n : keys[i] = x}
    OBVIOUS
  <1>4. PICK p, v : p = Redis!Picked(keys, s) /\ v = Redis!Picked(args, s)
    OBVIOUS
  <1>5. p = [j \in 1..m |-> keys[s[j]]] /\ v = [j \in 1..m |-> args[s[j]]]
    BY <1>2, <1>4 DEF Redis!Picked
  <1>6. Latest(p, x) = Redis!Max(J) /\ Latest(keys, x) = Redis!Max(I)
    <2>1. {j \in DOMAIN p : p[j] = x} = J
      BY <1>3, <1>5
    <2>2. {i \in DOMAIN keys : keys[i] = x} = I
      BY <1>1, <1>3
    <2> QED BY <2>1, <2>2 DEF Latest
  <1>7. PICK a \in J : TRUE
    BY <1>2, <1>3 DEF Names
  <1>8. s[a] \in I
    BY <1>2, <1>3, <1>7
  <1>9. PICK jm \in J, im \in I : /\ jm = Redis!Max(J) /\ im = Redis!Max(I)
                                  /\ \A y \in J : jm >= y
                                  /\ \A y \in I : im >= y
    BY <1>7, <1>8, MaxIs
  <1>10. keys[im] = keys[s[a]] /\ im \in 1..n /\ a \in 1..m
    BY <1>3, <1>7
  <1>11. PICK b \in 1..m : s[b] = im
    BY <1>1, <1>2, <1>10 DEF Whole
  <1>12. b \in J
    BY <1>3, <1>10, <1>11
  <1>13. s[jm] \in I /\ jm \in 1..m
    BY <1>2, <1>3
  <1>14. ~(b < jm)
    <2>1. b < jm => s[b] < s[jm]
      BY <1>2, <1>13 DEF Whole
    <2>2. im >= s[jm] /\ s[jm] \in Int /\ im \in Int
      <3>1. \A y \in I : y \in Int
        OBVIOUS
      <3> QED BY <1>9, <1>13, <3>1
    <2> QED BY <1>11, <2>1, <2>2
  <1>15. b = jm
    BY <1>9, <1>12, <1>13, <1>14
  <1> QED BY <1>4, <1>5, <1>6, <1>9, <1>11, <1>13, <1>15

(* The commands of a batch.                                                *)
LEMMA BatchCommands ==
  ASSUME NEW h, NEW q, q.op \in Batched
  PROVE  LET keys == Redis!PrefixKeys(h, q.keys)
             gs == Redis!Groups(keys)
             commands == Redis!Commands(h, q)
         IN  /\ DOMAIN commands = DOMAIN gs
             /\ \A g \in DOMAIN gs :
                  commands[g] = Redis!Cmd(CASE q.op = "mget" -> "mget" [] q.op = "mset" -> "mset" [] OTHER -> "del",
                                          Redis!Picked(keys, gs[g]),
                                          IF q.op = "mset" THEN Redis!Picked(q.args, gs[g]) ELSE <<>>)
  <1>1. DOMAIN Redis!OneSlot = {"setUnion", "setIntersect", "setDiff"}
    BY DEF Redis!OneSlot
  <1>2. PICK keys, gs : keys = Redis!PrefixKeys(h, q.keys) /\ gs = Redis!Groups(keys)
    OBVIOUS
  <1>3. CASE q.op = "mget"
    <2>1. Redis!Commands(h, q) = [g \in DOMAIN gs |-> Redis!Cmd("mget", Redis!Picked(keys, gs[g]), <<>>)]
      BY <1>1, <1>2, <1>3 DEF Redis!Commands, Redis!MGet
    <2> QED BY <1>2, <1>3, <2>1
  <1>4. CASE q.op = "mset"
    <2>1. Redis!Commands(h, q) = [g \in DOMAIN gs |->
            Redis!Cmd("mset", Redis!Picked(keys, gs[g]), Redis!Picked(q.args, gs[g]))]
      BY <1>1, <1>2, <1>4 DEF Redis!Commands, Redis!MSet
    <2> QED BY <1>2, <1>4, <2>1
  <1>5. CASE q.op = "mdelete"
    <2>1. Redis!Commands(h, q) = [g \in DOMAIN gs |-> Redis!Cmd("del", Redis!Picked(keys, gs[g]), <<>>)]
      BY <1>1, <1>2, <1>5 DEF Redis!Commands, Redis!MDelete
    <2> QED BY <1>2, <1>5, <2>1
  <1> QED BY <1>3, <1>4, <1>5 DEF Batched

(* A command of a writing batch: the keys of its group have their entries  *)
(* afterwards, the others what they had.                                   *)
LEMMA GroupWrites ==
  ASSUME KeysTyped, NEW h \in Redis!Handle, NEW c \in Caller, NEW q \in Queries[c],
         q.op \in {"mset", "mdelete"}, NEW content,
         NEW g \in DOMAIN Redis!Groups(Redis!PrefixKeys(h, q.keys))
  PROVE  LET keys == Redis!PrefixKeys(h, q.keys)
             s == Redis!Groups(keys)[g]
             after == Redis!WriteTo(content, Redis!Commands(h, q)[g])
         IN  after = [x \in DOMAIN content |->
                        IF Names(keys, s, x) THEN Entry(q, keys, x) ELSE content[x]]
  <1>1. PICK keys, gs : keys = Redis!PrefixKeys(h, q.keys) /\ gs = Redis!Groups(keys)
    OBVIOUS
  <1>2. keys \in Seq(Text)
    BY <1>1, PrefixKeysAre
  <1>3. DOMAIN gs = 1..Len(gs)
    BY <1>1, <1>2, GroupsAre DEF IsSeq
  <1>4. PICK s : s = gs[g] /\ Whole(keys, s)
    BY <1>1, <1>2, <1>3, GroupsWhole
  <1>5. PICK p, v, t, w : /\ p = Redis!Picked(keys, s) /\ v = Redis!Picked(q.args, s)
                          /\ t = Redis!Commands(h, q)[g] /\ w = Redis!WriteTo(content, t)
    OBVIOUS
  <1>6. t = Redis!Cmd(IF q.op = "mset" THEN "mset" ELSE "del", p, IF q.op = "mset" THEN v ELSE <<>>)
    BY <1>1, <1>4, <1>5, BatchCommands DEF Batched
  <1>7. t.cmd = (IF q.op = "mset" THEN "mset" ELSE "del") /\ t.keys = p /\ (q.op = "mset" => t.args = v)
    BY <1>6, CmdFields
  <1>8. DOMAIN p = DOMAIN s /\ \A j \in DOMAIN s : p[j] = keys[s[j]]
    BY <1>5 DEF Redis!Picked
  <1>9. DOMAIN p = 1..Len(p)
    <2>1. PICK m \in Nat : DOMAIN s = 1..m
      BY <1>4 DEF Whole
    <2>2. p = [j \in 1..m |-> keys[s[j]]]
      BY <1>5, <2>1 DEF Redis!Picked
    <2>3. Len(p) = m
      BY <2>2
    <2> QED BY <1>8, <2>1, <2>3
  <1>10. \A x : Redis!Contains(p, x) <=> Names(keys, s, x)
    BY <1>8, <1>9 DEF Redis!Contains, Names
  <1>11. CASE q.op = "mset"
    <2>1. t.cmd \notin Redis!KeepsContent \cup Redis!Shrinking
      BY <1>7, <1>11 DEF Redis!KeepsContent, Redis!Shrinking
    <2>2. w = [x \in DOMAIN content |->
                IF Redis!Contains(p, x) THEN v[Redis!Max({i \in DOMAIN p : p[i] = x})]
                ELSE content[x]]
      BY <1>5, <1>7, <1>11, <2>1 DEF Redis!WriteTo
    <2>3. ASSUME NEW x, Names(keys, s, x)
          PROVE  v[Redis!Max({i \in DOMAIN p : p[i] = x})] = Entry(q, keys, x)
      <3>1. v[Latest(p, x)] = q.args[Latest(keys, x)]
        BY <1>2, <1>4, <1>5, <2>3, GroupLatest
      <3> QED BY <1>11, <3>1 DEF Latest, Entry
    <2> QED BY <1>1, <1>4, <1>5, <1>10, <2>2, <2>3
  <1>12. CASE q.op = "mdelete"
    <2>1. t.cmd \notin Redis!KeepsContent \cup Redis!Shrinking
      BY <1>7, <1>12 DEF Redis!KeepsContent, Redis!Shrinking
    <2>2. w = [x \in DOMAIN content |-> IF Redis!Contains(p, x) THEN Absent ELSE content[x]]
      BY <1>5, <1>7, <1>12, <2>1 DEF Redis!WriteTo
    <2> QED BY <1>1, <1>4, <1>5, <1>10, <1>12, <2>2 DEF Entry
  <1> QED BY <1>11, <1>12

(* Applied gives the last of the contents after each command.              *)
LEMMA AppliedRuns ==
  ASSUME NEW content, NEW q, NEW n \in Nat, n = Len(q)
  PROVE  \E F : Runs(F, n, content, q) /\ Redis!Applied(content, q) = F[n]
  <1>1. PICK F : F = CHOOSE f : f = [i \in 0..n |->
                       IF i = 0 THEN content ELSE Redis!WriteTo(f[i - 1], q[i])]
    OBVIOUS
  <1>2. Redis!Applied(content, q) = F[n]
    BY <1>1 DEF Redis!Applied
  <1>3. F = CHOOSE f : Runs(f, n, content, q)
    BY <1>1 DEF Runs
  <1>4. \E f : Runs(f, n, content, q)
    BY HasRuns
  <1>5. Runs(F, n, content, q)
    BY <1>3, <1>4, Zenon
  <1> QED BY <1>2, <1>5

(* The contents after each command.                                        *)
LEMMA RunsFields ==
  ASSUME NEW content, NEW q, NEW n \in Nat, NEW F, Runs(F, n, content, q)
  PROVE  F[0] = content /\ \A i \in 1..n : F[i] = Redis!WriteTo(F[i - 1], q[i])
  <1>1. F = [i \in 0..n |-> IF i = 0 THEN content ELSE Redis!WriteTo(F[i - 1], q[i])]
    BY DEF Runs
  <1>2. 0 \in 0..n /\ \A i \in 1..n : i \in 0..n /\ i # 0
    OBVIOUS
  <1> QED BY <1>1, <1>2

(* Commands that were run are not undone by later ones.                    *)
LEMMA RunsAgree ==
  ASSUME NEW content, NEW q, NEW p, NEW n \in Nat, NEW m \in Nat, n <= m, NEW F, NEW G,
         Runs(F, n, content, q), Runs(G, m, content, p), \A i \in 1..n : p[i] = q[i]
  PROVE  F[n] = G[n]
  <1>1. /\ F[0] = content /\ \A i \in 1..n : F[i] = Redis!WriteTo(F[i - 1], q[i])
        /\ G[0] = content /\ \A i \in 1..m : G[i] = Redis!WriteTo(G[i - 1], p[i])
    BY RunsFields
  <1>2. PICK B : B = {i \in 0..n : F[i] # G[i]}
    OBVIOUS
  <1>3. CASE B = {}
    <2>1. n \in 0..n
      OBVIOUS
    <2> QED BY <1>2, <1>3, <2>1
  <1>4. CASE B # {}
    <2>1. B \in SUBSET Nat
      BY <1>2
    <2>2. PICK k \in B : k = 0 \/ k - 1 \in Nat \ B
      BY <1>4, <2>1, LeastNat
    <2>3. k \in 0..n /\ F[k] # G[k]
      BY <1>2
    <2>4. k # 0
      BY <1>1, <2>3
    <2>5. k - 1 \in 0..n /\ k \in 1..n /\ k \in 1..m
      BY <2>3, <2>4
    <2>6. F[k - 1] = G[k - 1]
      BY <1>2, <2>2, <2>4, <2>5
    <2> QED BY <1>1, <2>3, <2>5, <2>6
  <1> QED BY <1>3, <1>4

(* No command changes nothing.                                             *)
LEMMA AppliedNothing == \A content : Redis!Applied(content, <<>>) = content
  <1>1. SUFFICES ASSUME NEW content PROVE Redis!Applied(content, <<>>) = content
    OBVIOUS
  <1>2. PICK q : q = <<>> /\ Len(q) = 0
    OBVIOUS
  <1>3. PICK F : Runs(F, 0, content, q) /\ Redis!Applied(content, q) = F[0]
    BY <1>2, AppliedRuns
  <1>4. F[0] = content
    <2>1. 0 \in Nat
      OBVIOUS
    <2> QED BY <1>3, <2>1, RunsFields
  <1> QED BY <1>2, <1>3, <1>4

(* Sequences, whatever their elements are.                                 *)
LEMMA ConcatIs ==
  ASSUME NEW r, NEW t, IsSeq(r), IsSeq(t)
  PROVE  /\ IsSeq(r \o t) /\ Len(r \o t) = Len(r) + Len(t)
         /\ \A i \in 1..Len(r) : (r \o t)[i] = r[i]
         /\ \A i \in 1..Len(t) : (r \o t)[Len(r) + i] = t[i]
  <1>1. PICK n \in Nat, m \in Nat : n = Len(r) /\ m = Len(t)
    BY DEF IsSeq
  <1>2. r = [i \in 1..n |-> r[i]] /\ t = [i \in 1..m |-> t[i]]
    BY <1>1 DEF IsSeq
  <1>3. PICK R : R = {r[i] : i \in 1..n} \cup {t[i] : i \in 1..m}
    OBVIOUS
  <1>4. r \in [1..n -> R] /\ t \in [1..m -> R]
    BY <1>2, <1>3
  <1>5. r \in Seq(R) /\ t \in Seq(R)
    BY <1>4
  <1>6. PICK u \in Seq(R) : u = r \o t
    BY <1>5, ConcatProperties
  <1>7. /\ Len(u) = n + m
        /\ \A i \in 1..n : u[i] = r[i]
        /\ \A i \in 1..m : u[n + i] = t[i]
    BY <1>1, <1>5, <1>6
  <1>8. IsSeq(u)
    <2>1. Len(u) \in Nat /\ u \in [1..Len(u) -> R]
      OBVIOUS
    <2>2. u = [i \in 1..Len(u) |-> u[i]]
      BY <2>1
    <2> QED BY <2>1, <2>2 DEF IsSeq
  <1> QED BY <1>1, <1>6, <1>7, <1>8

(* One more command.                                                       *)
LEMMA AppliedOne ==
  ASSUME NEW content, NEW r, IsSeq(r), NEW s
  PROVE  Redis!Applied(content, r \o <<s>>) = Redis!WriteTo(Redis!Applied(content, r), s)
  <1>1. PICK n \in Nat : n = Len(r)
    BY DEF IsSeq
  <1>2. PICK t, u : t = <<s>> /\ u = r \o t
    OBVIOUS
  <1>3. IsSeq(t) /\ Len(t) = 1 /\ t[1] = s
    BY <1>2, Alone
  <1>4. Len(u) = n + 1 /\ (\A i \in 1..n : u[i] = r[i]) /\ u[n + 1] = s
    <2>1. 1 \in 1..Len(t)
      BY <1>3
    <2> QED BY <1>1, <1>2, <1>3, <2>1, ConcatIs
  <1>5. PICK F : Runs(F, n, content, r) /\ Redis!Applied(content, r) = F[n]
    BY <1>1, AppliedRuns
  <1>6. PICK m \in Nat : m = n + 1
    OBVIOUS
  <1>7. PICK G : Runs(G, m, content, u) /\ Redis!Applied(content, u) = G[m]
    BY <1>4, <1>6, AppliedRuns
  <1>8. F[n] = G[n]
    <2>1. n <= m
      BY <1>6
    <2> QED BY <1>4, <1>5, <1>7, <2>1, RunsAgree
  <1>9. G[m] = Redis!WriteTo(G[n], s)
    <2>1. \A i \in 1..m : G[i] = Redis!WriteTo(G[i - 1], u[i])
      BY <1>7, RunsFields
    <2>2. m \in 1..m /\ m - 1 = n
      BY <1>6
    <2>3. u[m] = s
      BY <1>4, <1>6
    <2> QED BY <2>1, <2>2, <2>3
  <1> QED BY <1>2, <1>5, <1>7, <1>8, <1>9

(* The entries of a batch one by one: a key that it names has its last     *)
(* entry, the others what they had.                                        *)
LEMMA OneByOneLeaves ==
  ASSUME KeysTyped, NEW h \in Redis!Handle, NEW c \in Caller, NEW q \in Queries[c],
         q.op \in {"mset", "mdelete"}, NEW content, content = [x \in DOMAIN content |-> content[x]]
  PROVE  LET keys == Redis!PrefixKeys(h, q.keys)
             after == Redis!Applied(content, Redis!OneByOne(h, q))
         IN  after = [x \in DOMAIN content |->
                        IF Redis!Contains(keys, x) THEN Entry(q, keys, x) ELSE content[x]]
  <1>1. PICK keys, p : keys = Redis!PrefixKeys(h, q.keys) /\ p = Redis!OneByOne(h, q)
    OBVIOUS
  <1>2. PICK n \in Nat : n = Len(q.keys) /\ n = Len(keys) /\ DOMAIN keys = 1..n /\ DOMAIN q.keys = 1..n
    <2>1. PICK ks \in Seq(Text) : ks = keys
      BY <1>1, PrefixKeysAre
    <2>2. PICK us \in Seq(Text) : us = q.keys
      BY DEF KeysTyped, QueryTyped
    <2>3. Len(keys) = Len(q.keys)
      BY <1>1, PrefixKeysAre
    <2> QED BY <2>1, <2>2, <2>3
  <1>3. \A i \in 1..n : keys[i] = Redis!PrefixKey(h, q.keys[i])
    BY <1>1, <1>2 DEF Redis!PrefixKeys
  <1>4. p = [i \in 1..n |-> IF q.op = "mset" THEN Redis!Cmd("set", <<keys[i]>>, <<q.args[i]>>)
                            ELSE Redis!Cmd("del", <<keys[i]>>, <<>>)]
    <2>1. CASE q.op = "mset"
      <3>1. p = [i \in DOMAIN q.keys |-> Redis!Cmd("set", <<Redis!PrefixKey(h, q.keys[i])>>, <<q.args[i]>>)]
        BY <1>1, <2>1 DEF Redis!OneByOne
      <3> QED BY <1>2, <1>3, <2>1, <3>1
    <2>2. CASE q.op = "mdelete"
      <3>1. p = [i \in DOMAIN q.keys |-> Redis!Cmd("del", <<Redis!PrefixKey(h, q.keys[i])>>, <<>>)]
        BY <1>1, <2>2 DEF Redis!OneByOne
      <3> QED BY <1>2, <1>3, <2>2, <3>1
    <2> QED BY <2>1, <2>2
  <1>5. Len(p) = n
    BY <1>4
  <1>6. PICK F : Runs(F, n, content, p) /\ Redis!Applied(content, p) = F[n]
    BY <1>5, AppliedRuns
  <1>7. F[0] = content /\ \A i \in 1..n : F[i] = Redis!WriteTo(F[i - 1], p[i])
    BY <1>6, RunsFields
  <1>8. ASSUME NEW i \in 1..n, NEW a
        PROVE  LET w == Redis!WriteTo(a, p[i]) IN
               w = [x \in DOMAIN a |->
                      IF x # keys[i] THEN a[x] ELSE IF q.op = "mset" THEN q.args[i] ELSE Absent]
    <2>1. PICK t, w, k : t = p[i] /\ w = Redis!WriteTo(a, t) /\ k = keys[i]
      OBVIOUS
    <2>2. CASE q.op = "mset"
      <3>1. t.cmd = "set" /\ t.keys = <<k>> /\ t.args = <<q.args[i]>>
        BY <1>4, <2>1, <2>2, CmdFields
      <3>2. t.keys[1] = k /\ t.args[1] = q.args[i] /\ Len(Tail(t.args)) = 0
        <4>1. \A v : <<v>>[1] = v /\ Len(Tail(<<v>>)) = 0
          OBVIOUS
        <4> QED BY <3>1, <4>1
      <3>3. t.cmd \notin Redis!KeepsContent \cup Redis!Shrinking
        BY <3>1 DEF Redis!KeepsContent, Redis!Shrinking
      <3>4. ~Redis!Contains(Tail(t.args), "NX") /\ ~Redis!Contains(Tail(t.args), "XX")
        <4>1. PICK u, e : u = Tail(t.args) /\ e = Len(u)
          OBVIOUS
        <4>4. e = 0
          BY <3>2, <4>1
        <4>5. 1..e = {}
          BY <4>4
        <4>2. 1..Len(u) = {}
          BY <4>1, <4>5
        <4>3. \A v : ~Redis!Contains(u, v)
          BY <4>2 DEF Redis!Contains
        <4> QED BY <4>1, <4>3
      <3>5. w = [a EXCEPT ![k] = q.args[i]]
        BY <2>1, <3>1, <3>2, <3>3, <3>4 DEF Redis!WriteTo
      <3> QED BY <2>1, <2>2, <3>5
    <2>3. CASE q.op = "mdelete"
      <3>1. t.cmd = "del" /\ t.keys = <<k>>
        BY <1>4, <2>1, <2>3, CmdFields
      <3>2. \A x : Redis!Contains(<<k>>, x) <=> x = k
        <4>1. Len(<<k>>) = 1 /\ <<k>>[1] = k
          OBVIOUS
        <4> QED BY <4>1 DEF Redis!Contains
      <3>3. t.cmd \notin Redis!KeepsContent \cup Redis!Shrinking
        BY <3>1 DEF Redis!KeepsContent, Redis!Shrinking
      <3>4. w = [x \in DOMAIN a |-> IF Redis!Contains(t.keys, x) THEN Absent ELSE a[x]]
        BY <2>1, <3>1, <3>3 DEF Redis!WriteTo
      <3> QED BY <2>1, <2>3, <3>1, <3>2, <3>4
    <2> QED BY <2>2, <2>3
  <1>9. PICK B : B = {i \in 0..n : ~(/\ F[i] = [x \in DOMAIN content |-> F[i][x]]
                                     /\ \A x \in DOMAIN content :
                                          /\ (\A j \in 1..i : keys[j] # x) => F[i][x] = content[x]
                                          /\ \A j \in 1..i :
                                               keys[j] = x /\ (\A e \in (j + 1)..i : keys[e] # x) =>
                                                 F[i][x] = IF q.op = "mset" THEN q.args[j] ELSE Absent)}
    OBVIOUS
  <1>10. B = {}
    <2>1. SUFFICES ASSUME B # {} PROVE FALSE
      OBVIOUS
    <2>2. B \in SUBSET Nat
      BY <1>9
    <2>3. PICK m \in B : m = 0 \/ m - 1 \in Nat \ B
      BY <2>1, <2>2, LeastNat
    <2>4. m \in 0..n
      BY <1>9
    <2>5. CASE m = 0
      BY <1>7, <1>9, <2>5
    <2>6. CASE m # 0
      <3>1. m - 1 \in 0..n /\ m - 1 \notin B /\ m \in 1..n
        BY <2>3, <2>4, <2>6
      <3>2. PICK a, w : a = F[m - 1] /\ w = F[m]
        OBVIOUS
      <3>3. /\ a = [x \in DOMAIN content |-> a[x]]
            /\ \A x \in DOMAIN content :
                 /\ (\A j \in 1..(m - 1) : keys[j] # x) => a[x] = content[x]
                 /\ \A j \in 1..(m - 1) :
                      keys[j] = x /\ (\A e \in (j + 1)..(m - 1) : keys[e] # x) =>
                        a[x] = IF q.op = "mset" THEN q.args[j] ELSE Absent
        BY <1>9, <3>1, <3>2
      <3>0. w = [x \in DOMAIN content |->
                   IF x # keys[m] THEN a[x] ELSE IF q.op = "mset" THEN q.args[m] ELSE Absent]
        <4>1. DOMAIN a = DOMAIN content
          BY <3>3
        <4>2. w = Redis!WriteTo(a, p[m])
          BY <1>7, <3>1, <3>2
        <4> QED BY <1>8, <3>1, <4>1, <4>2
      <3>4. /\ w = [x \in DOMAIN content |-> w[x]]
            /\ \A x \in DOMAIN content :
                 w[x] = IF x # keys[m] THEN a[x] ELSE IF q.op = "mset" THEN q.args[m] ELSE Absent
        BY <3>0
      <3>5. ASSUME NEW x \in DOMAIN content, \A j \in 1..m : keys[j] # x
            PROVE  w[x] = content[x]
        <4>1. \A j \in 1..(m - 1) : j \in 1..m
          BY <2>4
        <4> QED BY <3>1, <3>3, <3>4, <3>5, <4>1
      <3>6. ASSUME NEW x \in DOMAIN content, NEW j \in 1..m, keys[j] = x,
                   \A e \in (j + 1)..m : keys[e] # x
            PROVE  w[x] = IF q.op = "mset" THEN q.args[j] ELSE Absent
        <4>1. CASE j = m
          BY <3>3, <3>4, <3>6, <4>1
        <4>2. CASE j # m
          <5>1. j \in 1..(m - 1) /\ m \in (j + 1)..m /\ \A e \in (j + 1)..(m - 1) : e \in (j + 1)..m
            BY <2>4, <4>2
          <5>2. keys[m] # x
            BY <3>6, <5>1
          <5>3. a[x] = IF q.op = "mset" THEN q.args[j] ELSE Absent
            BY <3>3, <3>6, <5>1
          <5> QED BY <3>3, <3>4, <5>2, <5>3
        <4> QED BY <4>1, <4>2
      <3>7. w = F[m] /\ m \in 0..n /\ m \in B
        BY <2>3, <2>4, <3>2
      <3>8. ~(/\ w = [x \in DOMAIN content |-> w[x]]
              /\ \A x \in DOMAIN content :
                   /\ (\A j \in 1..m : keys[j] # x) => w[x] = content[x]
                   /\ \A j \in 1..m :
                        keys[j] = x /\ (\A e \in (j + 1)..m : keys[e] # x) =>
                          w[x] = IF q.op = "mset" THEN q.args[j] ELSE Absent)
        BY <1>9, <3>7
      <3> QED BY <3>4, <3>5, <3>6, <3>8
    <2> QED BY <2>5, <2>6
  <1>11. /\ F[n] = [x \in DOMAIN content |-> F[n][x]]
         /\ \A x \in DOMAIN content :
              /\ (\A j \in 1..n : keys[j] # x) => F[n][x] = content[x]
              /\ \A j \in 1..n :
                   keys[j] = x /\ (\A e \in (j + 1)..n : keys[e] # x) =>
                     F[n][x] = IF q.op = "mset" THEN q.args[j] ELSE Absent
    <2>1. n \in 0..n
      OBVIOUS
    <2> QED BY <1>9, <1>10, <2>1
  <1>12. ASSUME NEW x \in DOMAIN content, Redis!Contains(keys, x)
         PROVE  F[n][x] = Entry(q, keys, x)
    <2>1. PICK I \in SUBSET (1..n) : I = {i \in DOMAIN keys : keys[i] = x}
      BY <1>2
    <2>2. I # {}
      BY <1>2, <1>12, <2>1 DEF Redis!Contains
    <2>3. PICK j \in I : j = Redis!Max(I) /\ \A y \in I : j >= y
      BY <2>2, MaxIs
    <2>4. j \in 1..n /\ keys[j] = x /\ Latest(keys, x) = j
      BY <1>2, <2>1, <2>3 DEF Latest
    <2>5. ASSUME NEW e \in (j + 1)..n PROVE keys[e] # x
      <3>1. e \in 1..n /\ ~(j >= e)
        BY <2>4
      <3> QED BY <1>2, <2>1, <2>3, <3>1
    <2> QED BY <1>11, <2>4, <2>5 DEF Entry
  <1>13. ASSUME NEW x \in DOMAIN content, ~Redis!Contains(keys, x)
         PROVE  F[n][x] = content[x]
    BY <1>2, <1>11, <1>13 DEF Redis!Contains
  <1> QED BY <1>1, <1>6, <1>11, <1>12, <1>13

(* The arguments of a method of the builder, as its signature has them.    *)
QueuedFit(a) ==
  /\ IsSeq(a.args)
  /\ IF a.op = "rename" THEN a.args = <<>> ELSE Len(a.keys) = 1
  /\ a.op = "hashIncr" => Len(a.args) \in {1, 2}
  /\ a.op = "sortedSetIncr" => Len(a.args) = 2

(* The words of the forwarded methods are those of the builder.            *)
Unlisted == {"set", "incr", "decr", "hashIncr", "listPush", "sortedSetIncr", "rename"}
Agrees(t) ==
  \A op \in DOMAIN t :
    /\ op \in DOMAIN Redis!QueuedName => t[op] = Redis!QueuedName[op]
    /\ op = "get" => t[op] = "get"
    /\ op \notin Unlisted

(* The tables of the handle agree with those of the builder.               *)
LEMMA TablesAgree == \A t \in Redis!Tables : Agrees(t)
  <1>1. Agrees(Redis!CoreCommand)
    BY DEF Agrees, Unlisted, Redis!QueuedName, Redis!CoreCommand
  <1>2. Agrees(Redis!KeyCommand)
    BY DEF Agrees, Unlisted, Redis!QueuedName, Redis!KeyCommand
  <1>3. Agrees(Redis!HashCommand)
    BY DEF Agrees, Unlisted, Redis!QueuedName, Redis!HashCommand
  <1>4. Agrees(Redis!ListCommand)
    BY DEF Agrees, Unlisted, Redis!QueuedName, Redis!ListCommand
  <1>5. Agrees(Redis!SetCommand)
    BY DEF Agrees, Unlisted, Redis!QueuedName, Redis!SetCommand
  <1>6. Agrees(Redis!SortedSetCommand)
    BY DEF Agrees, Unlisted, Redis!QueuedName, Redis!SortedSetCommand
  <1>7. Agrees([incrFloat |-> "incrbyfloat"])
    BY DEF Agrees, Unlisted, Redis!QueuedName
  <1> QED BY <1>1, <1>2, <1>3, <1>4, <1>5, <1>6, <1>7 DEF Redis!Tables

(* So does what they are joined to.                                        *)
LEMMA ForwardedWords ==
  /\ \A op \in (DOMAIN Redis!QueuedName) \ {"rename"} :
       op \in DOMAIN Redis!Forwarded /\ Redis!Forwarded[op] = Redis!QueuedName[op]
  /\ "get" \in DOMAIN Redis!Forwarded /\ Redis!Forwarded["get"] = "get"
  /\ \A op \in Unlisted : op \notin DOMAIN Redis!Forwarded
  <1>1. DOMAIN Redis!Forwarded = UNION {DOMAIN t : t \in Redis!Tables}
    BY DEF Redis!Forwarded
  <1>2. ASSUME NEW op, NEW t \in Redis!Tables, op \in DOMAIN t
        PROVE  /\ op \in DOMAIN Redis!Forwarded
               /\ \E u \in Redis!Tables : op \in DOMAIN u /\ Redis!Forwarded[op] = u[op]
    <2>1. op \in DOMAIN Redis!Forwarded
      BY <1>1, <1>2
    <2>2. PICK u : u = CHOOSE v \in Redis!Tables : op \in DOMAIN v
      OBVIOUS
    <2>3. u \in Redis!Tables /\ op \in DOMAIN u
      BY <1>2, <2>2
    <2>4. Redis!Forwarded[op] = u[op]
      BY <1>1, <2>1, <2>2 DEF Redis!Forwarded
    <2> QED BY <2>1, <2>3, <2>4
  <1>3. ASSUME NEW op \in (DOMAIN Redis!QueuedName) \ {"rename"}
        PROVE  \E t \in Redis!Tables : op \in DOMAIN t
    <2>1. op \in {"delete", "getSet", "append", "incrFloat", "hashSet", "hashDelete", "listTrim",
                  "setAdd", "setRemove", "sortedSetAdd", "sortedSetRemove", "expire", "persist"}
      BY DEF Redis!QueuedName
    <2>2. CASE op \in {"delete", "getSet", "append"}
      <3>1. op \in DOMAIN Redis!CoreCommand
        BY <2>2 DEF Redis!CoreCommand
      <3> QED BY <3>1 DEF Redis!Tables
    <2>3. CASE op \in {"expire", "persist"}
      <3>1. op \in DOMAIN Redis!KeyCommand
        BY <2>3 DEF Redis!KeyCommand
      <3> QED BY <3>1 DEF Redis!Tables
    <2>4. CASE op \in {"hashSet", "hashDelete"}
      <3>1. op \in DOMAIN Redis!HashCommand
        BY <2>4 DEF Redis!HashCommand
      <3> QED BY <3>1 DEF Redis!Tables
    <2>5. CASE op = "listTrim"
      <3>1. op \in DOMAIN Redis!ListCommand
        BY <2>5 DEF Redis!ListCommand
      <3> QED BY <3>1 DEF Redis!Tables
    <2>6. CASE op \in {"setAdd", "setRemove"}
      <3>1. op \in DOMAIN Redis!SetCommand
        BY <2>6 DEF Redis!SetCommand
      <3> QED BY <3>1 DEF Redis!Tables
    <2>7. CASE op \in {"sortedSetAdd", "sortedSetRemove"}
      <3>1. op \in DOMAIN Redis!SortedSetCommand
        BY <2>7 DEF Redis!SortedSetCommand
      <3> QED BY <3>1 DEF Redis!Tables
    <2>8. CASE op = "incrFloat"
      <3>1. op \in DOMAIN [incrFloat |-> "incrbyfloat"]
        BY <2>8
      <3> QED BY <3>1 DEF Redis!Tables
    <2> QED BY <2>1, <2>2, <2>3, <2>4, <2>5, <2>6, <2>7, <2>8
  <1>4. Redis!CoreCommand \in Redis!Tables /\ "get" \in DOMAIN Redis!CoreCommand
    BY DEF Redis!Tables, Redis!CoreCommand
  <1>5. /\ "get" \in DOMAIN Redis!Forwarded /\ Redis!Forwarded["get"] = "get"
    BY <1>2, <1>4, TablesAgree DEF Agrees
  <1>6. ASSUME NEW op \in (DOMAIN Redis!QueuedName) \ {"rename"}
        PROVE  op \in DOMAIN Redis!Forwarded /\ Redis!Forwarded[op] = Redis!QueuedName[op]
    BY <1>2, <1>3, TablesAgree DEF Agrees
  <1>7. \A op \in Unlisted : op \notin DOMAIN Redis!Forwarded
    BY <1>1, TablesAgree DEF Agrees
  <1> QED BY <1>5, <1>6, <1>7

(* What the builder queues is what the method itself would send.           *)
LEMMA QueuedSame ==
  ASSUME NEW h, NEW a, QueuedTyped(a), QueuedFit(a)
  PROVE  Redis!Queued(h, a) = Redis!DirectCommand(h, a)
  <1>1. PICK k, u : k = Redis!PrefixKey(h, a.keys[1]) /\ u = Redis!QueuedCall(a)
    OBVIOUS
  <1>2. PICK s : s = Redis!DirectCommand(h, a)
    OBVIOUS
  <1>3. a.op # "rename" => Redis!BuilderKeys(h, a) = <<k>>
    <2>1. PICK t \in Seq(Text) : t = a.keys
      BY DEF QueuedTyped
    <2>2. Len(t) = 1 => DOMAIN t = 1..1
      OBVIOUS
    <2>3. PICK f : f = [i \in 1..1 |-> KeyPrefix[h] \o t[i]]
      OBVIOUS
    <2>6. PICK x : x = KeyPrefix[h] \o t[1]
      OBVIOUS
    <2>7. f = [i \in 1..1 |-> x]
      BY <2>3, <2>6
    <2>8. [i \in 1..1 |-> x] = <<x>>
      OBVIOUS
    <2>4. f = <<KeyPrefix[h] \o t[1]>>
      BY <2>6, <2>7, <2>8
    <2>5. a.op # "rename" => Redis!BuilderKeys(h, a) = f
      BY <2>1, <2>2, <2>3 DEF QueuedFit, Redis!BuilderKeys
    <2> QED BY <1>1, <2>1, <2>4, <2>5 DEF Redis!PrefixKey
  <1>4. \A x, y : <<x, y>>[1] = x /\ <<x, y>>[2] = y
    OBVIOUS
  <1>5. Redis!Queued(h, a) = Redis!Cmd(u[1], Redis!BuilderKeys(h, a), u[2])
    BY <1>1 DEF Redis!Queued
  <1>6. DOMAIN Redis!QueuedName \cap {"set", "incr", "decr", "hashIncr", "listPush", "sortedSetIncr"} = {}
    BY DEF Redis!QueuedName
  <1>7. CASE a.op \in (DOMAIN Redis!QueuedName) \ {"rename"}
    <2>4. a.op \in {"delete", "getSet", "append", "incrFloat", "hashSet", "hashDelete", "listTrim",
                    "setAdd", "setRemove", "sortedSetAdd", "sortedSetRemove", "expire", "persist"}
      BY <1>7 DEF Redis!QueuedName
    <2>1. u = <<Redis!QueuedName[a.op], a.args>>
      BY <1>1, <1>7, <2>4 DEF Redis!QueuedCall
    <2>2. s = Redis!Cmd(Redis!Forwarded[a.op], <<k>>, a.args)
      BY <1>1, <1>2, <1>7, <2>4, ForwardedWords DEF Redis!DirectCommand
    <2>3. a.op # "rename"
      BY <1>7
    <2> QED BY <1>2, <1>3, <1>4, <1>5, <1>7, <2>1, <2>2, <2>3, ForwardedWords
  <1>8. CASE a.op = "rename"
    <2>1. "rename" \in DOMAIN Redis!QueuedName /\ Redis!QueuedName["rename"] = "rename"
      BY DEF Redis!QueuedName
    <2>2. u = <<"rename", a.args>>
      BY <1>1, <1>8, <2>1 DEF Redis!QueuedCall
    <2>3. a.op \notin DOMAIN Redis!Forwarded
      BY <1>8, ForwardedWords DEF Unlisted
    <2>4. s = Redis!Cmd("rename", Redis!PrefixKeys(h, a.keys), <<>>)
      BY <1>2, <1>8, <2>3 DEF Redis!DirectCommand
    <2>5. Redis!BuilderKeys(h, a) = Redis!PrefixKeys(h, a.keys)
      BY DEF Redis!BuilderKeys, Redis!PrefixKeys, Redis!PrefixKey
    <2>6. a.args = <<>>
      BY <1>8 DEF QueuedFit
    <2> QED BY <1>2, <1>4, <1>5, <2>2, <2>4, <2>5, <2>6
  <1>9. CASE a.op \in Unlisted \ {"rename"}
    <2>1. a.op \notin DOMAIN Redis!Forwarded /\ a.op \notin DOMAIN Redis!QueuedName /\ a.op # "rename"
      BY <1>6, <1>9, ForwardedWords DEF Unlisted
    <2>2. CASE a.op = "set"
      <3>1. s = Redis!SetCommandOf(k, a)
        BY <1>1, <1>2, <2>1, <2>2 DEF Redis!DirectCommand
      <3>2. u = <<"set", a.args \o Redis!When("ttl" \in a.opt, <<"EX", "ttl">>)
                  \o (IF "ifNotExists" \in a.opt THEN <<"NX">>
                      ELSE IF "ifExists" \in a.opt THEN <<"XX">> ELSE <<>>)>>
        BY <1>1, <2>1, <2>2 DEF Redis!QueuedCall
      <3> QED BY <1>2, <1>3, <1>4, <1>5, <2>1, <3>1, <3>2 DEF Redis!SetCommandOf, Redis!When
    <2>3. CASE a.op = "incr"
      <3>1. s = Redis!Counter(k, a, "incr", "incrby")
        BY <1>1, <1>2, <2>1, <2>3 DEF Redis!DirectCommand
      <3>2. u = Redis!QueuedCounter(a, "incr", "incrby")
        BY <1>1, <2>1, <2>3 DEF Redis!QueuedCall
      <3> QED BY <1>2, <1>3, <1>4, <1>5, <2>1, <3>1, <3>2 DEF Redis!Counter, Redis!QueuedCounter
    <2>4. CASE a.op = "decr"
      <3>1. s = Redis!Counter(k, a, "decr", "decrby")
        BY <1>1, <1>2, <2>1, <2>4 DEF Redis!DirectCommand
      <3>2. u = Redis!QueuedCounter(a, "decr", "decrby")
        BY <1>1, <2>1, <2>4 DEF Redis!QueuedCall
      <3> QED BY <1>2, <1>3, <1>4, <1>5, <2>1, <3>1, <3>2 DEF Redis!Counter, Redis!QueuedCounter
    <2>5. CASE a.op = "hashIncr"
      <3>1. s = Redis!HashIncr(k, a)
        BY <1>1, <1>2, <2>1, <2>5 DEF Redis!DirectCommand
      <3>2. u = <<"hincrby", IF Len(a.args) > 1 THEN a.args ELSE Append(a.args, 1)>>
        BY <1>1, <2>1, <2>5 DEF Redis!QueuedCall
      <3>3. PICK d, n : d = a.args /\ n = Len(d)
        OBVIOUS
      <3>4. n \in {1, 2}
        BY <2>5, <3>3 DEF QueuedFit
      <3>5. n = 1 => d = <<d[1]>>
        BY <3>3 DEF QueuedFit, IsSeq
      <3>6. \A x : Append(<<x>>, 1) = <<x>> \o <<1>>
        OBVIOUS
      <3>7. (IF n > 1 THEN d ELSE Append(d, 1)) = (IF n = 1 THEN d \o <<1>> ELSE d)
        <4>1. CASE n = 1
          <5>1. ~(n > 1) /\ Append(d, 1) = d \o <<1>>
            BY <3>5, <3>6, <4>1
          <5> QED BY <4>1, <5>1
        <4>2. CASE n = 2
          BY <4>2
        <4> QED BY <3>4, <4>1, <4>2
      <3> QED BY <1>2, <1>3, <1>4, <1>5, <2>1, <3>1, <3>2, <3>3, <3>7 DEF Redis!HashIncr
    <2>6. CASE a.op = "listPush"
      <3>1. s = Redis!ListPush(k, a)
        BY <1>1, <1>2, <2>1, <2>6 DEF Redis!DirectCommand
      <3>2. u = <<IF "left" \in a.opt THEN "lpush" ELSE "rpush", a.args>>
        BY <1>1, <2>1, <2>6 DEF Redis!QueuedCall
      <3> QED BY <1>2, <1>3, <1>4, <1>5, <2>1, <3>1, <3>2 DEF Redis!ListPush
    <2>7. CASE a.op = "sortedSetIncr"
      <3>1. s = Redis!SortedSetIncr(k, a)
        BY <1>1, <1>2, <2>1, <2>7 DEF Redis!DirectCommand
      <3>2. u = <<"zincrby", <<a.args[2], a.args[1]>> >>
        BY <1>1, <2>1, <2>7 DEF Redis!QueuedCall
      <3>3. PICK d : d = a.args
        OBVIOUS
      <3>4. Len(d) = 2
        BY <2>7, <3>3 DEF QueuedFit
      <3>5. Redis!Reverse(d) = <<d[2], d[1]>>
        BY <3>4 DEF Redis!Reverse
      <3> QED BY <1>2, <1>3, <1>4, <1>5, <2>1, <3>1, <3>2, <3>3, <3>5 DEF Redis!SortedSetIncr
    <2> QED BY <1>9, <2>2, <2>3, <2>4, <2>5, <2>6, <2>7 DEF Unlisted
  <1> QED BY <1>7, <1>8, <1>9 DEF QueuedTyped, Queueable, Unlisted

(* The builder's arguments fit, and what is read is among the keys.        *)
Fitted ==
  \A c \in Caller : \A q \in Queries[c] :
    /\ q.op = "transaction" => \A i \in 1..Len(q.args) : QueuedFit(q.args[i])
    /\ q.op \in {"get", "mget"} => \A h \in Redis!Handle : Prefixed(h, q) \subseteq Key

(* The commands of a transaction have been run, if any.                    *)
RanParts(m, r) ==
  \/ m.at = 1 /\ r = <<>>
  \/ /\ Len(r) >= Len(m.q.args)
     /\ \A i \in 1..Len(m.q.args) : r[i] = Redis!DirectCommand(m.h, m.q.args[i])

(* The first j groups of a batch have their entries, and nothing else has  *)
(* changed but for the batch.                                              *)
RanGroups(h, q, r, j) ==
  LET keys == Redis!PrefixKeys(h, q.keys) IN
  \A content \in {Redis!Blank, Redis!Full} :
    LET after == Redis!Applied(content, r) IN
    /\ after = [x \in Key |-> after[x]]
    /\ \A x \in Key :
         /\ ~Redis!Contains(keys, x) => after[x] = content[x]
         /\ (\E g \in 1..j : Names(keys, Redis!Groups(keys)[g], x)) => after[x] = Entry(q, keys, x)

(* The values of the first j groups are values their keys had.             *)
GotGroups(h, q, out, j, sight) ==
  LET keys == Redis!PrefixKeys(h, q.keys) IN
  /\ out = [i \in DOMAIN q.keys |-> out[i]]
  /\ \A g \in 1..j : \A a \in DOMAIN Redis!Groups(keys)[g] :
       out[Redis!Groups(keys)[g][a]] \in sight[keys[Redis!Groups(keys)[g][a]]]

(* What the property asks of a call that is done, and as much of it as a   *)
(* call under way has reached.                                             *)
Served(m, r, sight) ==
  m.st \in {"running", "ok"} =>
    /\ IsSeq(r) /\ (m.st = "ok" => m.at = Len(m.cmds) + 1)
    /\ m.q.op = "transaction" => RanParts(m, r)
    /\ m.q.op \in {"mset", "mdelete"} => RanGroups(m.h, m.q, r, m.at - 1)
    /\ m.q.op = "mget" => GotGroups(m.h, m.q, m.out, m.at - 1, sight)
    /\ m.q.op = "get" /\ m.st = "ok" => m.out[1] \in sight[Redis!PrefixKey(m.h, m.q.keys[1])]

(* A call that reads has seen what its keys hold mine.                      *)
Sees(m, sight, masters, replicas) ==
  m.st = "running" /\ m.q.op \in {"get", "mget", "scan"} =>
    \A k \in Key : (IF Redis!FromReplica(m.q) THEN replicas[k] ELSE masters[k]) \in sight[k]

(* The inductive invariant of Fulfilled.                                   *)
FulfilInv ==
  /\ ScanInv
  /\ DOMAIN ran = Caller
  /\ \A c \in Caller : /\ call[c].st = "idle" => ran[c] = <<>>
                       /\ Served(call[c], ran[c], seen[c])
                       /\ Sees(call[c], seen[c], store, replica)

(* What a batch or a read names is in its groups, by their indices.        *)
LEMMA GroupKeys ==
  ASSUME KeysTyped, NEW h \in Redis!Handle, NEW c \in Caller, NEW q \in Queries[c],
         q.op \in Batched
  PROVE  LET keys == Redis!PrefixKeys(h, q.keys)
             gs == Redis!Groups(keys)
             commands == Redis!Commands(h, q)
         IN  /\ Len(commands) = Len(gs) /\ Len(gs) \in Nat /\ DOMAIN gs = 1..Len(gs)
             /\ \A g \in 1..Len(gs) : \A a \in DOMAIN gs[g] :
                  gs[g][a] \in 1..Len(keys) /\ gs[g][a] \in DOMAIN q.keys
                  /\ keys[gs[g][a]] \in Prefixed(h, q)
  <1>1. PICK keys, gs, f : /\ keys = Redis!PrefixKeys(h, q.keys) /\ gs = Redis!Groups(keys)
                           /\ f = Redis!Commands(h, q)
    OBVIOUS
  <1>2. keys \in Seq(Text) /\ keys \in Seq(Prefixed(h, q)) /\ Len(keys) = Len(q.keys)
    BY <1>1, PrefixKeysAre
  <1>3. IsSeq(gs) /\ IsSeq(f)
    BY <1>1, <1>2, GroupsAre, CommandsAre
  <1>4. DOMAIN f = DOMAIN gs
    BY <1>1, BatchCommands
  <1>5. Len(f) = Len(gs) /\ Len(gs) \in Nat /\ DOMAIN gs = 1..Len(gs)
    <2>1. DOMAIN f = 1..Len(f) /\ DOMAIN gs = 1..Len(gs) /\ Len(f) \in Nat /\ Len(gs) \in Nat
      BY <1>3 DEF IsSeq
    <2>2. PICK n \in Nat, m \in Nat : n = Len(f) /\ m = Len(gs) /\ 1..n = 1..m
      BY <1>4, <2>1
    <2>3. n = m
      BY <2>2
    <2> QED BY <2>1, <2>2, <2>3
  <1>6. \A g \in 1..Len(gs) : Whole(keys, gs[g])
    BY <1>1, <1>2, GroupsWhole
  <1>7. DOMAIN q.keys = 1..Len(keys)
    <2>1. PICK us \in Seq(Text) : us = q.keys
      BY DEF KeysTyped, QueryTyped
    <2> QED BY <1>2, <2>1
  <1>8. ASSUME NEW g \in 1..Len(gs), NEW a \in DOMAIN gs[g]
        PROVE  gs[g][a] \in 1..Len(keys) /\ keys[gs[g][a]] \in Prefixed(h, q)
    <2>1. PICK s \in Seq(1..Len(keys)) : s = gs[g]
      BY <1>6 DEF Whole
    <2>2. PICK i \in 1..Len(keys) : i = gs[g][a]
      BY <1>8, <2>1
    <2>3. keys[i] \in Prefixed(h, q)
      BY <1>2
    <2> QED BY <2>2, <2>3
  <1> QED BY <1>1, <1>5, <1>7, <1>8

(* Another command of a writing batch.                                     *)
LEMMA BatchRuns ==
  ASSUME KeysTyped, NEW h \in Redis!Handle, NEW c \in Caller, NEW q \in Queries[c],
         q.op \in {"mset", "mdelete"}, NEW r, IsSeq(r), NEW j \in 1..Len(Redis!Commands(h, q)),
         RanGroups(h, q, r, j - 1)
  PROVE  RanGroups(h, q, r \o <<Redis!Commands(h, q)[j]>>, j)
  <1>1. PICK keys, gs, s : /\ keys = Redis!PrefixKeys(h, q.keys) /\ gs = Redis!Groups(keys)
                           /\ s = Redis!Commands(h, q)[j]
    OBVIOUS
  <1>2. j \in DOMAIN gs /\ keys \in Seq(Text) /\ j \in Nat \ {0} /\ j \in 1..Len(gs)
    BY <1>1, GroupKeys, PrefixKeysAre DEF Batched
  <1>3. SUFFICES ASSUME NEW content \in {Redis!Blank, Redis!Full}
                 PROVE  LET after == Redis!Applied(content, r \o <<s>>) IN
                        /\ after = [x \in Key |-> after[x]]
                        /\ \A x \in Key :
                             /\ ~Redis!Contains(keys, x) => after[x] = content[x]
                             /\ (\E g \in 1..j : Names(keys, gs[g], x)) => after[x] = Entry(q, keys, x)
    BY <1>1 DEF RanGroups
  <1>4. PICK a, w : a = Redis!Applied(content, r) /\ w = Redis!Applied(content, r \o <<s>>)
    OBVIOUS
  <1>5. /\ a = [x \in Key |-> a[x]]
        /\ \A x \in Key :
             /\ ~Redis!Contains(keys, x) => a[x] = content[x]
             /\ (\E g \in 1..(j - 1) : Names(keys, gs[g], x)) => a[x] = Entry(q, keys, x)
    BY <1>1, <1>4 DEF RanGroups
  <1>6. w = Redis!WriteTo(a, s)
    BY <1>4, AppliedOne
  <1>7. w = [x \in DOMAIN a |-> IF Names(keys, gs[j], x) THEN Entry(q, keys, x) ELSE a[x]]
    BY <1>1, <1>2, <1>6, GroupWrites
  <1>8. DOMAIN a = Key
    BY <1>5
  <1>9. w = [x \in Key |-> w[x]] /\ \A x \in Key : w[x] = IF Names(keys, gs[j], x) THEN Entry(q, keys, x) ELSE a[x]
    BY <1>7, <1>8
  <1>10. ASSUME NEW x \in Key, ~Redis!Contains(keys, x) PROVE w[x] = content[x]
    <2>1. PICK t \in Seq(1..Len(keys)) : t = gs[j]
      BY <1>1, <1>2, GroupsWhole DEF Whole
    <2>2. ~Names(keys, gs[j], x)
      BY <1>2, <1>10, <2>1 DEF Names, Redis!Contains
    <2> QED BY <1>5, <1>9, <1>10, <2>2
  <1>11. ASSUME NEW x \in Key, NEW g \in 1..j, Names(keys, gs[g], x) PROVE w[x] = Entry(q, keys, x)
    <2>1. CASE g = j
      BY <1>9, <1>11, <2>1
    <2>2. CASE g # j
      <3>1. g \in 1..(j - 1)
        BY <1>2, <2>2
      <3> QED BY <1>5, <1>9, <1>11, <3>1
    <2> QED BY <2>1, <2>2
  <1> QED BY <1>4, <1>9, <1>10, <1>11

(* Fewer groups are asked of.                                              *)
LEMMA FewerGroups ==
  ASSUME NEW h, NEW q, NEW r, NEW j \in Nat, RanGroups(h, q, r, j)
  PROVE  RanGroups(h, q, r, j - 1)
  <1>1. \A g \in 1..(j - 1) : g \in 1..j
    OBVIOUS
  <1> QED BY <1>1 DEF RanGroups

(* A batch that is done has done what its entries do one by one.           *)
LEMMA BatchDone ==
  ASSUME KeysTyped, NEW h \in Redis!Handle, NEW c \in Caller, NEW q \in Queries[c],
         q.op \in {"mset", "mdelete"}, NEW r, RanGroups(h, q, r, Len(Redis!Commands(h, q))),
         NEW content \in {Redis!Blank, Redis!Full}
  PROVE  Redis!Applied(content, r) = Redis!Applied(content, Redis!OneByOne(h, q))
  <1>1. PICK keys, gs, n : /\ keys = Redis!PrefixKeys(h, q.keys) /\ gs = Redis!Groups(keys)
                           /\ n = Len(Redis!Commands(h, q))
    OBVIOUS
  <1>2. n = Len(gs) /\ keys \in Seq(Text)
    BY <1>1, GroupKeys, PrefixKeysAre DEF Batched
  <1>3. PICK a, w : a = Redis!Applied(content, r) /\ w = Redis!Applied(content, Redis!OneByOne(h, q))
    OBVIOUS
  <1>4. DOMAIN content = Key /\ content = [x \in DOMAIN content |-> content[x]]
    BY DEF Redis!Blank, Redis!Full
  <1>5. w = [x \in Key |-> IF Redis!Contains(keys, x) THEN Entry(q, keys, x) ELSE content[x]]
    BY <1>1, <1>3, <1>4, OneByOneLeaves
  <1>6. /\ a = [x \in Key |-> a[x]]
        /\ \A x \in Key :
             /\ ~Redis!Contains(keys, x) => a[x] = content[x]
             /\ (\E g \in 1..n : Names(keys, gs[g], x)) => a[x] = Entry(q, keys, x)
    BY <1>1, <1>3 DEF RanGroups
  <1>7. ASSUME NEW x \in Key, Redis!Contains(keys, x) PROVE a[x] = Entry(q, keys, x)
    <2>1. PICK i \in 1..Len(keys) : keys[i] = x
      BY <1>7 DEF Redis!Contains
    <2>2. PICK g \in 1..Len(gs) : \E b \in DOMAIN gs[g] : gs[g][b] = i
      BY <1>1, <1>2, GroupsWhole
    <2>3. Names(keys, gs[g], x)
      BY <2>1, <2>2 DEF Names
    <2> QED BY <1>2, <1>6, <2>3
  <1>8. \A x \in Key : a[x] = IF Redis!Contains(keys, x) THEN Entry(q, keys, x) ELSE content[x]
    BY <1>6, <1>7
  <1> QED BY <1>3, <1>5, <1>6, <1>8

(* The methods the property is about.                                      *)
Promising == Batched \cup {"transaction", "get"}

(* They are told apart by name.                                            *)
LEMMA PromisingDirect ==
  /\ "transaction" \notin Batched \cup DOMAIN Redis!OneSlot \cup {"scan"}
  /\ "get" \notin Batched \cup DOMAIN Redis!OneSlot \cup {"scan", "transaction"}
  BY DEF Batched, Redis!OneSlot

(* The command of a get, and those of a transaction.                       *)
LEMMA GetCommands ==
  ASSUME NEW h, NEW q, q.op = "get"
  PROVE  Redis!Commands(h, q) = <<Redis!Cmd("get", <<Redis!PrefixKey(h, q.keys[1])>>, q.args)>>
  <1>1. PICK s, k : s = Redis!DirectCommand(h, q) /\ k = Redis!PrefixKey(h, q.keys[1])
    OBVIOUS
  <1>2. Redis!Commands(h, q) = <<s>>
    BY <1>1, PromisingDirect DEF Redis!Commands, Batched
  <1>3. s = Redis!Cmd("get", <<k>>, q.args)
    BY <1>1, ForwardedWords DEF Redis!DirectCommand
  <1> QED BY <1>1, <1>2, <1>3

(* A transaction sends the commands of the direct methods as one unit, or  *)
(* nothing.                                                                *)
LEMMA TransactionCommands ==
  ASSUME KeysTyped, Fitted, NEW h \in Redis!Handle, NEW c \in Caller, NEW q \in Queries[c],
         q.op = "transaction"
  PROVE  \/ Redis!Commands(h, q) = <<>> /\ Len(q.args) = 0
         \/ \E s : /\ Redis!Commands(h, q) = <<s>> /\ s.cmd = "multi"
                   /\ IsSeq(s.parts) /\ Len(s.parts) = Len(q.args)
                   /\ \A i \in 1..Len(q.args) : s.parts[i] = Redis!DirectCommand(h, q.args[i])
  <1>1. PICK n \in Nat : n = Len(q.args) /\ q.args = [i \in 1..n |-> q.args[i]]
                         /\ \A i \in 1..n : QueuedTyped(q.args[i]) /\ QueuedFit(q.args[i])
    BY DEF KeysTyped, QueryTyped, IsSeq, Fitted
  <1>2. PICK s : s = Redis!Transaction(h, q)
    OBVIOUS
  <1>3. PICK ps : ps = [i \in 1..n |-> Redis!Queued(h, q.args[i])]
    OBVIOUS
  <1>4. s.cmd = "multi" /\ s.parts = ps
    <2>1. DOMAIN q.args = 1..n
      BY <1>1
    <2> QED BY <1>2, <1>3, <2>1 DEF Redis!Transaction
  <1>5. Len(ps) = n /\ IsSeq(ps)
    BY <1>3 DEF IsSeq
  <1>6. \A i \in 1..n : ps[i] = Redis!DirectCommand(h, q.args[i])
    BY <1>1, <1>3, QueuedSame
  <1>7. Redis!Commands(h, q) = Redis!When(q.args # <<>>, <<s>>)
    BY <1>2, PromisingDirect DEF Redis!Commands, Batched
  <1>8. q.args = <<>> => n = 0
    BY <1>1
  <1> QED BY <1>1, <1>4, <1>5, <1>6, <1>7, <1>8 DEF Redis!When

(* Such a method scans nothing, and sends its batches one by one.          *)
LEMMA PromisingCommand ==
  ASSUME KeysTyped, Fitted, ScanInv, NEW c \in Caller, Redis!Running(c), call[c].q.op \in Promising
  PROVE  LET m == call[c]  s == Redis!Current(c)  parts == Redis!Parts(Redis!Current(c)) IN
         /\ m.h \in Redis!Handle /\ m.q \in Queries[c] /\ m.cmds = Redis!Commands(m.h, m.q)
         /\ m.at \in 1..Len(m.cmds) /\ Len(m.cmds) \in Nat /\ s = m.cmds[m.at]
         /\ s.cmd # "scan"
         /\ m.q.op \in Batched => parts = <<s>>
         /\ m.q.op \in {"get", "transaction"} => m.at = 1 /\ Len(m.cmds) = 1
         /\ m.q.op = "get" => s = Redis!Cmd("get", <<Redis!PrefixKey(m.h, m.q.keys[1])>>, m.q.args)
         /\ m.q.op = "transaction" =>
              /\ IsSeq(parts) /\ Len(parts) = Len(m.q.args)
              /\ \A i \in 1..Len(m.q.args) : parts[i] = Redis!DirectCommand(m.h, m.q.args[i])
  <1>1. PICK m, s, h, q, f : m = call[c] /\ s = Redis!Current(c) /\ h = m.h /\ q = m.q /\ f = m.cmds
    OBVIOUS
  <1>2. h \in Redis!Handle /\ q \in Queries[c] /\ f = Redis!Commands(h, q) /\ m.at \in 1..Len(f) /\ s = f[m.at]
    BY <1>1 DEF ScanInv, CallOK, Ready, Redis!Running, Redis!Current
  <1>3. Len(f) \in Nat
    BY <1>2, CommandsAre DEF IsSeq
  <1>4. CASE q.op \in Batched
    <2>1. PICK keys, gs : keys = Redis!PrefixKeys(h, q.keys) /\ gs = Redis!Groups(keys)
      OBVIOUS
    <2>2. m.at \in DOMAIN gs
      BY <1>2, <1>4, <2>1, GroupKeys
    <2>3. s.cmd \in {"mget", "mset", "del"}
      BY <1>2, <1>4, <2>1, <2>2, BatchCommands, CmdFields
    <2>4. Redis!Parts(s) = <<s>>
      BY <2>3 DEF Redis!Parts
    <2>5. q.op \notin {"get", "transaction"}
      BY <1>4 DEF Batched
    <2> QED BY <1>1, <1>2, <1>3, <1>4, <2>3, <2>4, <2>5
  <1>5. CASE q.op = "get"
    <2>1. PICK g : g = Redis!Cmd("get", <<Redis!PrefixKey(h, q.keys[1])>>, q.args) /\ f = <<g>>
      BY <1>2, <1>5, GetCommands
    <2>2. Len(<<g>>) = 1 /\ <<g>>[1] = g
      OBVIOUS
    <2>3. m.at = 1 /\ Len(f) = 1 /\ s = g
      BY <1>2, <2>1, <2>2
    <2>4. s.cmd = "get"
      BY <2>1, <2>3, CmdFields
    <2>5. q.op \notin Batched /\ q.op # "transaction"
      BY <1>5 DEF Batched
    <2> QED BY <1>1, <1>2, <1>3, <1>5, <2>1, <2>3, <2>4, <2>5
  <1>6. CASE q.op = "transaction"
    <2>0. f # <<>>
      BY <1>2
    <2>1. PICK g : /\ f = <<g>> /\ g.cmd = "multi"
                   /\ IsSeq(g.parts) /\ Len(g.parts) = Len(q.args)
                   /\ \A i \in 1..Len(q.args) : g.parts[i] = Redis!DirectCommand(h, q.args[i])
      BY <1>2, <1>6, <2>0, TransactionCommands
    <2>2. Len(<<g>>) = 1 /\ <<g>>[1] = g
      OBVIOUS
    <2>3. m.at = 1 /\ Len(f) = 1 /\ s = g
      BY <1>2, <2>1, <2>2
    <2>4. Redis!Parts(s) = g.parts
      BY <2>1, <2>3 DEF Redis!Parts
    <2>5. q.op \notin Batched /\ q.op # "get"
      BY <1>6 DEF Batched
    <2> QED BY <1>1, <1>2, <1>3, <1>6, <2>1, <2>3, <2>4, <2>5
  <1> QED BY <1>1, <1>4, <1>5, <1>6 DEF Promising

(* What is seen is not forgotten, and the contents after a step are seen.  *)
LEMMA Sighted ==
  ASSUME FulfilInv, Redis!Observe(store', replica')
  PROVE  /\ DOMAIN seen' = Caller
         /\ \A c \in Caller :
              /\ \A k \in Key : seen[c][k] \subseteq seen'[c][k]
              /\ Sees(call[c], seen'[c], store', replica')
  <1>1. DOMAIN seen' = Caller
    BY DEF Redis!Observe
  <1>2. ASSUME NEW c \in Caller
        PROVE  /\ \A k \in Key : seen[c][k] \subseteq seen'[c][k]
               /\ Sees(call[c], seen'[c], store', replica')
    <2>1. CASE call[c].st = "running" /\ call[c].q.op \in {"get", "mget", "scan"}
      <3>1. PICK contents :
              /\ contents = IF Redis!FromReplica(call[c].q) THEN replica' ELSE store'
              /\ seen'[c] = [k \in Key |-> seen[c][k] \cup {contents[k]}]
        BY <2>1 DEF Redis!Observe, Redis!Running
      <3>2. \A k \in Key : seen'[c][k] = seen[c][k] \cup {contents[k]}
        BY <3>1
      <3> QED BY <3>1, <3>2 DEF Sees
    <2>2. CASE ~(call[c].st = "running" /\ call[c].q.op \in {"get", "mget", "scan"})
      <3>1. seen'[c] = seen[c]
        BY <2>2 DEF Redis!Observe, Redis!Running
      <3> QED BY <2>2, <3>1 DEF Sees
    <2> QED BY <2>1, <2>2
  <1> QED BY <1>1, <1>2

(* More is seen, and no less is served.                                    *)
LEMMA StillServed ==
  ASSUME KeysTyped, Fitted, NEW c \in Caller, NEW m, NEW r, NEW s, NEW t, Served(m, r, s),
         \A k \in Key : s[k] \subseteq t[k],
         m.st = "running" => m.at \in 1..Len(m.cmds),
         m.st # "idle" => m.h \in Redis!Handle /\ m.q \in Queries[c] /\ m.cmds = Redis!Commands(m.h, m.q)
  PROVE  Served(m, r, t)
  <1>1. SUFFICES ASSUME m.st \in {"running", "ok"} PROVE Served(m, r, t)
    BY DEF Served
  <1>2. PICK h \in Redis!Handle, q \in Queries[c] : h = m.h /\ q = m.q /\ m.cmds = Redis!Commands(h, q)
    BY <1>1
  <1>3. ASSUME q.op = "mget" PROVE GotGroups(h, q, m.out, m.at - 1, t)
    <2>1. PICK keys, gs : keys = Redis!PrefixKeys(h, q.keys) /\ gs = Redis!Groups(keys)
      OBVIOUS
    <2>2. /\ Len(m.cmds) = Len(gs) /\ Len(gs) \in Nat
          /\ \A g \in 1..Len(gs) : \A a \in DOMAIN gs[g] : keys[gs[g][a]] \in Prefixed(h, q)
      <3>1. q.op \in Batched
        BY <1>3 DEF Batched
      <3>2. PICK f : f = Redis!Commands(h, q)
        OBVIOUS
      <3>3. /\ Len(f) = Len(gs) /\ Len(gs) \in Nat
            /\ \A g \in 1..Len(gs) : \A a \in DOMAIN gs[g] : keys[gs[g][a]] \in Prefixed(h, q)
        BY <2>1, <3>1, <3>2, GroupKeys
      <3> QED BY <1>2, <3>2, <3>3
    <2>4. Prefixed(h, q) \subseteq Key
      BY <1>3 DEF Fitted
    <2>5. /\ m.out = [i \in DOMAIN q.keys |-> m.out[i]]
          /\ \A g \in 1..(m.at - 1) : \A a \in DOMAIN gs[g] : m.out[gs[g][a]] \in s[keys[gs[g][a]]]
      BY <1>1, <1>2, <1>3, <2>1 DEF Served, GotGroups
    <2>8. PICK e, n : e = m.at /\ n = Len(gs)
      OBVIOUS
    <2>9. n \in Nat /\ (e \in 1..n \/ e = n + 1)
      BY <1>1, <2>2, <2>8 DEF Served
    <2>10. \A g \in 1..(e - 1) : g \in 1..n
      BY <2>9
    <2>6. \A g \in 1..(m.at - 1) : g \in 1..Len(gs)
      BY <2>8, <2>10
    <2>7. \A g \in 1..(m.at - 1) : \A a \in DOMAIN gs[g] : m.out[gs[g][a]] \in t[keys[gs[g][a]]]
      BY <2>2, <2>4, <2>5, <2>6
    <2> QED BY <2>1, <2>5, <2>7 DEF GotGroups
  <1>4. ASSUME q.op = "get", m.st = "ok" PROVE m.out[1] \in t[Redis!PrefixKey(h, q.keys[1])]
    <2>1. Redis!PrefixKey(h, q.keys[1]) \in Key
      <3>1. q.keys # <<>>
        <4>1. "get" \in Direct
          BY ForwardedWords DEF Direct
        <4> QED BY <1>4, <4>1 DEF KeysTyped, QueryTyped
      <3> QED BY <1>4, <3>1, PrefixKeysAre DEF Fitted
    <2>2. m.out[1] \in s[Redis!PrefixKey(h, q.keys[1])]
      BY <1>2, <1>4 DEF Served
    <2> QED BY <2>1, <2>2
  <1> QED BY <1>1, <1>2, <1>3, <1>4 DEF Served

(* A step of one call that observes what it leaves.                        *)
LEMMA OneServed ==
  ASSUME KeysTyped, Fitted, FulfilInv, ScanInv', NEW c \in Caller, Redis!Running(c),
         NEW m, call' = [call EXCEPT ![c] = m], m.q = call[c].q, m.st \in {"running", "ok", "error"},
         NEW r, DOMAIN ran' = Caller, ran'[c] = r, \A d \in Caller : d # c => ran'[d] = ran[d],
         Redis!Observe(store', replica'), Served(m, r, seen'[c])
  PROVE  FulfilInv'
  <1>1. DOMAIN call' = Caller /\ call'[c] = m /\ \A d \in Caller : d # c => call'[d] = call[d]
    BY DEF FulfilInv, ScanInv
  <1>2. ASSUME NEW d \in Caller
        PROVE  /\ call'[d].st = "idle" => ran'[d] = <<>>
               /\ Served(call'[d], ran'[d], seen'[d])
               /\ Sees(call'[d], seen'[d], store', replica')
    <2>1. /\ \A k \in Key : seen[d][k] \subseteq seen'[d][k]
          /\ Sees(call[d], seen'[d], store', replica')
      BY Sighted
    <2>2. CASE d = c
      <3>1. Sees(m, seen'[d], store', replica')
        BY <2>1, <2>2 DEF Sees, Redis!Running
      <3> QED BY <1>1, <2>2, <3>1
    <2>3. CASE d # c
      <3>1. /\ call[d].st = "idle" => ran[d] = <<>>
            /\ Served(call[d], ran[d], seen[d])
        BY DEF FulfilInv
      <3>2. CallOK(d)
        BY DEF FulfilInv, ScanInv
      <3>3. /\ call[d].st = "running" => call[d].at \in 1..Len(call[d].cmds)
            /\ call[d].st # "idle" => /\ call[d].h \in Redis!Handle /\ call[d].q \in Queries[d]
                                      /\ call[d].cmds = Redis!Commands(call[d].h, call[d].q)
        BY <3>2 DEF CallOK, Ready
      <3>4. Served(call[d], ran[d], seen'[d])
        BY <2>1, <3>1, <3>3, StillServed
      <3> QED BY <1>1, <2>1, <2>3, <3>1, <3>4
    <2> QED BY <2>2, <2>3
  <1>3. DOMAIN ran' = Caller
    OBVIOUS
  <1> QED BY <1>2, <1>3 DEF FulfilInv

(* What a call has run once its current command is carried out.            *)
LEMMA PartsRun ==
  ASSUME KeysTyped, Fitted, FulfilInv, NEW c \in Caller, Redis!Running(c)
  PROVE  LET m == call[c]  r == ran[c] \o Redis!Parts(Redis!Current(c)) IN
         /\ IsSeq(r)
         /\ m.q.op = "transaction" =>
              /\ Len(r) >= Len(m.q.args)
              /\ \A i \in 1..Len(m.q.args) : r[i] = Redis!DirectCommand(m.h, m.q.args[i])
         /\ m.q.op \in {"mset", "mdelete"} =>
              RanGroups(m.h, m.q, r, m.at) /\ RanGroups(m.h, m.q, r, m.at - 1)
  <1>1. PICK m, p, s, u, r : /\ m = call[c] /\ p = ran[c] /\ s = Redis!Current(c)
                             /\ u = Redis!Parts(s) /\ r = p \o u
    OBVIOUS
  <1>2. Served(m, p, seen[c]) /\ m.st = "running" /\ ScanInv /\ CallOK(c)
    BY <1>1 DEF FulfilInv, ScanInv, Redis!Running
  <1>3. IsSeq(p)
    BY <1>2 DEF Served
  <1>4. /\ m.h \in Redis!Handle /\ m.q \in Queries[c] /\ m.cmds = Redis!Commands(m.h, m.q)
        /\ m.at \in 1..Len(m.cmds) /\ s = m.cmds[m.at]
    BY <1>1, <1>2 DEF CallOK, Ready, Redis!Current
  <1>5. IsSeq(u)
    <2>1. CommandOK(m.h, m.q, s)
      BY <1>4, CommandsAre
    <2> QED BY <1>1, <2>1 DEF CommandOK
  <1>6. /\ IsSeq(r) /\ Len(r) = Len(p) + Len(u)
        /\ \A i \in 1..Len(p) : r[i] = p[i]
        /\ \A i \in 1..Len(u) : r[Len(p) + i] = u[i]
    BY <1>1, <1>3, <1>5, ConcatIs
  <1>7. ASSUME m.q.op = "transaction"
        PROVE  /\ Len(r) >= Len(m.q.args)
               /\ \A i \in 1..Len(m.q.args) : r[i] = Redis!DirectCommand(m.h, m.q.args[i])
    <2>1. PICK n : n = Len(m.q.args)
      OBVIOUS
    <2>2. Len(u) = n /\ \A i \in 1..n : u[i] = Redis!DirectCommand(m.h, m.q.args[i])
      BY <1>1, <1>2, <1>7, <2>1, PromisingCommand DEF Promising
    <2>3. PICK j \in Nat : j = Len(p) /\ n \in Nat
      BY <1>3, <1>5, <2>2 DEF IsSeq
    <2>4. RanParts(m, p)
      BY <1>2, <1>7 DEF Served
    <2>5. CASE p = <<>>
      <3>1. j = 0
        BY <2>3, <2>5, NoCommand
      <3>2. Len(r) = n
        BY <1>6, <2>2, <2>3, <3>1
      <3>3. \A i \in 1..n : r[0 + i] = u[i] /\ 0 + i = i
        BY <1>6, <2>2, <2>3, <3>1
      <3> QED BY <2>1, <2>2, <2>3, <3>2, <3>3
    <2>6. CASE j >= n /\ \A i \in 1..n : p[i] = Redis!DirectCommand(m.h, m.q.args[i])
      <3>1. \A i \in 1..n : i \in 1..j
        BY <2>3, <2>6
      <3>2. Len(r) >= n
        BY <1>6, <2>2, <2>3, <2>6
      <3> QED BY <1>6, <2>1, <2>3, <2>6, <3>1, <3>2
    <2> QED BY <2>1, <2>3, <2>4, <2>5, <2>6 DEF RanParts
  <1>8. ASSUME m.q.op \in {"mset", "mdelete"}
        PROVE  RanGroups(m.h, m.q, r, m.at) /\ RanGroups(m.h, m.q, r, m.at - 1)
    <2>1. u = <<s>>
      BY <1>1, <1>2, <1>8, PromisingCommand DEF Promising, Batched
    <2>2. PICK h, q, j : h = m.h /\ q = m.q /\ j = m.at
      OBVIOUS
    <2>3. h \in Redis!Handle /\ q \in Queries[c] /\ j \in 1..Len(Redis!Commands(h, q)) /\ s = Redis!Commands(h, q)[j]
      BY <1>4, <2>2
    <2>4. RanGroups(h, q, p, j - 1)
      BY <1>2, <1>8, <2>2 DEF Served
    <2>5. RanGroups(h, q, r, j)
      BY <1>1, <1>3, <1>8, <2>1, <2>2, <2>3, <2>4, BatchRuns
    <2>6. j \in Nat
      BY <2>3
    <2>7. RanGroups(h, q, r, j - 1)
      BY <2>5, <2>6, FewerGroups
    <2> QED BY <2>2, <2>5, <2>7
  <1> QED BY <1>1, <1>6, <1>7, <1>8

(* What a call returns once its current command is carried out.            *)
LEMMA OutServed ==
  ASSUME KeysTyped, Fitted, FulfilInv, NEW c \in Caller, Redis!Running(c), NEW t,
         \A k \in Key : seen[c][k] \subseteq t[k]
  PROVE  LET m == call[c] IN
         /\ m.q.op = "mget" => GotGroups(m.h, m.q, Redis!OutAfter(c), m.at, t)
         /\ m.q.op = "get" => Redis!OutAfter(c)[1] \in t[Redis!PrefixKey(m.h, m.q.keys[1])]
  <1>1. PICK m, s, h, q : m = call[c] /\ s = Redis!Current(c) /\ h = m.h /\ q = m.q
    OBVIOUS
  <1>2. Served(m, ran[c], seen[c]) /\ m.st = "running" /\ ScanInv /\ CallOK(c)
        /\ Sees(m, seen[c], store, replica)
    BY <1>1 DEF FulfilInv, ScanInv, Redis!Running
  <1>3. /\ h \in Redis!Handle /\ q \in Queries[c] /\ m.cmds = Redis!Commands(h, q)
        /\ m.at \in 1..Len(m.cmds) /\ s = m.cmds[m.at]
    BY <1>1, <1>2 DEF CallOK, Ready, Redis!Current
  <1>4. ASSUME q.op \in {"get", "mget"}, NEW k \in Prefixed(h, q)
        PROVE  Redis!Read(q, k) \in t[k]
    <2>1. k \in Key
      BY <1>3, <1>4 DEF Fitted
    <2>2. Redis!Read(q, k) \in seen[c][k]
      BY <1>1, <1>2, <1>4, <2>1 DEF Sees, Redis!Read
    <2> QED BY <2>1, <2>2
  <1>5. ASSUME q.op = "mget" PROVE GotGroups(h, q, Redis!OutAfter(c), m.at, t)
    <2>1. PICK keys, gs, at, f : /\ keys = Redis!PrefixKeys(h, q.keys) /\ gs = Redis!Groups(keys) /\ at = m.at
                                 /\ f = Redis!Commands(h, q)
      OBVIOUS
    <2>2. q.op \in Batched
      BY <1>5 DEF Batched
    <2>3. /\ Len(f) = Len(gs) /\ Len(gs) \in Nat /\ DOMAIN gs = 1..Len(gs)
          /\ \A g \in 1..Len(gs) : \A a \in DOMAIN gs[g] :
               gs[g][a] \in DOMAIN q.keys /\ keys[gs[g][a]] \in Prefixed(h, q)
      BY <1>3, <2>1, <2>2, GroupKeys
    <2>4. at \in 1..Len(gs) /\ at \in DOMAIN gs
      BY <1>3, <2>1, <2>3
    <2>5. PICK group : group = gs[at] /\ Whole(keys, group)
      BY <1>3, <2>1, <2>4, GroupsWhole, PrefixKeysAre
    <2>6. s.keys = Redis!Picked(keys, group)
      BY <1>3, <2>1, <2>2, <2>4, <2>5, BatchCommands, CmdFields
    <2>7. PICK o : o = Redis!OutAfter(c)
      OBVIOUS
    <2>8. o = [i \in DOMAIN m.out |->
                 IF Redis!Contains(group, i)
                 THEN Redis!Read(q, s.keys[CHOOSE j \in DOMAIN group : group[j] = i])
                 ELSE m.out[i]]
      <3>1. m.q.op = "mget" /\ "mget" \notin {"mset", "transaction", "mdelete"} \cup DOMAIN Redis!OneSlot
        BY <1>1, <1>5 DEF Redis!OneSlot
      <3>2. group = Redis!Groups(Redis!PrefixKeys(m.h, m.q.keys))[m.at]
        BY <1>1, <2>1, <2>5
      <3>3. PICK v : v = [i \in DOMAIN m.out |->
                 IF Redis!Contains(group, i)
                 THEN Redis!Read(m.q, s.keys[CHOOSE j \in DOMAIN group : group[j] = i])
                 ELSE m.out[i]]
        OBVIOUS
      <3>4. Redis!OutAfter(c) = v
        <4>1. Redis!OutAfter(c) = Redis!Filled(m, s.keys)
          BY <1>1, <3>1 DEF Redis!OutAfter
        <4> QED BY <3>2, <3>3, <4>1 DEF Redis!Filled
      <3> QED BY <1>1, <2>7, <3>3, <3>4
    <2>9. /\ m.out = [i \in DOMAIN q.keys |-> m.out[i]]
          /\ \A g \in 1..(at - 1) : \A a \in DOMAIN gs[g] : m.out[gs[g][a]] \in seen[c][keys[gs[g][a]]]
      <3>1. GotGroups(h, q, m.out, at - 1, seen[c])
        BY <1>1, <1>2, <1>5, <2>1 DEF Served
      <3>2. PICK u, e, sight : u = m.out /\ e = at - 1 /\ sight = seen[c]
        OBVIOUS
      <3>3. /\ u = [i \in DOMAIN q.keys |-> u[i]]
            /\ \A g \in 1..e : \A a \in DOMAIN gs[g] : u[gs[g][a]] \in sight[keys[gs[g][a]]]
        BY <2>1, <3>1, <3>2 DEF GotGroups
      <3> QED BY <3>2, <3>3
    <2>10. DOMAIN m.out = DOMAIN q.keys
      BY <2>9
    <2>11. o = [i \in DOMAIN q.keys |-> o[i]]
      BY <2>8, <2>10
    <2>12. ASSUME NEW i \in DOMAIN q.keys, Redis!Contains(group, i) PROVE o[i] \in t[keys[i]]
      <3>1. PICK j : j = CHOOSE e \in DOMAIN group : group[e] = i
        OBVIOUS
      <3>2. DOMAIN group = 1..Len(group)
        BY <2>5 DEF Whole
      <3>3. \E e \in DOMAIN group : group[e] = i
        BY <2>12, <3>2 DEF Redis!Contains
      <3>4. j \in DOMAIN group /\ group[j] = i
        BY <3>1, <3>3
      <3>5. s.keys[j] = keys[i]
        BY <2>6, <3>4 DEF Redis!Picked
      <3>6. o[i] = Redis!Read(q, keys[i])
        BY <2>8, <2>10, <2>12, <3>1, <3>5
      <3>7. keys[i] \in Prefixed(h, q)
        BY <2>3, <2>4, <2>5, <3>4
      <3> QED BY <1>4, <1>5, <3>6, <3>7
    <2>13. ASSUME NEW i \in DOMAIN q.keys, ~Redis!Contains(group, i) PROVE o[i] = m.out[i]
      BY <2>8, <2>10, <2>13
    <2>14. ASSUME NEW g \in 1..at, NEW a \in DOMAIN gs[g]
           PROVE  o[gs[g][a]] \in t[keys[gs[g][a]]]
      <3>1. PICK i : i = gs[g][a]
        OBVIOUS
      <3>2. i \in DOMAIN q.keys /\ keys[i] \in Prefixed(h, q)
        <4>1. g \in 1..Len(gs)
          BY <2>3, <2>4
        <4> QED BY <2>3, <3>1, <4>1
      <3>3. CASE Redis!Contains(group, i)
        BY <2>12, <3>1, <3>2, <3>3
      <3>4. CASE ~Redis!Contains(group, i)
        <4>1. g # at
          <5>1. ASSUME g = at PROVE FALSE
            <6>1. DOMAIN group = 1..Len(group) /\ a \in DOMAIN group /\ group[a] = i
              BY <2>5, <3>1, <5>1 DEF Whole
            <6> QED BY <3>4, <6>1 DEF Redis!Contains
          <5> QED BY <5>1
        <4>2. g \in 1..(at - 1)
          BY <2>4, <4>1
        <4>3. m.out[i] \in seen[c][keys[i]]
          BY <2>9, <3>1, <4>2
        <4>4. keys[i] \in Key
          BY <1>3, <1>5, <3>2 DEF Fitted
        <4> QED BY <2>13, <3>1, <3>2, <3>4, <4>3, <4>4
      <3> QED BY <3>3, <3>4
    <2> QED BY <2>1, <2>7, <2>11, <2>14 DEF GotGroups
  <1>6. ASSUME q.op = "get" PROVE Redis!OutAfter(c)[1] \in t[Redis!PrefixKey(h, q.keys[1])]
    <2>1. PICK k : k = Redis!PrefixKey(h, q.keys[1])
      OBVIOUS
    <2>2. s = Redis!Cmd("get", <<k>>, q.args)
      BY <1>1, <1>2, <1>6, <2>1, PromisingCommand DEF Promising
    <2>3. s.cmd = "get" /\ s.keys = <<k>> /\ s.keys[1] = k
      <3>1. <<k>>[1] = k
        OBVIOUS
      <3> QED BY <2>2, <3>1, CmdFields
    <2>4. Redis!Reply(q, s) = Redis!Read(q, k)
      BY <2>3 DEF Redis!Reply
    <2>5. Redis!OutAfter(c) = <<Redis!Decoded("get", Redis!Reply(q, s))>>
      BY <1>1, <1>6 DEF Redis!OutAfter, Redis!OneSlot
    <2>6. \A v : Redis!Decoded("get", v) = v
      BY DEF Redis!Decoded
    <2>7. \A v : <<v>>[1] = v
      OBVIOUS
    <2>8. Redis!OutAfter(c)[1] = Redis!Read(q, k)
      BY <2>4, <2>5, <2>6, <2>7
    <2>9. k \in Prefixed(h, q)
      <3>1. q.keys # <<>>
        <4>1. "get" \in Direct
          BY ForwardedWords DEF Direct
        <4> QED BY <1>3, <1>6, <4>1 DEF KeysTyped, QueryTyped
      <3> QED BY <1>3, <2>1, <3>1, PrefixKeysAre
    <2> QED BY <1>4, <1>6, <2>1, <2>8, <2>9
  <1> QED BY <1>1, <1>5, <1>6

(* What a step that writes adds to what was run.                           *)
LEMMA RanAfter ==
  ASSUME FulfilInv, NEW c \in Caller, NEW parts, Redis!Effect(c, parts)
  PROVE  /\ DOMAIN ran' = Caller /\ ran'[c] = ran[c] \o parts
         /\ \A d \in Caller : d # c => ran'[d] = ran[d]
         /\ Redis!Observe(store', replica')
  <1>1. ran' = [ran EXCEPT ![c] = ran[c] \o parts] /\ DOMAIN ran = Caller
    BY DEF Redis!Effect, FulfilInv
  <1>2. Redis!Observe(store', replica')
    <2>1. PICK after, lagging : store' = after /\ replica' = lagging /\ Redis!Observe(after, lagging)
      BY DEF Redis!Effect
    <2> QED BY <2>1
  <1> QED BY <1>1, <1>2

(* A command that is carried out.                                          *)
LEMMA ExecutedFulfils ==
  ASSUME KeysTyped, Fitted, FulfilInv, NEW c \in Caller, Redis!Executed(c), ScanInv'
  PROVE  FulfilInv'
  <1>1. PICK w, r : w = call[c] /\ r = ran[c] \o Redis!Parts(Redis!Current(c))
    OBVIOUS
  <1>2. Redis!Running(c) /\ ScanInv
    BY DEF Redis!Executed, FulfilInv
  <1>3. /\ DOMAIN ran' = Caller /\ ran'[c] = r /\ \A d \in Caller : d # c => ran'[d] = ran[d]
        /\ Redis!Observe(store', replica')
    BY <1>1, RanAfter DEF Redis!Executed
  <1>4. PICK m : /\ Made(m) /\ Ready(m) /\ call' = [call EXCEPT ![c] = m]
                 /\ m.h = call[c].h /\ m.q = call[c].q /\ m.cmds = call[c].cmds
                 /\ m.at = call[c].at + 1 /\ m.out = Redis!OutAfter(c)
                 /\ m.st = IF call[c].at = Len(call[c].cmds) THEN "ok" ELSE "running"
    BY <1>2, AdvancedScan DEF Redis!Executed
  <1>5. w.at \in 1..Len(w.cmds) /\ w.cmds = Redis!Commands(w.h, w.q) /\ w.h \in Redis!Handle /\ w.q \in Queries[c]
    BY <1>1, <1>2 DEF ScanInv, CallOK, Ready, Redis!Running
  <1>6. Len(w.cmds) \in Nat
    BY <1>5, CommandsAre DEF IsSeq
  <1>7. m.at = w.at + 1 /\ m.at - 1 = w.at /\ (m.st = "ok" => m.at = Len(m.cmds) + 1)
        /\ m.st \in {"running", "ok", "error"}
    BY <1>1, <1>4, <1>5, <1>6
  <1>8. \A k \in Key : seen[c][k] \subseteq seen'[c][k]
    BY <1>3, Sighted
  <1>9. /\ IsSeq(r)
        /\ w.q.op = "transaction" =>
              /\ Len(r) >= Len(w.q.args)
              /\ \A i \in 1..Len(w.q.args) : r[i] = Redis!DirectCommand(w.h, w.q.args[i])
        /\ w.q.op \in {"mset", "mdelete"} => RanGroups(w.h, w.q, r, w.at)
    BY <1>1, <1>2, PartsRun
  <1>10. PICK t : t = seen'[c]
    OBVIOUS
  <1>11. /\ w.q.op = "mget" => GotGroups(w.h, w.q, m.out, w.at, t)
         /\ w.q.op = "get" => m.out[1] \in t[Redis!PrefixKey(w.h, w.q.keys[1])]
    BY <1>1, <1>2, <1>4, <1>8, <1>10, OutServed
  <1>12. m.h = w.h /\ m.q = w.q
    BY <1>1, <1>4
  <1>13. Served(m, r, t)
    BY <1>7, <1>9, <1>11, <1>12 DEF Served, RanParts
  <1> QED BY <1>1, <1>2, <1>3, <1>4, <1>7, <1>10, <1>13, OneServed

(* One that fails or is given up.                                          *)
LEMMA RefusedFulfils ==
  ASSUME KeysTyped, Fitted, FulfilInv, NEW c \in Caller, Redis!Failed(c) \/ Redis!GiveUp(c), ScanInv'
  PROVE  FulfilInv'
  <1>1. Redis!Running(c) /\ Redis!Reject(c) /\ ScanInv
    BY DEF Redis!Failed, Redis!GiveUp, FulfilInv
  <1>2. PICK parts : Redis!Effect(c, parts)
    BY DEF Redis!Failed, Redis!GiveUp
  <1>3. PICK r : r = ran[c] \o parts
    OBVIOUS
  <1>4. /\ DOMAIN ran' = Caller /\ ran'[c] = r /\ \A d \in Caller : d # c => ran'[d] = ran[d]
        /\ Redis!Observe(store', replica')
    BY <1>2, <1>3, RanAfter
  <1>5. PICK m : /\ Made(m) /\ call' = [call EXCEPT ![c] = m]
                 /\ m.h = call[c].h /\ m.q = call[c].q /\ m.cmds = call[c].cmds /\ m.st = "error"
    BY <1>1, RejectedScan
  <1>6. Served(m, r, seen'[c])
    BY <1>5 DEF Served
  <1> QED BY <1>1, <1>4, <1>5, <1>6, OneServed

(* One that is sent again.                                                 *)
LEMMA ResentFulfils ==
  ASSUME KeysTyped, Fitted, FulfilInv, NEW c \in Caller, Redis!Resend(c), ScanInv'
  PROVE  FulfilInv'
  <1>1. PICK w, r, t : w = call[c] /\ r = ran[c] \o Redis!Parts(Redis!Current(c)) /\ t = seen'[c]
    OBVIOUS
  <1>2. Redis!Running(c) /\ ScanInv
    BY DEF Redis!Resend, FulfilInv
  <1>3. /\ DOMAIN ran' = Caller /\ ran'[c] = r /\ \A d \in Caller : d # c => ran'[d] = ran[d]
        /\ Redis!Observe(store', replica')
    BY <1>1, RanAfter DEF Redis!Resend
  <1>4. /\ Made(w) /\ w.st = "running" /\ w.at \in 1..Len(w.cmds) /\ w.h \in Redis!Handle /\ w.q \in Queries[c]
        /\ w.cmds = Redis!Commands(w.h, w.q)
    BY <1>1, <1>2 DEF ScanInv, CallOK, Ready, Redis!Running
  <1>5. PICK m : m = [h |-> w.h, q |-> w.q, cmds |-> w.cmds, at |-> w.at, got |-> w.got,
                      resent |-> w.resent + 1, out |-> w.out, st |-> w.st]
    OBVIOUS
  <1>6. [w EXCEPT !.resent = @ + 1] = m
    BY <1>4, <1>5 DEF Made
  <1>7. call' = [call EXCEPT ![c] = m]
    BY <1>1, <1>6 DEF Redis!Resend
  <1>8. m.h = w.h /\ m.q = w.q /\ m.cmds = w.cmds /\ m.at = w.at /\ m.out = w.out /\ m.st = w.st
    BY <1>5
  <1>9. \A k \in Key : seen[c][k] \subseteq t[k]
    BY <1>1, <1>3, Sighted
  <1>10. Served(w, ran[c], t)
    <2>1. Served(w, ran[c], seen[c])
      BY <1>1 DEF FulfilInv
    <2> QED BY <1>4, <1>9, <2>1, StillServed
  <1>11. /\ IsSeq(r)
         /\ w.q.op = "transaction" =>
              /\ Len(r) >= Len(w.q.args)
              /\ \A i \in 1..Len(w.q.args) : r[i] = Redis!DirectCommand(w.h, w.q.args[i])
         /\ w.q.op \in {"mset", "mdelete"} => RanGroups(w.h, w.q, r, w.at - 1)
    BY <1>1, <1>2, PartsRun
  <1>12. Served(m, r, t)
    BY <1>4, <1>8, <1>10, <1>11 DEF Served, RanParts
  <1> QED BY <1>1, <1>2, <1>3, <1>4, <1>7, <1>8, <1>12, OneServed

(* A page of a scan.                                                       *)
LEMMA PageFulfils ==
  ASSUME KeysTyped, Fitted, FulfilInv, NEW c \in Caller, Redis!ScanOnce(c), ScanInv'
  PROVE  FulfilInv'
  <1>1. PICK w, t : w = call[c] /\ t = seen'[c]
    OBVIOUS
  <1>2. Redis!Running(c) /\ ScanInv /\ Redis!Current(c).cmd = "scan"
    BY DEF Redis!ScanOnce, FulfilInv
  <1>3. w.q.op \notin Promising
    BY <1>1, <1>2, PromisingCommand
  <1>4. /\ ran' = ran /\ store' = store /\ replica' = replica /\ Redis!Observe(store', replica')
    BY DEF Redis!ScanOnce
  <1>5. /\ w.at \in 1..Len(w.cmds) /\ w.h \in Redis!Handle /\ w.q \in Queries[c]
        /\ w.cmds = Redis!Commands(w.h, w.q) /\ w.st = "running"
    BY <1>1, <1>2 DEF ScanInv, CallOK, Ready, Redis!Running
  <1>6. Len(w.cmds) \in Nat
    BY <1>5, CommandsAre DEF IsSeq
  <1>7. PICK m : /\ call' = [call EXCEPT ![c] = m]
                 /\ m.q = w.q /\ m.cmds = w.cmds /\ m.st \in {"running", "ok", "error"}
                 /\ m.st = "ok" => m.at = Len(w.cmds) + 1
    <2>1. PICK g, o : \/ Redis!Advance(c, g, o)
                      \/ call' = [call EXCEPT ![c] = Redis!Kept(w, w.at, g, o, w.st)]
      BY <1>1 DEF Redis!ScanOnce
    <2>2. CASE Redis!Advance(c, g, o)
      <3>1. PICK m : /\ Made(m) /\ Ready(m) /\ call' = [call EXCEPT ![c] = m]
                     /\ m.h = call[c].h /\ m.q = call[c].q /\ m.cmds = call[c].cmds
                     /\ m.at = call[c].at + 1 /\ m.got = g /\ m.out = o
                     /\ m.st = IF call[c].at = Len(call[c].cmds) THEN "ok" ELSE "running"
        BY <1>2, <2>2, AdvancedScan
      <3> QED BY <1>1, <3>1
    <2>3. CASE call' = [call EXCEPT ![c] = Redis!Kept(w, w.at, g, o, w.st)]
      <3>1. PICK m : m = Redis!Kept(w, w.at, g, o, w.st)
        OBVIOUS
      <3>2. m.q = w.q /\ m.cmds = w.cmds /\ m.st = w.st
        BY <3>1 DEF Redis!Kept
      <3> QED BY <1>5, <2>3, <3>1, <3>2
    <2> QED BY <2>1, <2>2, <2>3
  <1>8. IsSeq(ran[c])
    BY <1>1, <1>5 DEF FulfilInv, Served
  <1>9. m.q.op \notin {"transaction", "mset", "mdelete", "mget", "get"}
    BY <1>3, <1>7 DEF Promising, Batched
  <1>10. Served(m, ran[c], t)
    BY <1>7, <1>8, <1>9 DEF Served
  <1>11. DOMAIN ran' = Caller /\ ran'[c] = ran[c] /\ \A d \in Caller : d # c => ran'[d] = ran[d]
    BY <1>4 DEF FulfilInv
  <1> QED BY <1>1, <1>2, <1>4, <1>7, <1>10, <1>11, OneServed

(* Replication.                                                            *)
LEMMA ReplicatedFulfils ==
  ASSUME KeysTyped, Fitted, FulfilInv, NEW k \in Key, Redis!Replicate(k), ScanInv'
  PROVE  FulfilInv'
  <1>1. call' = call /\ ran' = ran
    BY DEF Redis!Replicate
  <1>2. Redis!Observe(store', replica')
    <2>1. PICK caughtUp : replica' = caughtUp /\ store' = store /\ Redis!Observe(store, caughtUp)
      BY DEF Redis!Replicate
    <2> QED BY <2>1
  <1>3. ASSUME NEW d \in Caller
        PROVE  /\ call'[d].st = "idle" => ran'[d] = <<>>
               /\ Served(call'[d], ran'[d], seen'[d])
               /\ Sees(call'[d], seen'[d], store', replica')
    <2>1. /\ \A x \in Key : seen[d][x] \subseteq seen'[d][x]
          /\ Sees(call[d], seen'[d], store', replica')
      BY <1>2, Sighted
    <2>2. /\ call[d].st = "idle" => ran[d] = <<>>
          /\ Served(call[d], ran[d], seen[d])
      BY DEF FulfilInv
    <2>3. CallOK(d)
      BY DEF FulfilInv, ScanInv
    <2>4. /\ call[d].st = "running" => call[d].at \in 1..Len(call[d].cmds)
          /\ call[d].st # "idle" => /\ call[d].h \in Redis!Handle /\ call[d].q \in Queries[d]
                                    /\ call[d].cmds = Redis!Commands(call[d].h, call[d].q)
      BY <2>3 DEF CallOK, Ready
    <2>5. Served(call[d], ran[d], seen'[d])
      BY <2>1, <2>2, <2>4, StillServed
    <2> QED BY <1>1, <2>1, <2>2, <2>5
  <1>4. DOMAIN ran' = Caller
    BY <1>1 DEF FulfilInv
  <1> QED BY <1>3, <1>4 DEF FulfilInv

(* A call that begins.                                                     *)
LEMMA BeginFulfils ==
  ASSUME KeysTyped, Fitted, FulfilInv, NEW c \in Caller, NEW h \in Redis!Handle, NEW q \in Queries[c],
         Redis!Begin(c, h, q), ScanInv'
  PROVE  FulfilInv'
  <1>1. PICK m : m = [h |-> h, q |-> q, cmds |-> Redis!Commands(h, q), at |-> 1, got |-> {},
            resent |-> 0, out |-> Redis!FirstOut(q),
            st |-> CASE Redis!SlotRefused(q, Redis!Commands(h, q)) -> "error"
                     [] Redis!Commands(h, q) = <<>> -> "ok"
                     [] OTHER -> "running"]
    OBVIOUS
  <1>2. call' = [call EXCEPT ![c] = m]
    BY <1>1 DEF Redis!Begin
  <1>3. /\ m.h = h /\ m.q = q /\ m.cmds = Redis!Commands(h, q)
        /\ m.at = 1 /\ m.out = Redis!FirstOut(q)
    BY <1>1
  <1>4. m.st = CASE Redis!SlotRefused(q, Redis!Commands(h, q)) -> "error"
                 [] Redis!Commands(h, q) = <<>> -> "ok"
                 [] OTHER -> "running"
    BY <1>1
  <1>5. m.st \in {"running", "ok", "error"} /\ (m.st = "ok" => m.cmds = <<>>)
    BY <1>3, <1>4
  <1>6. DOMAIN call = Caller /\ DOMAIN seen = Caller /\ DOMAIN ran = Caller
    BY DEF FulfilInv, ScanInv
  <1>7. /\ call[c].st = "idle" /\ ran' = ran /\ store' = store /\ replica' = replica
        /\ seen' = IF q.op \in {"get", "mget", "scan"}
                   THEN [seen EXCEPT ![c] = [k \in Key |-> {Redis!Read(q, k)}]] ELSE seen
    BY DEF Redis!Begin
  <1>8. PICK t : t = seen'[c]
    OBVIOUS
  <1>9. Sees(m, t, store', replica')
    <2>1. CASE q.op \in {"get", "mget", "scan"}
      <3>1. t = [k \in Key |-> {Redis!Read(q, k)}]
        BY <1>6, <1>7, <1>8, <2>1
      <3>2. \A k \in Key : t[k] = {Redis!Read(q, k)}
        BY <3>1
      <3> QED BY <1>3, <1>7, <3>2 DEF Sees, Redis!Read
    <2>2. CASE q.op \notin {"get", "mget", "scan"}
      BY <1>3, <2>2 DEF Sees
    <2> QED BY <2>1, <2>2
  <1>10. ran[c] = <<>> /\ IsSeq(<<>>)
    BY <1>7, NoCommand DEF FulfilInv
  <1>11. Served(m, <<>>, t)
    <2>1. m.st = "ok" => m.at = Len(m.cmds) + 1
      BY <1>3, <1>5, NoCommand
    <2>2. q.op = "transaction" => RanParts(m, <<>>)
      BY <1>3 DEF RanParts
    <2>3. PICK j : j = m.at - 1
      OBVIOUS
    <2>4. j = 0 /\ 1..j = {}
      BY <1>3, <2>3
    <2>5. RanGroups(h, q, <<>>, j)
      <3>1. ASSUME NEW content \in {Redis!Blank, Redis!Full}
            PROVE  Redis!Applied(content, <<>>) = content /\ content = [x \in Key |-> content[x]]
        BY AppliedNothing DEF Redis!Blank, Redis!Full
      <3>2. \A g \in 1..j : FALSE
        BY <2>4
      <3>3. PICK keys : keys = Redis!PrefixKeys(h, q.keys)
        OBVIOUS
      <3>4. ASSUME NEW content \in {Redis!Blank, Redis!Full}, NEW a, a = Redis!Applied(content, <<>>)
            PROVE  /\ a = [x \in Key |-> a[x]]
                   /\ \A x \in Key :
                        /\ ~Redis!Contains(keys, x) => a[x] = content[x]
                        /\ (\E g \in 1..j : Names(keys, Redis!Groups(keys)[g], x)) => a[x] = Entry(q, keys, x)
        BY <3>1, <3>2, <3>4
      <3> QED BY <3>3, <3>4 DEF RanGroups
    <2>6. q.op = "mget" => GotGroups(h, q, m.out, j, t)
      <3>1. SUFFICES ASSUME q.op = "mget" PROVE m.out = [i \in DOMAIN q.keys |-> m.out[i]]
        BY <2>4 DEF GotGroups
      <3>2. PICK o : o = [i \in DOMAIN q.keys |-> Absent]
        OBVIOUS
      <3>3. Redis!FirstOut(q) = o
        BY <3>1, <3>2 DEF Redis!FirstOut
      <3>4. o = [i \in DOMAIN q.keys |-> o[i]]
        BY <3>2
      <3> QED BY <1>3, <3>3, <3>4
    <2>7. q.op = "get" => m.st # "ok"
      <3>1. SUFFICES ASSUME q.op = "get" PROVE m.cmds # <<>>
        BY <1>5
      <3>2. PICK s : s = Redis!Cmd("get", <<Redis!PrefixKey(h, q.keys[1])>>, q.args)
        OBVIOUS
      <3>3. Redis!Commands(h, q) = <<s>>
        BY <3>1, <3>2, GetCommands
      <3> QED BY <1>3, <3>3
    <2>8. PICK r : r = <<>>
      OBVIOUS
    <2>9. /\ IsSeq(r)
          /\ m.q.op = "transaction" => RanParts(m, r)
          /\ RanGroups(m.h, m.q, r, m.at - 1)
          /\ m.q.op = "mget" => GotGroups(m.h, m.q, m.out, m.at - 1, t)
          /\ m.q.op = "get" => m.st # "ok"
      BY <1>3, <1>10, <2>2, <2>3, <2>5, <2>6, <2>7, <2>8
    <2>10. Served(m, r, t)
      BY <2>1, <2>9 DEF Served
    <2> QED BY <2>8, <2>10
  <1>12. ASSUME NEW d \in Caller
        PROVE  /\ call'[d].st = "idle" => ran'[d] = <<>>
               /\ Served(call'[d], ran'[d], seen'[d])
               /\ Sees(call'[d], seen'[d], store', replica')
    <2>1. CASE d = c
      <3>1. call'[d] = m /\ ran'[d] = <<>> /\ seen'[d] = t
        BY <1>2, <1>6, <1>7, <1>8, <1>10, <2>1
      <3> QED BY <1>9, <1>11, <3>1
    <2>2. CASE d # c
      <3>1. call'[d] = call[d] /\ ran'[d] = ran[d] /\ seen'[d] = seen[d]
        BY <1>2, <1>6, <1>7, <2>2
      <3>2. /\ call[d].st = "idle" => ran[d] = <<>>
            /\ Served(call[d], ran[d], seen[d])
            /\ Sees(call[d], seen[d], store, replica)
        BY DEF FulfilInv
      <3> QED BY <1>7, <3>1, <3>2
    <2> QED BY <2>1, <2>2
  <1>13. DOMAIN ran' = Caller
    BY <1>6, <1>7
  <1> QED BY <1>12, <1>13 DEF FulfilInv

(* The invariant is inductive.                                             *)
LEMMA StepFulfilInv ==
  ASSUME KeysTyped, Fitted, FulfilInv, [Redis!Next]_(Redis!vars)
  PROVE  FulfilInv'
  <1>1. ScanInv'
    BY StepScanInv DEF FulfilInv
  <1>2. CASE UNCHANGED Redis!vars
    <2>1. ASSUME NEW d \in Caller
          PROVE  /\ call'[d].st = "idle" => ran'[d] = <<>>
                 /\ Served(call'[d], ran'[d], seen'[d])
                 /\ Sees(call'[d], seen'[d], store', replica')
      BY <1>2 DEF Redis!vars, FulfilInv
    <2>2. DOMAIN ran' = Caller
      BY <1>2 DEF Redis!vars, FulfilInv
    <2> QED BY <1>1, <2>1, <2>2 DEF FulfilInv
  <1>3. CASE Redis!Next
    BY <1>1, <1>3, BeginFulfils, ExecutedFulfils, RefusedFulfils, ResentFulfils, PageFulfils,
       ReplicatedFulfils DEF Redis!Next
  <1> QED BY <1>2, <1>3

(* The first elements of a sequence.                                       *)
LEMMA FirstOnes ==
  ASSUME NEW r, IsSeq(r), NEW n \in Nat, n <= Len(r)
  PROVE  SubSeq(r, 1, n) = [i \in 1..n |-> r[i]]
  <1>1. PICK f : f = SubSeq(r, 1, n)
    OBVIOUS
  <1>2. f = [i \in 1..n |-> r[i]]
    BY <1>1 DEF IsSeq
  <1> QED BY <1>1, <1>2

(* It implies the property.                                                *)
LEMMA FulfilInvFulfilled ==
  ASSUME KeysTyped, Fitted, FulfilInv
  PROVE  Redis!Fulfilled
  <1>1. ASSUME NEW c \in Caller, call[c].st = "ok"
        PROVE  LET m == call[c] IN
        /\ m.q.op = "transaction" =>
            SubSeq(ran[c], 1, Len(m.q.args)) = Redis!OneByOne(m.h, m.q)
        /\ m.q.op \in {"mset", "mdelete"} =>
            \A content \in {Redis!Blank, Redis!Full} :
                Redis!Applied(content, ran[c]) = Redis!Applied(content, Redis!OneByOne(m.h, m.q))
        /\ m.q.op = "mget" =>
            \A i \in DOMAIN m.out : m.out[i] \in seen[c][Redis!PrefixKey(m.h, m.q.keys[i])]
        /\ m.q.op = "get" => m.out[1] \in seen[c][Redis!PrefixKey(m.h, m.q.keys[1])]
    <2>1. PICK m, h, q, r, t, f : /\ m = call[c] /\ h = m.h /\ q = m.q /\ r = ran[c] /\ t = seen[c]
                                  /\ f = m.cmds
      OBVIOUS
    <2>2. Served(m, r, t) /\ m.st = "ok" /\ CallOK(c)
      BY <1>1, <2>1 DEF FulfilInv, ScanInv
    <2>3. h \in Redis!Handle /\ q \in Queries[c] /\ f = Redis!Commands(h, q)
      BY <2>1, <2>2 DEF CallOK
    <2>4. PICK n \in Nat : n = Len(f)
      BY <2>3, CommandsAre DEF IsSeq
    <2>5. m.at = n + 1 /\ m.at - 1 = n /\ IsSeq(r)
      BY <2>1, <2>2, <2>4 DEF Served
    <2>6. ASSUME q.op = "transaction" PROVE SubSeq(r, 1, Len(q.args)) = Redis!OneByOne(h, q)
      <3>1. PICK e \in Nat : e = Len(q.args) /\ DOMAIN q.args = 1..e
        <4>1. IsSeq(q.args)
          BY <2>3, <2>6 DEF KeysTyped, QueryTyped
        <4>2. DOMAIN q.args = 1..Len(q.args) /\ Len(q.args) \in Nat
          BY <4>1 DEF IsSeq
        <4> QED BY <4>2
      <3>2. Redis!OneByOne(h, q) = [i \in 1..e |-> Redis!DirectCommand(h, q.args[i])]
        BY <2>6, <3>1 DEF Redis!OneByOne
      <3>3. Len(r) >= e /\ \A i \in 1..e : r[i] = Redis!DirectCommand(h, q.args[i])
        <4>1. RanParts(m, r)
          BY <2>1, <2>2, <2>6 DEF Served
        <4>2. CASE n = 0
          <5>1. f = <<>>
            <6>1. IsSeq(f)
              BY <2>3, CommandsAre
            <6>2. f = [i \in 1..0 |-> f[i]]
              BY <2>4, <4>2, <6>1 DEF IsSeq
            <6> QED BY <6>2
          <5>2. e = 0
            <6>1. Redis!Commands(h, q) = <<>> => e = 0
              BY <2>3, <2>6, <3>1, TransactionCommands
            <6> QED BY <2>3, <5>1, <6>1
          <5>3. Len(r) \in Nat
            BY <2>5 DEF IsSeq
          <5> QED BY <5>2, <5>3
        <4>3. CASE n # 0
          <5>1. m.at # 1
            BY <2>4, <2>5, <4>3
          <5> QED BY <2>1, <3>1, <4>1, <5>1 DEF RanParts
        <4> QED BY <4>2, <4>3
      <3>4. SubSeq(r, 1, e) = [i \in 1..e |-> r[i]]
        <4>1. Len(r) \in Nat
          BY <2>5 DEF IsSeq
        <4>2. e <= Len(r)
          BY <3>3, <4>1
        <4> QED BY <2>5, <4>2, FirstOnes
      <3> QED BY <3>1, <3>2, <3>3, <3>4
    <2>7. ASSUME q.op \in {"mset", "mdelete"}, NEW content \in {Redis!Blank, Redis!Full}
          PROVE  Redis!Applied(content, r) = Redis!Applied(content, Redis!OneByOne(h, q))
      <3>1. RanGroups(h, q, r, n)
        BY <2>1, <2>2, <2>5, <2>7 DEF Served
      <3>2. RanGroups(h, q, r, Len(Redis!Commands(h, q)))
        BY <2>3, <2>4, <3>1
      <3> QED BY <2>3, <2>7, <3>2, BatchDone
    <2>8. ASSUME q.op = "mget", NEW i \in DOMAIN m.out
          PROVE  m.out[i] \in t[Redis!PrefixKey(h, q.keys[i])]
      <3>1. PICK keys, gs : keys = Redis!PrefixKeys(h, q.keys) /\ gs = Redis!Groups(keys)
        OBVIOUS
      <3>2. PICK o : o = m.out /\ GotGroups(h, q, o, n, t)
        BY <2>1, <2>2, <2>5, <2>8 DEF Served
      <3>3. /\ o = [x \in DOMAIN q.keys |-> o[x]]
            /\ \A g \in 1..n : \A a \in DOMAIN gs[g] : o[gs[g][a]] \in t[keys[gs[g][a]]]
        BY <3>1, <3>2 DEF GotGroups
      <3>4. i \in DOMAIN q.keys
        BY <2>8, <3>2, <3>3
      <3>5. keys \in Seq(Text) /\ i \in 1..Len(keys)
        <4>1. keys \in Seq(Text) /\ Len(keys) = Len(q.keys)
          BY <2>3, <3>1, PrefixKeysAre
        <4>2. PICK us \in Seq(Text) : us = q.keys
          BY <2>3 DEF KeysTyped, QueryTyped
        <4> QED BY <3>4, <4>1, <4>2
      <3>6. n = Len(gs)
        BY <2>3, <2>4, <2>8, <3>1, GroupKeys DEF Batched
      <3>7. PICK g \in 1..n : \E a \in DOMAIN gs[g] : gs[g][a] = i
        BY <3>1, <3>5, <3>6, GroupsWhole
      <3>8. keys[i] = Redis!PrefixKey(h, q.keys[i])
        BY <3>1, <3>4 DEF Redis!PrefixKeys
      <3> QED BY <3>2, <3>3, <3>7, <3>8
    <2>9. ASSUME q.op = "get" PROVE m.out[1] \in t[Redis!PrefixKey(h, q.keys[1])]
      BY <2>1, <2>2, <2>9 DEF Served
    <2> QED BY <2>1, <2>6, <2>7, <2>8, <2>9
  <1> QED BY <1>1 DEF Redis!Fulfilled, Redis!Resolved

\* A transaction that resolves has run the commands the direct methods send; a
\* batch that resolves has the effect of its entries one by one, whatever slots
\* they fall into; and each value of a get or an mget is one its key had, where
\* reads go, while the call was under way (RedisCache).
THEOREM FulfilledCorrect ==
  ASSUME KeysTyped, Fitted
  PROVE  Redis!Spec => []Redis!Fulfilled
  <1>1. Redis!Init => FulfilInv
    BY InitScanInv DEF Redis!Init, FulfilInv, Served, Sees
  <1>2. FulfilInv /\ [Redis!Next]_(Redis!vars) => FulfilInv'
    BY StepFulfilInv
  <1>3. FulfilInv => Redis!Fulfilled
    BY FulfilInvFulfilled
  <1> QED BY <1>1, <1>2, <1>3, PTL DEF Redis!Spec


-----------------------------------------------------------------------------
(* Batches: what a result says of the entries that were sent.              *)

CONSTANTS Service, Entries, MaxBatch, MaxRounds
VARIABLES service, client, handle, entries, at, successful, failed, pc, arrived, rounds, threw
Sends == INSTANCE Batches

(* The numbers of the entries and of a chunk, and the services.            *)
Sized ==
  /\ Entries \in Nat /\ MaxBatch \in Nat \ {0}
  /\ Service \subseteq {"sqs", "sns", "redis-queue", "redis-topic", "dynamodb"}

(* The entries the requests of a call were answered for.                   *)
Behind == {k \in DOMAIN entries : \/ Sends!Chunked /\ k < at
                                  \/ ~Sends!Chunked /\ pc = "result"}

Accounts ==
  /\ IsInjective(successful) /\ IsInjective(failed)
  /\ ToSet(successful) \cap ToSet(failed) = {}
  /\ ToSet(successful) \cup ToSet(failed) = {entries[k] : k \in Behind}
  /\ \A e \in ToSet(successful) : arrived[e] > 0

SentOnce ==
  /\ \A e \in 1..Entries : arrived[e] <= 1
  /\ pc = "idle" => \A k \in DOMAIN entries : arrived[entries[k]] = 0
  /\ pc = "sending" => \A k \in DOMAIN entries \ Behind : arrived[entries[k]] = 0
  /\ pc \in {"sending", "result"} => \A e \in ToSet(failed) : arrived[e] = 0

SendTypeOK ==
  /\ service \in Service
  /\ entries \in Seq(1..Entries) /\ IsInjective(entries)
  /\ at \in Nat \ {0} /\ rounds \in Nat
  /\ successful \in Seq(1..Entries) /\ failed \in Seq(1..Entries)
  /\ arrived \in [1..Entries -> Nat]
  /\ pc \in {"idle", "sending", "result", "thrown"}

SendInv ==
  /\ SendTypeOK
  /\ pc \in {"sending", "result"} => Accounts
  /\ pc = "result" /\ Sends!Chunked => at > Len(entries)
  /\ rounds = 0 => pc = "idle" /\ \A e \in 1..Entries : arrived[e] = 0
  /\ rounds = 1 /\ pc = "sending" => \A k \in DOMAIN entries : arrived[entries[k]] > 0 => k \in Behind
  /\ rounds = 1 /\ pc = "thrown" =>
       \A k \in DOMAIN entries : arrived[entries[k]] > 0 => k < at \/ k \in Sends!Chunk
  /\ pc = "thrown" => threw
  /\ ~threw /\ ~Sends!Pipelined => SentOnce

(* A finite set is listed by SetToSeq, each element once.                  *)
LEMMA Listed ==
  ASSUME NEW S, IsFiniteSet(S), NEW T, S \subseteq T
  PROVE  SetToSeq(S) \in Seq(T) /\ IsInjective(SetToSeq(S)) /\ ToSet(SetToSeq(S)) = S
  <1>1. PICK n : n = Cardinality(S)
    OBVIOUS
  <1>2. n \in Nat /\ \E f : f \in Bijection(1..n, S)
    BY <1>1, FS_CardinalityType DEF ExistsBijection
  <1>3. PICK f : f \in Bijection(1..n, S)
    BY <1>2
  <1>4. f \in [1..n -> S] /\ IsInjective(f)
    BY <1>3 DEF Bijection, Injection, IsInjective
  <1>5. PICK g : g = SetToSeq(S)
    OBVIOUS
  <1>6. g \in [1..n -> S] /\ IsInjective(g)
    BY <1>1, <1>4, <1>5 DEF SetToSeq
  <1>7. g \in Injection(1..n, S)
    BY <1>6 DEF Injection, IsInjective
  <1>8. IsFiniteSet(1..n) /\ Cardinality(1..n) = n
    BY <1>2, FS_Interval
  <1>9. g \in Surjection(1..n, S)
    BY <1>1, <1>7, <1>8, FS_Injection
  <1>10. \A x \in S : \E i \in 1..n : g[i] = x
    BY <1>9 DEF Surjection
  <1>11. ToSet(g) = S
    BY <1>6, <1>10 DEF ToSet
  <1>12. g \in Seq(T)
    <2>1. g \in [1..n -> T]
      BY <1>6
    <2> QED BY <1>2, <2>1
  <1> QED BY <1>5, <1>6, <1>11, <1>12

LEMMA SameWords ==
  /\ \A f : Sends!IsInjective(f) <=> IsInjective(f)
  /\ \A f : Sends!ToSet(f) = ToSet(f)
  BY Zenon DEF Sends!IsInjective, IsInjective, Sends!ToSet, ToSet

LEMMA SameLists == \A S : Sends!SetToSeq(S) = SetToSeq(S)
  <1> SUFFICES ASSUME NEW S PROVE Sends!SetToSeq(S) = SetToSeq(S)
    OBVIOUS
  <1>1. Sends!Cardinality(S) = Cardinality(S)
    BY Zenon DEF Sends!Cardinality, Cardinality
  <1>2. \A f : Sends!IsInjective(f) <=> IsInjective(f)
    BY SameWords
  <1> QED BY <1>1, <1>2 DEF Sends!SetToSeq, SetToSeq

(* Two lists one behind the other.                                         *)
LEMMA Joined ==
  ASSUME NEW S, NEW s \in Seq(S), NEW t \in Seq(S)
  PROVE  /\ s \o t \in Seq(S) /\ ToSet(s \o t) = ToSet(s) \cup ToSet(t)
         /\ IsInjective(s) /\ IsInjective(t) /\ ToSet(s) \cap ToSet(t) = {} => IsInjective(s \o t)
  <1>1. PICK u : u = s \o t
    OBVIOUS
  <1>2. PICK m \in Nat, n \in Nat : m = Len(s) /\ n = Len(t)
    OBVIOUS
  <1>3. DOMAIN s = 1..m /\ DOMAIN t = 1..n /\ u \in Seq(S) /\ Len(u) = m + n
    BY <1>1, <1>2
  <1>4. DOMAIN u = 1..(m + n)
    BY <1>3
  <1>5. \A i \in 1..(m + n) : u[i] = IF i <= m THEN s[i] ELSE t[i - m]
    BY <1>1, <1>2
  <1>6. \A i \in 1..(m + n) : i <= m \/ i - m \in 1..n
    OBVIOUS
  <1>7. ToSet(u) = ToSet(s) \cup ToSet(t)
    <2>1. \A i \in DOMAIN s : i \in DOMAIN u /\ u[i] = s[i]
      BY <1>3, <1>4, <1>5
    <2>2. \A i \in DOMAIN t : m + i \in DOMAIN u /\ u[m + i] = t[i]
      BY <1>3, <1>4, <1>5
    <2>3. \A i \in DOMAIN u : \/ i \in DOMAIN s /\ u[i] = s[i]
                              \/ i - m \in DOMAIN t /\ u[i] = t[i - m]
      BY <1>3, <1>4, <1>5, <1>6
    <2> QED BY <2>1, <2>2, <2>3 DEF ToSet
  <1>8. ASSUME IsInjective(s), IsInjective(t), ToSet(s) \cap ToSet(t) = {}
        PROVE  IsInjective(u)
    <2> SUFFICES ASSUME NEW i \in DOMAIN u, NEW j \in DOMAIN u, u[i] = u[j] PROVE i = j
      BY DEF IsInjective
    <2>0. i \in 1..(m + n) /\ j \in 1..(m + n)
      BY <1>4
    <2>1. CASE i <= m /\ j <= m
      BY <1>3, <1>5, <1>8, <2>0, <2>1 DEF IsInjective
    <2>2. CASE ~(i <= m) /\ ~(j <= m)
      <3>1. i - m \in DOMAIN t /\ j - m \in DOMAIN t /\ t[i - m] = t[j - m]
        BY <1>3, <1>5, <2>0, <2>2
      <3>2. i - m = j - m
        BY <1>8, <3>1 DEF IsInjective
      <3> QED BY <2>0, <3>2
    <2>3. \A k, l \in 1..(m + n) : k <= m /\ ~(l <= m) => u[k] # u[l]
      <3> SUFFICES ASSUME NEW k \in 1..(m + n), NEW l \in 1..(m + n), k <= m, ~(l <= m)
                   PROVE  u[k] # u[l]
        OBVIOUS
      <3>1. u[k] \in ToSet(s)
        <4>1. k \in DOMAIN s /\ u[k] = s[k]
          BY <1>3, <1>5
        <4> QED BY <4>1 DEF ToSet
      <3>2. l - m \in DOMAIN t /\ u[l] = t[l - m]
        BY <1>3, <1>5, <1>6
      <3>3. u[l] \in ToSet(t)
        BY <3>2 DEF ToSet
      <3> QED BY <1>8, <3>1, <3>3
    <2> QED BY <2>0, <2>1, <2>2, <2>3
  <1> QED BY <1>1, <1>3, <1>7, <1>8

LEMMA EntriesAre ==
  ASSUME SendTypeOK
  PROVE  \A k \in DOMAIN entries : entries[k] \in 1..Entries
  <1>1. PICK S : S = 1..Entries
    OBVIOUS
  <1>2. entries \in Seq(S)
    BY <1>1 DEF SendTypeOK
  <1>3. \A k \in DOMAIN entries : entries[k] \in S
    BY <1>2
  <1> QED BY <1>1, <1>3

LEMMA ChunkIs ==
  ASSUME SendTypeOK
  PROVE  /\ Sends!Chunk \subseteq DOMAIN entries /\ Sends!Request \subseteq 1..Entries
         /\ \A k \in DOMAIN entries : entries[k] \in Sends!Request => k \in Sends!Chunk
  <1>1. Sends!Chunk \subseteq DOMAIN entries /\ Sends!Request \subseteq 1..Entries
    BY EntriesAre DEF Sends!Chunk, Sends!Request
  <1>2. \A k, l \in DOMAIN entries : entries[k] = entries[l] => k = l
    BY DEF SendTypeOK, IsInjective
  <1>3. \A k \in DOMAIN entries : entries[k] \in Sends!Request =>
          \E l \in Sends!Chunk : entries[l] = entries[k]
    BY DEF Sends!Request
  <1> QED BY <1>1, <1>2, <1>3

(* A request was answered: its entries are added to the result.            *)
LEMMA AnswerStep ==
  ASSUME Sized, SendInv, pc = "sending",
         NEW some \in SUBSET Sends!Request, NEW did \in SUBSET Sends!Request, some \subseteq did,
         did = some \/ Sends!Pipelined,
         Sends!Arrive(did), Sends!Answered(some),
         pc' \in {"sending", "result"}, at' \in Nat \ {0},
         pc' = "result" /\ Sends!Chunked => at' > Len(entries),
         Behind' = Behind \cup Sends!Chunk, Behind \cap Sends!Chunk = {}
  PROVE  SendInv'
  <1>1. SendTypeOK /\ Accounts
    BY DEF SendInv
  <1>2. UNCHANGED <<service, entries, rounds, threw>>
    BY DEF Sends!Answered
  <1>3. /\ (Sends!Chunked <=> Sends!Chunked') /\ (Sends!Pipelined <=> Sends!Pipelined')
    BY <1>2 DEF Sends!Chunked, Sends!Pipelined
  <1>4. /\ some \subseteq 1..Entries /\ did \subseteq 1..Entries /\ Sends!Request \subseteq 1..Entries
        /\ Sends!Chunk \subseteq DOMAIN entries
        /\ \A k \in DOMAIN entries : entries[k] \in Sends!Request => k \in Sends!Chunk
    BY <1>1, ChunkIs
  <1>5. PICK rest : rest = Sends!Request \ some
    OBVIOUS
  <1>6. IsFiniteSet(some) /\ IsFiniteSet(rest)
    <2>1. IsFiniteSet(1..Entries)
      BY FS_Interval DEF Sized
    <2> QED BY <1>4, <1>5, <2>1, FS_Subset
  <1>7. PICK s, t : s = SetToSeq(some) /\ t = SetToSeq(rest)
    OBVIOUS
  <1>8. IsInjective(s) /\ ToSet(s) = some /\ IsInjective(t) /\ ToSet(t) = rest
    BY <1>6, <1>7, Listed
  <1>9. s \in Seq(1..Entries) /\ t \in Seq(1..Entries)
    <2>1. some \subseteq 1..Entries /\ rest \subseteq 1..Entries
      BY <1>4, <1>5
    <2> QED BY <1>6, <1>7, <2>1, Listed
  <1>10. successful' = successful \o s /\ failed' = failed \o t
    BY <1>5, <1>7, SameLists DEF Sends!Answered
  <1>11. successful \in Seq(1..Entries) /\ failed \in Seq(1..Entries)
    BY <1>1 DEF SendTypeOK
  <1>12. /\ successful' \in Seq(1..Entries) /\ failed' \in Seq(1..Entries)
         /\ ToSet(successful') = ToSet(successful) \cup some
         /\ ToSet(failed') = ToSet(failed) \cup rest
    BY <1>8, <1>9, <1>10, <1>11, Joined
  <1>13. /\ arrived' \in [1..Entries -> Nat]
         /\ \A e \in 1..Entries : arrived'[e] = IF e \in did THEN arrived[e] + 1 ELSE arrived[e]
    BY <1>1 DEF SendTypeOK, Sends!Arrive
  <1>14. SendTypeOK'
    BY <1>1, <1>2, <1>12, <1>13 DEF SendTypeOK
  <1>15. \A e \in ToSet(successful) \cup ToSet(failed) :
           e \in 1..Entries /\ e \notin Sends!Request
    <2> SUFFICES ASSUME NEW e \in {entries[k] : k \in Behind} PROVE e \in 1..Entries /\ e \notin Sends!Request
      BY <1>1 DEF Accounts
    <2>1. PICK k \in Behind : e = entries[k]
      OBVIOUS
    <2>2. k \in DOMAIN entries /\ k \notin Sends!Chunk
      BY <2>1 DEF Behind
    <2> QED BY <1>1, <1>4, <2>1, <2>2, EntriesAre
  <1>16. Accounts'
    <2>1. IsInjective(successful')
      <3>1. ToSet(successful) \cap ToSet(s) = {}
        BY <1>8, <1>15
      <3> QED BY <1>1, <1>8, <1>9, <1>10, <1>11, <3>1, Joined DEF Accounts
    <2>2. IsInjective(failed')
      <3>1. ToSet(failed) \cap ToSet(t) = {}
        BY <1>5, <1>8, <1>15
      <3> QED BY <1>1, <1>8, <1>9, <1>10, <1>11, <3>1, Joined DEF Accounts
    <2>3. ToSet(successful') \cap ToSet(failed') = {}
      BY <1>1, <1>5, <1>12, <1>15 DEF Accounts
    <2>4. ToSet(successful') \cup ToSet(failed') = {entries'[k] : k \in Behind'}
      <3>1. {entries'[k] : k \in Behind'} = {entries[k] : k \in Behind} \cup Sends!Request
        BY <1>2 DEF Sends!Request
      <3> QED BY <1>1, <1>5, <1>12, <3>1 DEF Accounts
    <2>5. \A e \in ToSet(successful') : arrived'[e] > 0
      <3> SUFFICES ASSUME NEW e \in ToSet(successful') PROVE arrived'[e] > 0
        OBVIOUS
      <3>1. e \in 1..Entries /\ arrived[e] \in Nat
        BY <1>1, <1>4, <1>12, <1>15 DEF SendTypeOK
      <3>2. CASE e \in did
        BY <1>13, <3>1, <3>2
      <3>3. CASE e \notin did
        BY <1>1, <1>12, <1>13, <3>1, <3>3 DEF Accounts
      <3> QED BY <3>2, <3>3
    <2> QED BY <2>1, <2>2, <2>3, <2>4, <2>5 DEF Accounts
  <1>17. rounds' # 0 /\ pc' # "idle" /\ pc' # "thrown"
    BY <1>2 DEF SendInv
  <1>18. ASSUME rounds' = 1, NEW k \in DOMAIN entries', arrived'[entries'[k]] > 0
         PROVE  k \in Behind'
    <2>1. PICK e \in 1..Entries : e = entries[k] /\ k \in DOMAIN entries
      BY <1>1, <1>2, EntriesAre
    <2>2. CASE e \in did
      BY <1>4, <2>1, <2>2
    <2>3. CASE e \notin did
      <3>1. arrived[e] > 0
        BY <1>2, <1>13, <1>18, <2>1, <2>3
      <3> QED BY <1>2, <1>18, <2>1, <3>1 DEF SendInv
    <2> QED BY <2>2, <2>3
  <1>19. ASSUME ~threw', ~Sends!Pipelined' PROVE SentOnce'
    <2>1. SentOnce /\ did = some
      BY <1>2, <1>3, <1>19 DEF SendInv
    <2>2. \A e \in Sends!Request : e \in 1..Entries /\ arrived[e] = 0
      <3> SUFFICES ASSUME NEW e \in Sends!Request PROVE e \in 1..Entries /\ arrived[e] = 0
        OBVIOUS
      <3>1. PICK k \in Sends!Chunk : e = entries[k]
        BY DEF Sends!Request
      <3>2. k \in DOMAIN entries \ Behind
        BY <1>4, <3>1
      <3> QED BY <1>4, <2>1, <3>1, <3>2 DEF SentOnce
    <2>3. ASSUME NEW e \in 1..Entries PROVE arrived'[e] <= 1
      <3>1. arrived[e] \in Nat /\ arrived[e] <= 1
        BY <1>1, <2>1 DEF SendTypeOK, SentOnce
      <3> QED BY <1>13, <2>2, <3>1
    <2>4. ASSUME NEW k \in DOMAIN entries' \ Behind' PROVE arrived'[entries'[k]] = 0
      <3>1. PICK e \in 1..Entries : e = entries[k] /\ k \in DOMAIN entries
        BY <1>1, <1>2, EntriesAre
      <3>2. e \notin Sends!Request /\ k \notin Behind
        BY <1>4, <2>4, <3>1
      <3>3. arrived[e] = 0
        BY <2>1, <3>1, <3>2 DEF SentOnce
      <3> QED BY <1>2, <1>13, <3>1, <3>2, <3>3
    <2>5. ASSUME NEW e \in ToSet(failed') PROVE arrived'[e] = 0
      <3>1. CASE e \in ToSet(failed)
        <4>1. e \in 1..Entries /\ e \notin did /\ arrived[e] = 0
          BY <1>15, <2>1, <3>1 DEF SentOnce
        <4> QED BY <1>13, <4>1
      <3>2. CASE e \in rest
        BY <1>5, <1>13, <2>1, <2>2, <3>2
      <3> QED BY <1>12, <2>5, <3>1, <3>2
    <2> QED BY <1>17, <2>3, <2>4, <2>5 DEF SentOnce
  <1>20. pc' = "result" /\ Sends!Chunked' => at' > Len(entries')
    BY <1>2, <1>3
  <1> QED BY <1>14, <1>16, <1>17, <1>18, <1>19, <1>20 DEF SendInv

LEMMA SendInit == Sized /\ Sends!Init => SendInv
  <1> SUFFICES ASSUME Sized, Sends!Init PROVE SendInv
    OBVIOUS
  <1>1. /\ service \in Service /\ at = 1 /\ successful = <<>> /\ failed = <<>> /\ pc = "idle"
        /\ arrived = [e \in 1..Entries |-> 0] /\ rounds = 0
    BY DEF Sends!Init
  <1>2. PICK n \in 0..Entries : entries = [k \in 1..n |-> k]
    BY DEF Sends!Init
  <1>3. n \in Nat /\ n <= Entries
    BY <1>2 DEF Sized
  <1>4. entries \in [1..n -> 1..Entries] /\ IsInjective(entries)
    BY <1>2, <1>3 DEF Sized, IsInjective
  <1>5. PICK S : S = 1..Entries
    OBVIOUS
  <1>6. entries \in Seq(S)
    <2>1. entries \in [1..n -> S]
      BY <1>4, <1>5
    <2> QED BY <1>3, <2>1
  <1>7. DOMAIN entries = 1..n
    BY <1>2
  <1>8. \A e \in 1..Entries : arrived[e] = 0
    BY <1>1
  <1>9. SendTypeOK
    BY <1>1, <1>4, <1>5, <1>6 DEF SendTypeOK
  <1>10. \A k \in DOMAIN entries : arrived[entries[k]] = 0
    BY <1>4, <1>7, <1>8
  <1>11. SentOnce
    <2>1. \A e \in 1..Entries : arrived[e] <= 1
      BY <1>8
    <2>2. pc # "sending" /\ pc \notin {"sending", "result"}
      BY <1>1
    <2> QED BY <1>10, <2>1, <2>2 DEF SentOnce
  <1> QED BY <1>1, <1>8, <1>9, <1>11 DEF SendInv

(* The client is opened or closed, or nothing happens.                     *)
LEMMA SendFrame ==
  ASSUME SendInv, UNCHANGED <<service, entries, at, successful, failed, pc, arrived, rounds, threw>>
  PROVE  SendInv'
  <1>1. (Sends!Chunked' <=> Sends!Chunked) /\ (Sends!Pipelined' <=> Sends!Pipelined)
    BY DEF Sends!Chunked, Sends!Pipelined
  <1>2. Behind' = Behind /\ Sends!Chunk' = Sends!Chunk
    BY <1>1 DEF Behind, Sends!Chunk
  <1>3. SendTypeOK'
    BY DEF SendInv, SendTypeOK
  <1>4. Accounts' <=> Accounts
    BY <1>2 DEF Accounts
  <1>5. SentOnce' <=> SentOnce
    BY <1>2 DEF SentOnce
  <1> QED BY <1>1, <1>2, <1>3, <1>4, <1>5 DEF SendInv

LEMMA SendBegins ==
  ASSUME SendInv, Sends!Begin PROVE SendInv'
  <1>1. /\ pc = "idle" /\ at' = 1 /\ successful' = <<>> /\ failed' = <<>> /\ pc' = "sending"
        /\ rounds' = rounds + 1 /\ UNCHANGED <<service, entries, arrived, threw>> /\ SendTypeOK
    BY DEF Sends!Begin, SendInv
  <1>2. (Sends!Chunked' <=> Sends!Chunked) /\ (Sends!Pipelined' <=> Sends!Pipelined)
    BY <1>1 DEF Sends!Chunked, Sends!Pipelined
  <1>3. Behind' = {}
    <2>1. DOMAIN entries' = 1..Len(entries')
      BY <1>1 DEF SendTypeOK
    <2>2. \A k \in 1..Len(entries') : ~(k < at')
      BY <1>1
    <2> QED BY <1>1, <2>1, <2>2 DEF Behind
  <1>4. SendTypeOK'
    BY <1>1 DEF SendTypeOK
  <1>5. ToSet(successful') = {} /\ ToSet(failed') = {}
    BY <1>1 DEF ToSet
  <1>6. IsInjective(successful') /\ IsInjective(failed')
    BY <1>1 DEF IsInjective
  <1>7. Accounts'
    BY <1>3, <1>5, <1>6 DEF Accounts
  <1>8. rounds' # 0
    BY <1>1 DEF SendTypeOK
  <1>9. ASSUME rounds' = 1, NEW k \in DOMAIN entries' PROVE ~(arrived'[entries'[k]] > 0)
    <2>1. rounds = 0
      BY <1>1, <1>9 DEF SendTypeOK
    <2>2. PICK e \in 1..Entries : e = entries[k]
      BY <1>1, EntriesAre
    <2>3. arrived[e] = 0
      BY <2>1, <2>2 DEF SendInv
    <2> QED BY <1>1, <2>2, <2>3
  <1>10. ASSUME ~threw', ~Sends!Pipelined' PROVE SentOnce'
    <2>1. SentOnce
      BY <1>1, <1>2, <1>10 DEF SendInv
    <2> QED BY <1>1, <1>5, <2>1 DEF SentOnce
  <1> QED BY <1>1, <1>4, <1>7, <1>8, <1>9, <1>10 DEF SendInv

LEMMA SendThrows ==
  ASSUME SendInv, Sends!RequestFails PROVE SendInv'
  <1>1. /\ pc = "sending" /\ pc' = "thrown" /\ threw' = TRUE
        /\ UNCHANGED <<service, entries, at, successful, failed, rounds>> /\ SendTypeOK
    BY DEF Sends!RequestFails, SendInv
  <1>2. PICK did \in SUBSET Sends!Request : Sends!Arrive(did)
    BY DEF Sends!RequestFails
  <1>3. /\ arrived' \in [1..Entries -> Nat]
        /\ \A e \in 1..Entries : e \notin did => arrived'[e] = arrived[e]
    BY <1>1, <1>2 DEF SendTypeOK, Sends!Arrive
  <1>4. SendTypeOK'
    BY <1>1, <1>3 DEF SendTypeOK
  <1>5. Sends!Chunk' = Sends!Chunk
    BY <1>1 DEF Sends!Chunk, Sends!Chunked
  <1>6. rounds' # 0
    BY <1>1 DEF SendInv
  <1>7. ASSUME rounds' = 1, NEW k \in DOMAIN entries', arrived'[entries'[k]] > 0
        PROVE  k < at' \/ k \in Sends!Chunk
    <2>1. PICK e \in 1..Entries : e = entries[k] /\ k \in DOMAIN entries
      BY <1>1, EntriesAre
    <2>2. CASE e \in did
      BY <1>1, <2>1, <2>2, ChunkIs
    <2>3. CASE e \notin did
      <3>1. arrived[e] > 0
        BY <1>1, <1>3, <1>7, <2>1, <2>3
      <3>2. k \in Behind
        BY <1>1, <1>7, <2>1, <3>1 DEF SendInv
      <3> QED BY <1>1, <3>2 DEF Behind
    <2> QED BY <2>2, <2>3
  <1> QED BY <1>1, <1>4, <1>5, <1>6, <1>7 DEF SendInv

LEMMA SendReturns ==
  ASSUME SendInv, Sends!Return PROVE SendInv'
  <1>1. /\ pc = "sending" /\ pc' = "result" /\ Sends!Chunked /\ at > Len(entries)
        /\ UNCHANGED <<service, entries, at, successful, failed, arrived, rounds, threw>>
    BY DEF Sends!Return
  <1>2. Sends!Chunked' /\ (Sends!Pipelined' <=> Sends!Pipelined)
    BY <1>1 DEF Sends!Chunked, Sends!Pipelined
  <1>3. Behind' = Behind
    BY <1>1, <1>2 DEF Behind
  <1>4. SendTypeOK'
    BY <1>1 DEF SendInv, SendTypeOK
  <1>5. Accounts'
    BY <1>1, <1>3 DEF SendInv, Accounts
  <1>6. SentOnce => SentOnce'
    BY <1>1 DEF SentOnce
  <1> QED BY <1>1, <1>2, <1>4, <1>5, <1>6 DEF SendInv

LEMMA SendAgain ==
  ASSUME SendInv, Sends!Again PROVE SendInv'
  <1>1. /\ pc \in {"result", "thrown"} /\ pc' = "idle"
        /\ entries' = IF pc = "result" THEN failed ELSE entries
        /\ UNCHANGED <<service, at, successful, failed, arrived, rounds, threw>> /\ SendTypeOK
    BY DEF Sends!Again, SendInv
  <1>2. Sends!Pipelined' <=> Sends!Pipelined
    BY <1>1 DEF Sends!Pipelined
  <1>3. SendTypeOK'
    BY <1>1 DEF SendInv, SendTypeOK, Accounts
  <1>4. rounds' # 0
    BY <1>1 DEF SendInv
  <1>5. ASSUME ~threw', ~Sends!Pipelined' PROVE SentOnce'
    <2>1. SentOnce /\ pc = "result" /\ entries' = failed
      BY <1>1, <1>2, <1>5 DEF SendInv
    <2>2. \A k \in DOMAIN entries' : arrived[entries'[k]] = 0
      BY <2>1 DEF SentOnce, ToSet
    <2> QED BY <1>1, <2>1, <2>2 DEF SentOnce
  <1> QED BY <1>1, <1>3, <1>4, <1>5 DEF SendInv

LEMMA SendStep ==
  ASSUME Sized, SendInv, [Sends!Next]_Sends!vars PROVE SendInv'
  <1>0. SendTypeOK /\ DOMAIN entries = 1..Len(entries) /\ Len(entries) \in Nat
    BY DEF SendInv, SendTypeOK
  <1>1. CASE Sends!GetHandle \/ Sends!Close \/ Sends!HasQuit
    BY <1>1, SendFrame DEF Sends!GetHandle, Sends!Close, Sends!HasQuit, Sends!call
  <1>2. CASE Sends!Begin
    BY <1>2, SendBegins
  <1>3. CASE Sends!SendChunk
    <2>1. /\ pc = "sending" /\ pc' = pc /\ Sends!Chunked /\ at' = at + MaxBatch
      BY <1>3 DEF Sends!SendChunk
    <2>2. PICK some \in SUBSET Sends!Request : Sends!Arrive(some) /\ Sends!Answered(some)
      BY <1>3 DEF Sends!SendChunk
    <2>3. service' = service /\ entries' = entries /\ Sends!Chunked'
      BY <2>1, <2>2 DEF Sends!Answered, Sends!Chunked
    <2>4. at \in Nat \ {0} /\ MaxBatch \in Nat \ {0}
      BY <1>0 DEF SendTypeOK, Sized
    <2>5. \A k \in DOMAIN entries : k < at' <=> k < at \/ (at <= k /\ k < at + MaxBatch)
      BY <1>0, <2>1, <2>4
    <2>6. Behind' = Behind \cup Sends!Chunk
      BY <2>1, <2>3, <2>5 DEF Behind, Sends!Chunk
    <2>7. Behind \cap Sends!Chunk = {}
      BY <1>0, <2>1, <2>4 DEF Behind, Sends!Chunk
    <2>8. at' \in Nat \ {0}
      BY <2>1, <2>4
    <2> QED BY <2>1, <2>2, <2>6, <2>7, <2>8, AnswerStep
  <1>4. CASE Sends!ExecPipeline \/ Sends!SendRequest
    <2>1. /\ pc = "sending" /\ pc' = "result" /\ ~Sends!Chunked /\ at' = at
      BY <1>4 DEF Sends!ExecPipeline, Sends!SendRequest, Sends!Pipelined, Sends!Chunked
    <2>2. PICK did \in SUBSET Sends!Request, some \in SUBSET Sends!Request :
             /\ some \subseteq did /\ (did = some \/ Sends!Pipelined)
             /\ Sends!Arrive(did) /\ Sends!Answered(some)
      <3>1. CASE Sends!ExecPipeline
        <4>1. PICK did \in SUBSET Sends!Request :
                 Sends!Arrive(did) /\ \E some \in SUBSET did : Sends!Answered(some)
          BY <3>1 DEF Sends!ExecPipeline
        <4>2. PICK some \in SUBSET did : Sends!Answered(some)
          BY <4>1
        <4> QED BY <3>1, <4>1, <4>2 DEF Sends!ExecPipeline
      <3>2. CASE Sends!SendRequest
        BY <3>2 DEF Sends!SendRequest
      <3> QED BY <1>4, <3>1, <3>2
    <2>3. service' = service /\ entries' = entries /\ ~Sends!Chunked'
      BY <2>1, <2>2 DEF Sends!Answered, Sends!Chunked
    <2>4. Behind = {} /\ Behind' = DOMAIN entries /\ Sends!Chunk = DOMAIN entries
      BY <2>1, <2>3 DEF Behind, Sends!Chunk
    <2>5. at' \in Nat \ {0}
      BY <1>0, <2>1 DEF SendTypeOK
    <2> QED BY <2>1, <2>2, <2>4, <2>5, AnswerStep
  <1>5. CASE Sends!RequestFails
    BY <1>5, SendThrows
  <1>6. CASE Sends!Return
    BY <1>6, SendReturns
  <1>7. CASE Sends!Again
    BY <1>7, SendAgain
  <1>8. CASE UNCHANGED Sends!vars
    BY <1>8, SendFrame DEF Sends!vars, Sends!call
  <1> QED BY <1>1, <1>2, <1>3, <1>4, <1>5, <1>6, <1>7, <1>8 DEF Sends!Next

LEMMA SendMeans == ASSUME SendInv PROVE Sends!AllAccounted
  <1>1. SendTypeOK
    BY DEF SendInv
  <1>2. ASSUME pc = "result"
        PROVE  /\ Sends!IsInjective(successful \o failed)
               /\ Sends!ToSet(successful) \cup Sends!ToSet(failed) = Sends!ToSet(entries)
               /\ \A e \in Sends!ToSet(successful) : arrived[e] > 0
    <2>1. Accounts
      BY <1>2 DEF SendInv
    <2>2. IsInjective(successful \o failed)
      BY <1>1, <2>1, Joined DEF Accounts, SendTypeOK
    <2>3. \A k \in DOMAIN entries : k \in Behind
      <3>1. DOMAIN entries = 1..Len(entries) /\ at \in Nat /\ Len(entries) \in Nat
        BY <1>1 DEF SendTypeOK
      <3>2. Sends!Chunked => at > Len(entries)
        BY <1>2 DEF SendInv
      <3>3. Sends!Chunked => \A k \in DOMAIN entries : k < at
        BY <3>1, <3>2
      <3> QED BY <1>2, <3>3 DEF Behind
    <2>4. Behind = DOMAIN entries
      BY <2>3 DEF Behind
    <2>5. ToSet(successful) \cup ToSet(failed) = ToSet(entries)
      BY <2>1, <2>4 DEF Accounts, ToSet
    <2> QED BY <2>1, <2>2, <2>5, SameWords DEF Accounts
  <1>3. ASSUME ~threw, ~Sends!Pipelined, NEW e \in DOMAIN arrived PROVE arrived[e] <= 1
    BY <1>1, <1>3 DEF SendInv, SendTypeOK, SentOnce
  <1> QED BY <1>2, <1>3 DEF Sends!AllAccounted, SendInv

(* A batch's result accounts for each entry, and resending what failed     *)
(* sends nothing twice, for any number of entries, chunks and rounds.      *)
THEOREM AccountedCorrect ==
  ASSUME Sized PROVE Sends!Spec => []Sends!AllAccounted
  <1>1. Sends!Init => SendInv
    BY SendInit
  <1>2. SendInv /\ [Sends!Next]_Sends!vars => SendInv'
    BY SendStep
  <1>3. SendInv => Sends!AllAccounted
    BY SendMeans
  <1> QED BY <1>1, <1>2, <1>3, PTL DEF Sends!Spec

-----------------------------------------------------------------------------
(* Listings.                                                               *)
CONSTANTS Item, Listing, Queried, Kept, Rejected, Meant, MaxPage, MaxLeaves
VARIABLES listing, table, cursor, start, page, next, got, stayed, leaves
Pages == INSTANCE Listings

(* The items are numbered and finitely many, and a limit is at least 1.    *)
Numbered ==
    /\ Item \in SUBSET Nat /\ IsFiniteSet(Item)
    /\ \A o \in Listing : o.limit = <<>> \/ o.limit[1] \in Nat \ {0}
    /\ MaxPage \in Nat

(* A place in the listing: its beginning, or behind an item.               *)
Mark == {<<>>} \cup {<<i>> : i \in Item}
UpTo(mark, i) == mark # <<>> /\ i <= mark[1]
Selected == Queried[listing] \cap Kept[listing]

ListTyped ==
    /\ listing \in Listing
    /\ table \in SUBSET Item /\ stayed \in SUBSET table /\ page \in SUBSET Item
    /\ cursor \in Mark /\ start \in Mark /\ next \in Mark
    /\ pc \in {"idle", "fetch", "page", "held", "done"}
    /\ got \in [Item -> Nat]
    /\ leaves \in Nat

(* Only what is selected is read and given, and nothing is when the store  *)
(* refuses.                                                                *)
OnlySelected ==
    /\ \A i \in Item : got[i] > 0 => i \in Selected /\ listing \notin Rejected
    /\ page \subseteq Selected
    /\ pc \in {"page", "held", "done"} => listing \notin Rejected
    /\ pc \notin {"page", "held"} => page = {}

(* What is behind the cursor, and what is behind the page's start or, but  *)
(* for the rest of the page, its end, has been given.                      *)
Covered ==
    /\ \A i \in stayed \cap Selected :
          /\ UpTo(cursor, i) => got[i] > 0
          /\ pc = "fetch" /\ UpTo(start, i) => got[i] > 0
          /\ pc \in {"page", "held"} /\ (next = <<>> \/ UpTo(next, i)) => got[i] > 0 \/ i \in page
          /\ pc = "done" => got[i] > 0
    /\ \A i \in page : next = <<>> \/ UpTo(next, i)

(* S3: what was given is behind the cursor, and what is to come is not.    *)
Once ==
    Pages!S3 =>
        /\ \A i \in Item : got[i] <= 1 /\ (got[i] > 0 => pc = "done" \/ UpTo(cursor, i))
        /\ \A i \in page : ~UpTo(cursor, i)
        /\ cursor # <<>> /\ pc = "fetch" => UpTo(start, cursor[1])
        /\ cursor # <<>> /\ pc \in {"page", "held"} /\ next # <<>> => UpTo(next, cursor[1])
        /\ pc = "held" => cursor # <<>>

(* DynamoDB: what is to come was given once per leave at most.             *)
OncePerLeave ==
    ~Pages!S3 =>
        /\ \A i \in Item :
              /\ got[i] <= 1 + leaves
              /\ pc \in {"idle", "fetch"} /\ ~UpTo(cursor, i) => got[i] <= leaves
              /\ pc \in {"page", "held"} /\ next # <<>> /\ ~UpTo(next, i) => got[i] <= leaves
        /\ \A i \in page : got[i] <= leaves
        /\ pc = "fetch" => start = cursor

ListInv == ListTyped /\ OnlySelected /\ Covered /\ Once /\ OncePerLeave

LEMMA SamePages ==
  ASSUME NEW S
  PROVE  /\ Pages!Cardinality(S) = Cardinality(S)
         /\ Pages!Min(S) = CHOOSE x \in S : \A y \in S : x <= y
         /\ Pages!Max(S) = CHOOSE x \in S : \A y \in S : x >= y
  <1>1. Pages!Cardinality(S) = Cardinality(S)
    BY Zenon DEF Pages!Cardinality, Cardinality
  <1>2. Pages!Min(S) = CHOOSE x \in S : \A y \in S : x <= y
    BY Zenon DEF Pages!Min
  <1>3. Pages!Max(S) = CHOOSE x \in S : \A y \in S : x >= y
    BY Zenon DEF Pages!Max
  <1> QED BY <1>1, <1>2, <1>3

(* The least and the greatest of some items.                               *)
LEMMA LeastOf ==
  ASSUME NEW S \in SUBSET Nat, S # {}
  PROVE  Pages!Min(S) \in S /\ \A y \in S : Pages!Min(S) <= y
  <1>1. PICK m \in S : \A e \in S : ~(<<e, m>> \in OpToRel(<, Nat))
    BY NatLessThanWellFounded, WFMin
  <1>2. \A e \in S : ~(e < m)
    BY <1>1 DEF OpToRel
  <1>3. \A e \in S : m <= e
    BY <1>2
  <1> QED BY <1>3, SamePages

LEMMA GreatestOf ==
  ASSUME Numbered, NEW S \in SUBSET Item, S # {}
  PROVE  Pages!Max(S) \in S /\ \A y \in S : Pages!Max(S) >= y
  <1> DEFINE Above(x) == {j \in S : j > x}
  <1> DEFINE Counts == {Cardinality(Above(x)) : x \in S}
  <1>1. S \in SUBSET Nat /\ IsFiniteSet(S)
    <2>1. IsFiniteSet(S)
      BY FS_Subset DEF Numbered
    <2> QED BY <2>1 DEF Numbered
  <1>0. \A a \in S, b \in S, c \in S : (a < b /\ b < c => a < c) /\ (a > b /\ b > c => a > c)
                                       /\ (a < b \/ a = b \/ b < a) /\ ~(a < a) /\ (a < b <=> b > a)
                                       /\ (a <= b <=> ~(b < a))
    BY <1>1
  <1>2. \A x \in S : IsFiniteSet(Above(x)) /\ Cardinality(Above(x)) \in Nat
    <2> TAKE x \in S
    <2>1. Above(x) \in SUBSET S
      OBVIOUS
    <2>2. IsFiniteSet(Above(x))
      BY <1>1, <2>1, FS_Subset
    <2> HIDE DEF Above
    <2> QED BY <2>2, FS_CardinalityType
  <1>3. Counts \in SUBSET Nat /\ Counts # {}
    <2> HIDE DEF Above
    <2> QED BY <1>2
  <1>4. PICK c : c \in Counts /\ \A d \in Counts : c <= d
    <2> HIDE DEF Counts
    <2> QED BY <1>3, LeastOf
  <1>5. PICK x \in S : c = Cardinality(Above(x))
    <2> HIDE DEF Above
    <2> QED BY <1>4
  <1>6. ASSUME NEW y \in S, y > x PROVE FALSE
    <2>1. Above(y) \in SUBSET Above(x)
      BY <1>0, <1>6
    <2>2. y \in Above(x) /\ y \notin Above(y)
      BY <1>0, <1>6
    <2>3. Cardinality(Above(y)) < Cardinality(Above(x))
      <3> HIDE DEF Above
      <3>1. Cardinality(Above(y)) <= Cardinality(Above(x))
        BY <1>2, <2>1, FS_Subset
      <3>2. Cardinality(Above(y)) # Cardinality(Above(x))
        BY <1>2, <2>1, <2>2, FS_Subset
      <3> QED BY <1>2, <3>1, <3>2
    <2>4. c <= Cardinality(Above(y))
      <3> HIDE DEF Above
      <3> QED BY <1>4
    <2>5. c \in Nat /\ Cardinality(Above(y)) \in Nat
      <3> HIDE DEF Above
      <3> QED BY <1>2, <1>5
    <2> HIDE DEF Above
    <2> QED BY <1>5, <2>3, <2>4, <2>5
  <1>7. \A y \in S : x >= y
    BY <1>0, <1>6
  <1> QED BY <1>7, SamePages

(* A page takes the first of the items ahead, and as many as it may unless *)
(* it takes them all.                                                      *)
LEMMA FirstTaken ==
  ASSUME Numbered, NEW S \in SUBSET Item, NEW n \in Nat \ {0},
         NEW read, read = Pages!FirstOf(n, S)
  PROVE  /\ read \subseteq S
         /\ \A i \in read, j \in S : j < i => j \in read
         /\ S # {} => read # {}
         /\ read # S => Cardinality(read) = n
  <1> DEFINE Below(x) == {j \in S : j < x}
  <1>1. S \in SUBSET Nat /\ IsFiniteSet(S)
    <2>1. IsFiniteSet(S)
      BY FS_Subset DEF Numbered
    <2> QED BY <2>1 DEF Numbered
  <1>0. \A a \in S, b \in S, c \in S : (a < b /\ b < c => a < c) /\ (a > b /\ b > c => a > c)
                                       /\ (a < b \/ a = b \/ b < a) /\ ~(a < a) /\ (a < b <=> b > a)
                                       /\ (a <= b <=> ~(b < a))
    BY <1>1
  <1>2. read = {i \in S : Cardinality(Below(i)) < n}
    BY SamePages DEF Pages!FirstOf
  <1>3. \A x \in S : IsFiniteSet(Below(x)) /\ Cardinality(Below(x)) \in Nat
    <2> TAKE x \in S
    <2>1. Below(x) \in SUBSET S
      OBVIOUS
    <2>2. IsFiniteSet(Below(x))
      BY <1>1, <2>1, FS_Subset
    <2> HIDE DEF Below
    <2> QED BY <2>2, FS_CardinalityType
  <1>4. read \subseteq S
    <2> HIDE DEF Below
    <2> QED BY <1>2
  <1>5. ASSUME NEW i \in read, NEW j \in S, j < i PROVE j \in read
    <2>1. Below(j) \in SUBSET Below(i)
      BY <1>0, <1>4, <1>5
    <2> HIDE DEF Below
    <2>2. Cardinality(Below(j)) <= Cardinality(Below(i))
      BY <1>3, <1>4, <2>1, FS_Subset
    <2>3. Cardinality(Below(i)) < n
      BY <1>2
    <2> QED BY <1>2, <1>3, <1>4, <2>2, <2>3
  <1>6. ASSUME S # {} PROVE read # {}
    <2>1. PICK m \in S : \A y \in S : m <= y
      BY <1>1, <1>6, LeastOf
    <2>2. Below(m) = {}
      BY <1>0, <2>1
    <2> HIDE DEF Below
    <2>3. Cardinality(Below(m)) = 0
      BY <2>2, FS_EmptySet
    <2> QED BY <1>2, <2>3
  <1>7. ASSUME read # S PROVE Cardinality(read) = n
    <2>1. S \ read # {} /\ S \ read \in SUBSET Nat
      BY <1>1, <1>4, <1>7
    <2>2. PICK i \in S \ read : \A y \in S \ read : i <= y
      BY <2>1, LeastOf
    <2>3. read = Below(i)
      BY <1>0, <1>4, <1>5, <2>2
    <2>4. IsFiniteSet(read) /\ Cardinality(read) \in Nat /\ ~(Cardinality(read) < n)
      <3> HIDE DEF Below
      <3> QED BY <1>2, <1>3, <2>2, <2>3
    <2>5. read # {} /\ read \in SUBSET Item
      BY <1>4, <1>6, <2>2
    <2>6. PICK r \in read : \A y \in read : r >= y
      BY <2>5, GreatestOf
    <2>7. Below(r) = read \ {r}
      BY <1>0, <1>4, <1>5, <2>6
    <2> HIDE DEF Below
    <2>8. Cardinality(read \ {r}) = Cardinality(read) - 1
      BY <2>4, FS_RemoveElement
    <2>9. Cardinality(read \ {r}) < n
      BY <1>2, <2>6, <2>7
    <2> QED BY <2>4, <2>8, <2>9
  <1> HIDE DEF Below
  <1> QED BY <1>4, <1>5, <1>6, <1>7

(* The invariant holds at the start and each action keeps it.              *)
LEMMA ListInit ==
  ASSUME Numbered, Pages!Init
  PROVE  ListInv
  <1>1. ListTyped
    BY DEF Pages!Init, ListTyped, Mark
  <1>2. OnlySelected /\ Covered /\ Once /\ OncePerLeave
    BY DEF Pages!Init, OnlySelected, Covered, Once, OncePerLeave, UpTo, Numbered
  <1> QED BY <1>1, <1>2 DEF ListInv

LEMMA ListIterate ==
  ASSUME Numbered, ListInv, Pages!Iterate
  PROVE  ListInv'
  <1> USE DEF ListInv
  <1>1. ListTyped'
    BY DEF Pages!Iterate, ListTyped, Mark, Numbered
  <1>2. OnlySelected'
    BY DEF Pages!Iterate, ListTyped, OnlySelected, Selected
  <1>3. Covered'
    BY DEF Pages!Iterate, ListTyped, OnlySelected, Covered, Selected, UpTo, Mark
  <1>4. Once'
    BY DEF Pages!Iterate, ListTyped, OnlySelected, Covered, Once, Pages!S3, UpTo, Mark, Numbered
  <1>5. OncePerLeave'
    BY DEF Pages!Iterate, ListTyped, OnlySelected, Covered, OncePerLeave, Pages!S3, UpTo, Mark, Numbered
  <1> QED BY <1>1, <1>2, <1>3, <1>4, <1>5

LEMMA ListFetchFails ==
  ASSUME Numbered, ListInv, Pages!FetchFails
  PROVE  ListInv'
  <1> USE DEF ListInv
  <1>1. ListTyped'
    BY DEF Pages!FetchFails, ListTyped, Mark, Numbered
  <1>2. OnlySelected'
    BY DEF Pages!FetchFails, ListTyped, OnlySelected, Selected
  <1>3. Covered'
    BY DEF Pages!FetchFails, ListTyped, OnlySelected, Covered, Selected, UpTo, Mark
  <1>4. Once'
    BY DEF Pages!FetchFails, ListTyped, OnlySelected, Covered, Once, Pages!S3, UpTo, Mark, Numbered
  <1>5. OncePerLeave'
    BY DEF Pages!FetchFails, ListTyped, OnlySelected, Covered, OncePerLeave, Pages!S3, UpTo, Mark, Numbered
  <1> QED BY <1>1, <1>2, <1>3, <1>4, <1>5

LEMMA ListLeave ==
  ASSUME Numbered, ListInv, Pages!Leave
  PROVE  ListInv'
  <1> USE DEF ListInv
  <1>1. ListTyped'
    BY DEF Pages!Leave, ListTyped, Mark, Numbered
  <1>2. OnlySelected'
    BY DEF Pages!Leave, ListTyped, OnlySelected, Selected
  <1>3. Covered'
    BY DEF Pages!Leave, ListTyped, OnlySelected, Covered, Selected, UpTo, Mark
  <1>4. Once'
    BY DEF Pages!Leave, ListTyped, OnlySelected, Covered, Once, Pages!S3, UpTo, Mark, Numbered
  <1>5. OncePerLeave'
    BY DEF Pages!Leave, ListTyped, OnlySelected, Covered, OncePerLeave, Pages!S3, UpTo, Mark, Numbered
  <1> QED BY <1>1, <1>2, <1>3, <1>4, <1>5

LEMMA ListChange ==
  ASSUME Numbered, ListInv, Pages!Change
  PROVE  ListInv'
  <1> USE DEF ListInv
  <1>1. ListTyped'
    BY DEF Pages!Change, ListTyped, Mark, Numbered
  <1>2. OnlySelected'
    BY DEF Pages!Change, ListTyped, OnlySelected, Selected
  <1>3. Covered'
    BY DEF Pages!Change, ListTyped, OnlySelected, Covered, Selected, UpTo, Mark
  <1>4. Once'
    BY DEF Pages!Change, ListTyped, OnlySelected, Covered, Once, Pages!S3, UpTo, Mark, Numbered
  <1>5. OncePerLeave'
    BY DEF Pages!Change, ListTyped, OnlySelected, Covered, OncePerLeave, Pages!S3, UpTo, Mark, Numbered
  <1> QED BY <1>1, <1>2, <1>3, <1>4, <1>5

LEMMA ListEndPage ==
  ASSUME Numbered, ListInv, Pages!EndPage
  PROVE  ListInv'
  <1> USE DEF ListInv
  <1>1. ListTyped'
    BY DEF Pages!EndPage, ListTyped, Mark, Numbered
  <1>2. OnlySelected'
    BY DEF Pages!EndPage, ListTyped, OnlySelected, Selected
  <1>3. Covered'
    BY DEF Pages!EndPage, ListTyped, OnlySelected, Covered, Selected, UpTo, Mark
  <1>4. Once'
    BY DEF Pages!EndPage, ListTyped, OnlySelected, Covered, Once, Pages!S3, UpTo, Mark, Numbered
  <1>5. OncePerLeave'
    BY DEF Pages!EndPage, ListTyped, OnlySelected, Covered, OncePerLeave, Pages!S3, UpTo, Mark, Numbered
  <1> QED BY <1>1, <1>2, <1>3, <1>4, <1>5

(* What a page holds, and what the mark at its end says.                   *)
LEMMA PageRead ==
  ASSUME Numbered, ListInv, Pages!FetchPage
  PROVE  \E read \in SUBSET Item :
            /\ read = {i \in read : i \in table /\ i \in Queried[listing]
                                     /\ (start = <<>> \/ i > start[1])}
            /\ page' = read \cap Kept[listing]
            /\ next' = <<>> =>
                  \A i \in table \cap Queried[listing] : start = <<>> \/ i > start[1] => i \in read
            /\ next' # <<>> =>
                  \E m \in read :
                     /\ next' = <<m>> /\ \A y \in read : y <= m
                     /\ \A i \in table \cap Queried[listing] :
                           (start = <<>> \/ i > start[1]) /\ i < m => i \in read
  <1>1. PICK n \in IF listing.limit = <<>> THEN 1 .. MaxPage ELSE {listing.limit[1]} :
              /\ page' = Pages!FirstOf(n, Pages!Ahead) \cap Kept[listing]
              /\ next' = Pages!Rest(Pages!FirstOf(n, Pages!Ahead), n)
    BY DEF Pages!FetchPage
  <1>2. n \in Nat \ {0}
    BY <1>1 DEF ListInv, ListTyped, Numbered
  <1>3. PICK ahead : ahead = Pages!Ahead
    OBVIOUS
  <1>4. ahead = {i \in table : i \in Queried[listing] /\ (start = <<>> \/ i > start[1])}
    BY <1>3 DEF Pages!Ahead, Pages!After
  <1>5. ahead \in SUBSET Item
    BY <1>4 DEF ListInv, ListTyped
  <1>6. PICK read : read = Pages!FirstOf(n, ahead)
    OBVIOUS
  <1>7. /\ read \subseteq ahead
        /\ \A i \in read, j \in ahead : j < i => j \in read
        /\ ahead # {} => read # {}
        /\ read # ahead => Cardinality(read) = n
    BY <1>2, <1>5, <1>6, FirstTaken
  <1>8. read \in SUBSET Item
    BY <1>5, <1>7
  <1>9. read # {} => Pages!Max(read) \in read /\ \A y \in read : Pages!Max(read) >= y
    BY <1>8, GreatestOf
  <1>10. page' = read \cap Kept[listing]
    BY <1>1, <1>3, <1>6
  <1>11. next' = IF read # {} /\ (IF Pages!S3 THEN read # ahead ELSE Cardinality(read) = n)
                 THEN <<Pages!Max(read)>> ELSE <<>>
    BY <1>1, <1>3, <1>6, SamePages DEF Pages!Rest
  <1>12. CASE next' = <<>>
    <2>1. ASSUME read # ahead PROVE FALSE
      <3>1. read # {} /\ Cardinality(read) = n
        BY <1>7, <2>1
      <3>2. next' = <<Pages!Max(read)>>
        BY <1>11, <2>1, <3>1
      <3> QED BY <1>12, <3>2
    <2> QED BY <1>4, <1>7, <1>8, <1>10, <1>12, <2>1
  <1>13. CASE next' # <<>>
    <2>1. PICK m \in read : next' = <<m>> /\ \A y \in read : m >= y
      BY <1>9, <1>11, <1>13
    <2>2. \A y \in read : y <= m
      BY <1>8, <2>1 DEF Numbered
    <2>3. \A i \in ahead : i < m => i \in read
      BY <1>7, <2>1
    <2> QED BY <1>4, <1>7, <1>8, <1>10, <1>13, <2>1, <2>2, <2>3
  <1> QED BY <1>12, <1>13

LEMMA ListFetchPage ==
  ASSUME Numbered, ListInv, Pages!FetchPage
  PROVE  ListInv'
  <1> USE DEF ListInv
  <1>0. PICK read \in SUBSET Item :
            /\ read = {i \in read : i \in table /\ i \in Queried[listing]
                                     /\ (start = <<>> \/ i > start[1])}
            /\ page' = read \cap Kept[listing]
            /\ next' = <<>> =>
                  \A i \in table \cap Queried[listing] : start = <<>> \/ i > start[1] => i \in read
            /\ next' # <<>> =>
                  \E m \in read :
                     /\ next' = <<m>> /\ \A y \in read : y <= m
                     /\ \A i \in table \cap Queried[listing] :
                           (start = <<>> \/ i > start[1]) /\ i < m => i \in read
    BY PageRead
  <1>a. /\ pc = "fetch" /\ pc' = "page" /\ listing \notin Rejected
        /\ UNCHANGED <<listing, table, cursor, start, got, stayed, leaves, changes>>
    BY DEF Pages!FetchPage
  <1>1. ListTyped'
    BY <1>0, <1>a DEF ListTyped, Mark, Numbered
  <1>2. OnlySelected'
    BY <1>0, <1>a DEF ListTyped, OnlySelected, Selected
  <1>3. Covered'
    BY <1>0, <1>a DEF ListTyped, OnlySelected, Covered, Selected, UpTo, Mark, Numbered
  <1>4. Once'
    BY <1>0, <1>a DEF ListTyped, OnlySelected, Covered, Once, Pages!S3, UpTo, Mark, Numbered
  <1>5. OncePerLeave'
    BY <1>0, <1>a DEF ListTyped, OnlySelected, Covered, OncePerLeave, Pages!S3, UpTo, Mark, Numbered
  <1> QED BY <1>1, <1>2, <1>3, <1>4, <1>5

LEMMA ListYield ==
  ASSUME Numbered, ListInv, Pages!Yield
  PROVE  ListInv'
  <1> USE DEF ListInv
  <1>0. PICK h \in page : h \in Item /\ (\A y \in page : h <= y)
              /\ cursor' = (IF Pages!S3 THEN <<h>> ELSE cursor)
              /\ got' = [got EXCEPT ![h] = @ + 1]
              /\ page' = page \ {h}
    <2>1. page \in SUBSET Nat /\ page # {}
      BY DEF Pages!Yield, ListTyped, Numbered
    <2>2. PICK h : h = Pages!Min(page)
      OBVIOUS
    <2>3. h \in page /\ \A y \in page : h <= y
      BY <2>1, <2>2, LeastOf
    <2> QED BY <2>2, <2>3 DEF Pages!Yield, ListTyped
  <1>a. /\ pc \in {"page", "held"} /\ pc' = "held"
        /\ UNCHANGED <<listing, table, start, next, stayed, leaves, changes>>
    BY DEF Pages!Yield
  <1>1. ListTyped'
    BY <1>0, <1>a DEF ListTyped, Mark, Numbered
  <1>2. OnlySelected'
    BY <1>0, <1>a DEF ListTyped, OnlySelected, Selected
  <1>3. Covered'
    BY <1>0, <1>a DEF ListTyped, OnlySelected, Covered, Selected, UpTo, Mark, Numbered
  <1>4. Once'
    <2> SUFFICES ASSUME Pages!S3 PROVE Once'
      BY <1>a DEF Once, Pages!S3
    <2>0. cursor' = <<h>> /\ cursor'[1] = h
      BY <1>0
    <2>1. got[h] = 0 /\ ~UpTo(cursor, h)
      BY <1>0, <1>a DEF Once, ListTyped
    <2>2. \A i \in Item : i \in Nat
      BY DEF Numbered
    <2>3. ASSUME NEW i \in Item PROVE got'[i] <= 1 /\ (got'[i] > 0 => i <= h)
      <3>1. CASE i = h
        BY <1>0, <2>1, <2>2, <3>1 DEF ListTyped
      <3>2. CASE i # h
        <4>1. got'[i] = got[i]
          BY <1>0, <3>2 DEF ListTyped
        <4>2. got[i] <= 1 /\ (got[i] > 0 => UpTo(cursor, i))
          BY <1>a DEF Once
        <4> QED BY <2>1, <2>2, <4>1, <4>2 DEF UpTo, ListTyped, Mark
      <3> QED BY <3>1, <3>2
    <2>4. \A i \in page' : ~(i <= h)
      BY <1>0, <2>2 DEF ListTyped
    <2>5. next # <<>> => UpTo(next, h)
      BY <1>0 DEF Covered
    <2> QED BY <1>a, <2>0, <2>3, <2>4, <2>5 DEF Once, UpTo
  <1>5. OncePerLeave'
    BY <1>0, <1>a DEF ListTyped, OnlySelected, Covered, OncePerLeave, Pages!S3, UpTo, Mark, Numbered
  <1> QED BY <1>1, <1>2, <1>3, <1>4, <1>5

LEMMA ListNext ==
  ASSUME Numbered, ListInv, Pages!Next
  PROVE  ListInv'
  BY ListIterate, ListFetchPage, ListFetchFails, ListYield, ListEndPage, ListLeave, ListChange
  DEF Pages!Next

LEMMA ListStutter ==
  ASSUME ListInv, UNCHANGED Pages!vars
  PROVE  ListInv'
  BY DEF Pages!vars, ListInv, ListTyped, OnlySelected, Covered, Once, OncePerLeave, Selected, UpTo,
         Pages!S3, Mark

LEMMA ListAlways ==
  ASSUME Numbered
  PROVE  Pages!Spec => []ListInv
  <1>1. ASSUME Pages!Init PROVE ListInv
    BY <1>1, ListInit
  <1>2. ASSUME ListInv, [Pages!Next]_Pages!vars PROVE ListInv'
    BY <1>2, ListNext, ListStutter
  <1> QED BY <1>1, <1>2, PTL DEF Pages!Spec

(* What the invariant says of a listing that is through or left: with      *)
(* expressions that select what is meant, ListedInFull.                    *)
THEOREM ListedCorrect ==
  ASSUME Numbered, Pages!SelectsMeant
  PROVE  Pages!Spec => []Pages!ListedInFull
  <1>1. ASSUME ListInv PROVE Pages!ListedInFull
    <2> USE <1>1 DEF ListInv
    <2>1. listing \notin Rejected => Selected = Meant[listing]
      BY DEF Pages!SelectsMeant, Selected, ListTyped
    <2>2. ASSUME pc = "done", NEW i \in stayed \cap Meant[listing] PROVE got[i] > 0
      BY <2>1, <2>2 DEF OnlySelected, Covered
    <2>3. ASSUME NEW i \in Item, got[i] > 0 PROVE i \in Meant[listing]
      BY <2>1, <2>3 DEF OnlySelected
    <2>4. Pages!S3 => (\A i \in Item : got[i] <= 1) /\ (pc = "held" => cursor # <<>>)
      BY DEF Once
    <2> QED BY <2>2, <2>3, <2>4 DEF Pages!ListedInFull
  <1> QED BY <1>1, ListAlways, PTL

(* A table's cursor does not resume exactly (ResumesExactly is refuted),   *)
(* but an item is given again once for each time the loop was left at      *)
(* most, whatever the pages and however the table changes.                 *)
THEOREM RepeatsBounded ==
  ASSUME Numbered
  PROVE  Pages!Spec => [](\A i \in Item : got[i] <= 1 + leaves)
  <1>1. ASSUME ListInv PROVE \A i \in Item : got[i] <= 1 + leaves
    <2>1. ASSUME NEW i \in Item PROVE got[i] <= 1 + leaves
      BY <1>1 DEF ListInv, ListTyped, Once, OncePerLeave
    <2> QED BY <2>1
  <1> QED BY <1>1, ListAlways, PTL

=============================================================================
