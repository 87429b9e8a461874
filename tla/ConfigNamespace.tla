--------------------------- MODULE ConfigNamespace ---------------------------
(***************************************************************************)
(* One config namespace (packages/config/src/config-service.ts,            *)
(* ConfigNamespaceImpl): fetched on first access, then served from memory  *)
(* and refreshed in the background by accesses that find it stale.         *)
(*                                                                         *)
(* The backing store is a version counter that others move forward.  A     *)
(* fetch is sent, reads the store at some moment, and its answer arrives   *)
(* later; fetches overlap and are answered in any order.  Time is kept as  *)
(* ages, saturating where the code stops telling them apart: an age that   *)
(* has reached RefreshInterval is stale however old it is.                 *)
(***************************************************************************)
EXTENDS NamespaceConstants

Unloaded == -1                  \* `values` is null

(* Ages beyond this are all alike.                                         *)
Oldest == RefreshInterval + Latency + 1
Older(n, cap) == IF n < cap THEN n + 1 ELSE cap

VARIABLES
  version,      \* the version the backing store holds
  values,       \* the version in memory, or Unloaded
  readAge,      \* how long ago the version in memory was read from the store
  fetchedAge,   \* now - lastFetchedAt
  fetch,        \* slot -> the fetch in flight
  reader        \* reader -> what its last get did

vars == <<version, values, readAge, fetchedAge, fetch, reader>>

NoFetch == [pc |-> "free", for |-> "none", age |-> 0, seen |-> 0, seenAge |-> 0]
Pc == {"free", "sent", "read"}
Slot == [pc: Pc, for: Reader \cup {"none"}, age: 0..Latency,
         seen: 0..MaxVersion, seenAge: 0..Latency]

Init ==
  /\ version = 0
  /\ values = Unloaded
  /\ readAge = 0
  /\ fetchedAge = 0
  /\ fetch = [r \in Fetch |-> NoFetch]
  /\ reader = [c \in Reader |-> [pc |-> "idle", got |-> Unloaded]]

-----------------------------------------------------------------------------
(* ensureLoaded.                                                           *)

IsStale == Refreshing /\ values # Unloaded /\ fetchedAge >= RefreshInterval

(* Calls of ensureLoaded take their fetch from a free slot; `for` is the   *)
(* reader that awaits it, or "none" for a background refresh.              *)
Send(r, for) ==
  /\ fetch[r].pc = "free"
  /\ fetch' = [fetch EXCEPT ![r] = [pc |-> "sent", for |-> for,
                                    age |-> 0, seen |-> 0, seenAge |-> 0]]

Answered(c, v) == reader' = [reader EXCEPT ![c] = [pc |-> "idle", got |-> v]]

(* The first access awaits the fetch; every access that finds `values`     *)
(* null sends one of its own.                                              *)
FirstGet(c, r) ==
  /\ reader[c].pc = "idle"
  /\ values = Unloaded
  /\ Send(r, c)
  /\ reader' = [reader EXCEPT ![c].pc = "waiting"]
  /\ UNCHANGED <<version, values, readAge, fetchedAge>>

FreshGet(c) ==
  /\ reader[c].pc = "idle"
  /\ values # Unloaded
  /\ ~IsStale
  /\ Answered(c, values)
  /\ UNCHANGED <<version, values, readAge, fetchedAge, fetch>>

(* A stale value is served at once and a refresh goes on in the background.*)
StaleGet(c, r) ==
  /\ reader[c].pc = "idle"
  /\ IsStale
  /\ Send(r, "none")
  /\ Answered(c, values)
  /\ UNCHANGED <<version, values, readAge, fetchedAge>>

(* The first fetch arrives: lastFetchedAt is the time of the call, and the *)
(* caller is given what is in memory now.                                  *)
Loaded(r) ==
  /\ fetch[r].pc = "read" /\ fetch[r].for \in Reader
  /\ values' = fetch[r].seen
  /\ readAge' = fetch[r].seenAge
  /\ fetchedAge' = IF fetch[r].age < RefreshInterval THEN fetch[r].age ELSE RefreshInterval
  /\ Answered(fetch[r].for, fetch[r].seen)
  /\ fetch' = [fetch EXCEPT ![r] = NoFetch]
  /\ UNCHANGED version

(* Seeded fault: the error of a first fetch is swallowed, not thrown.      *)
LoadFailedSilently(r) ==
  /\ fetch[r].pc # "free" /\ fetch[r].for \in Reader
  /\ fetch' = [fetch EXCEPT ![r] = NoFetch]
  /\ UNCHANGED <<version, values, readAge, fetchedAge, reader>>

(* The first fetch fails: the error is the caller's, nothing is cached.    *)
LoadFailed(r) ==
  /\ fetch[r].pc # "free" /\ fetch[r].for \in Reader
  /\ reader' = [reader EXCEPT ![fetch[r].for].pc = "idle"]
  /\ fetch' = [fetch EXCEPT ![r] = NoFetch]
  /\ UNCHANGED <<version, values, readAge, fetchedAge>>

(* Seeded fault: the refreshed values are dropped.                         *)
RefreshedStampOnly(r) ==
  /\ fetch[r].pc = "read" /\ fetch[r].for = "none"
  /\ fetchedAge' = 0
  /\ fetch' = [fetch EXCEPT ![r] = NoFetch]
  /\ UNCHANGED <<version, values, readAge, reader>>

(* A background refresh arrives: lastFetchedAt is the time of arrival.     *)
Refreshed(r) ==
  /\ fetch[r].pc = "read" /\ fetch[r].for = "none"
  /\ values' = fetch[r].seen
  /\ readAge' = fetch[r].seenAge
  /\ fetchedAge' = 0
  /\ fetch' = [fetch EXCEPT ![r] = NoFetch]
  /\ UNCHANGED <<version, reader>>

(* Seeded fault: a failed refresh empties the cache.                       *)
RefreshFailedUnloads(r) ==
  /\ fetch[r].pc # "free" /\ fetch[r].for = "none"
  /\ values' = Unloaded
  /\ fetch' = [fetch EXCEPT ![r] = NoFetch]
  /\ UNCHANGED <<version, readAge, fetchedAge, reader>>

(* A background refresh fails: the stale values stay, and so does their    *)
(* stamp, so the next access tries again.                                  *)
RefreshFailed(r) ==
  /\ fetch[r].pc # "free" /\ fetch[r].for = "none"
  /\ fetch' = [fetch EXCEPT ![r] = NoFetch]
  /\ UNCHANGED <<version, values, readAge, fetchedAge, reader>>

-----------------------------------------------------------------------------
(* The backing store and the clock.                                        *)

Publish ==
  /\ version < MaxVersion
  /\ version' = version + 1
  /\ UNCHANGED <<values, readAge, fetchedAge, fetch, reader>>

Read(r) ==
  /\ fetch[r].pc = "sent"
  /\ fetch' = [fetch EXCEPT ![r] = [pc |-> "read", for |-> fetch[r].for,
                                    age |-> fetch[r].age, seen |-> version, seenAge |-> 0]]
  /\ UNCHANGED <<version, values, readAge, fetchedAge, reader>>

Aged(q) ==
  [pc |-> q.pc, for |-> q.for, seen |-> q.seen,
   age |-> IF q.pc = "free" THEN q.age ELSE q.age + 1,
   seenAge |-> IF q.pc = "read" THEN q.seenAge + 1 ELSE q.seenAge]

Tick ==
  /\ \A r \in Fetch : fetch[r].pc # "free" => fetch[r].age < Latency
  /\ fetch' = [r \in Fetch |-> Aged(fetch[r])]
  /\ readAge' = IF values = Unloaded THEN 0 ELSE Older(readAge, Oldest)
  /\ fetchedAge' = IF values = Unloaded THEN 0 ELSE Older(fetchedAge, RefreshInterval)
  /\ UNCHANGED <<version, values, reader>>

-----------------------------------------------------------------------------
Get(c) == FreshGet(c) \/ \E r \in Fetch : FirstGet(c, r) \/ StaleGet(c, r)
Settle(r) == Loaded(r) \/ LoadFailed(r) \/ Refreshed(r) \/ RefreshFailed(r)

Next ==
  \/ \E c \in Reader : Get(c)
  \/ \E r \in Fetch : Read(r) \/ Settle(r)
  \/ Publish
  \/ Tick

Spec == Init /\ [][Next]_vars

(* Time passes, some reader keeps calling, every fetch settles, and the    *)
(* store answers again and again rather than failing for ever.             *)
Fairness ==
  /\ WF_vars(Tick)
  /\ SF_vars(\E c \in Reader : Get(c))
  /\ SF_vars(\E r \in Fetch : Read(r))
  /\ \A r \in Fetch : WF_vars(Settle(r))
  /\ SF_vars(\E r \in Fetch : Loaded(r)) /\ SF_vars(\E r \in Fetch : Refreshed(r))

FairSpec == Spec /\ Fairness

-----------------------------------------------------------------------------
(* Properties.                                                             *)

(* Every part of the state has its shape.                                  *)
TypeOK ==
  /\ version \in 0..MaxVersion
  /\ values \in 0..MaxVersion \cup {Unloaded}
  /\ readAge \in 0..Oldest
  /\ fetchedAge \in 0..RefreshInterval
  /\ fetch \in [Fetch -> Slot]
  /\ reader \in [Reader -> [pc: {"idle", "waiting"},
                            got: 0..MaxVersion \cup {Unloaded}]]

(* config-service.ts:80 and :93 stamp a value with different clocks, and   *)
(* answers may overtake each other; still, a value served as fresh was read*)
(* from the store at most one interval and one fetch ago.                  *)
FreshnessBound ==
  values # Unloaded /\ fetchedAge < RefreshInterval => readAge < RefreshInterval + Latency

(* Once loaded, a namespace never stops serving (config-service.test.ts:216*)
(* "should keep serving stale values if refresh fails"), and a reader that *)
(* waited for the first fetch is never given nothing.                      *)
NeverUnloads ==
  [][/\ values # Unloaded => values' # Unloaded
     /\ \A c \in Reader : reader'[c].got # reader[c].got => reader'[c].got # Unloaded]_vars

(* Once the store has stopped changing, what is in memory becomes its      *)
(* version and stays it: the refresh that an overtaken answer needs to be  *)
(* corrected is always sent (config-service.ts:81-99).                     *)
Converges == <>[](values = version)

(* A get is answered or fails; it does not wait for ever.                  *)
GetSettles == \A c \in Reader : reader[c].pc = "waiting" ~> reader[c].pc = "idle"
=============================================================================
