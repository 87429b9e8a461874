----------------------------- MODULE ConfigLayer -----------------------------
(***************************************************************************)
(* The configuration layer (packages/config/src/config-layer.ts), which    *)
(* makes the namespaces the environment names, and the backends            *)
(* (packages/config/src/backends) they fetch their values from.            *)
(*                                                                         *)
(* A store's entry has a name, a sequence of segments: the identifier of   *)
(* the store (a secret, a path of parameters, a key of the local Valkey),  *)
(* then the key.  When a namespace fetches, and what it does with overlap- *)
(* ping fetches, is ConfigNamespace's subject; here a namespace has one    *)
(* fetch at a time and what matters is what the fetch returns.             *)
(***************************************************************************)
EXTENDS Integers, Sequences, SequencesExt, FiniteSetsExt

CONSTANTS
    Environment,    \* the environments the process may be started in
    Entries,        \* name -> the value at the start; DOMAIN: names that may exist
    NewValue,       \* a value entries may change to
    Absent,
    MaxChanges      \* bound: how often the store changes

Null == "null"
NaN == "NaN"
NoStore == <<>>
ToLowerCase == [RESOURCES |-> "resources", APP |-> "app", STORE |-> "store"]
Name == DOMAIN Entries
NoValues == <<>>

VARIABLES
    env,
    service,    \* name -> namespace, once the layer has made them; <<>> before
    entries,    \* the store
    values,     \* namespace -> <<its values>>, <<>> until the first fetch
    fetch,      \* namespace -> its fetch
    always,     \* history: the entries that were never removed
    had,        \* history: the entries with every value they had
    past,       \* history: the contents of the store so far
    changes

vars == <<env, service, entries, values, fetch, always, had, past, changes>>

-----------------------------------------------------------------------------
(* Which namespaces there are. *)

\* CELERITY_CONFIG_STORE_ID names the only namespace; without it every
\* CELERITY_CONFIG_<NS>_STORE_ID names one.
Discovered(e) ==
    IF e.storeId # NoStore
    THEN << [name |-> "default", storeId |-> e.storeId, storeKind |-> e.storeKind,
             prefix |-> Absent] >>
    ELSE LET named(s) == s.ns \notin {"", "STORE"} /\ s.storeId # NoStore
             nameOf(s) == CASE s.namespace # Absent -> s.namespace
                            [] s.prefix # Absent -> s.prefix
                            [] OTHER -> ToLowerCase[s.ns]
         IN  [i \in {j \in DOMAIN e.spaces : named(e.spaces[j])} |->
                [name |-> nameOf(e.spaces[i]), storeId |-> e.spaces[i].storeId,
                 storeKind |-> e.spaces[i].storeKind, prefix |-> e.spaces[i].prefix]]

Kind(storeKind) == IF storeKind = Absent THEN "secrets-manager" ELSE storeKind

ParseInt(text) == IF text \in {"0", "-1", "60000"} THEN text ELSE NaN

\* The interval of every namespace, or Null for none.
RefreshInterval(e) ==
    CASE e.interval # Absent ->
            IF ParseInt(e.interval) = "0" THEN Null ELSE ParseInt(e.interval)
      [] /\ e.interval = Absent
         /\ e.platform = "aws" /\ ~e.runtime /\ e.extension
         /\ Kind(e.storeKind) = "secrets-manager" -> Null
      [] OTHER -> "30000"

ResolveBackend(e, kind) ==
    CASE e.platform = "aws" ->
            IF kind = "parameter-store" THEN "parameter-store"
            ELSE IF e.lambda /\ e.extension THEN "extension" ELSE "secrets-manager"
      [] e.platform = "local" -> "local"
      [] OTHER -> "empty"

\* A name discovered twice is the later one's.
BuildConfigService(e) ==
    LET found == Discovered(e)
        last(n) == Max({i \in DOMAIN found : found[i].name = n})
    IN  [n \in {found[i].name : i \in DOMAIN found} |->
            [storeId |-> found[last(n)].storeId, prefix |-> found[last(n)].prefix,
             backend |-> ResolveBackend(e, Kind(found[last(n)].storeKind)),
             interval |-> RefreshInterval(e)]]

Names == UNION {DOMAIN BuildConfigService(e) : e \in Environment}

-----------------------------------------------------------------------------
Content(store) == [n \in {m \in Name : store[m] # Absent} |-> store[n]]
Had(store) == {<<n, store[n]>> : n \in DOMAIN Content(store)}

Init ==
    /\ env \in Environment
    /\ service = NoValues
    /\ entries = Entries
    /\ values = [n \in Names |-> <<>>]
    /\ fetch = [n \in Names |-> [st |-> "idle", got |-> NoValues]]
    /\ always = DOMAIN Content(Entries)
    /\ had = Had(Entries)
    /\ past = {Content(Entries)}
    /\ changes = 0

store == <<entries, always, had, past, changes>>

\* The first request's pass; it makes no await, so no two of them overlap.
Handle ==
    /\ service = NoValues
    /\ service' = BuildConfigService(env)
    /\ UNCHANGED <<env, values, fetch, store>>

Change(n, v) ==
    /\ changes < MaxChanges
    /\ entries[n] # v
    /\ entries' = [entries EXCEPT ![n] = v]
    /\ always' = always \cap DOMAIN Content(entries')
    /\ had' = had \cup Had(entries')
    /\ past' = past \cup {Content(entries')}
    /\ changes' = changes + 1
    /\ UNCHANGED <<env, service, values, fetch>>

-----------------------------------------------------------------------------
(* Fetches. *)

\* What a store with this identifier holds: the rest of the names below it.
Below(id, content) ==
    LET rests == {SubSeq(n, Len(id) + 1, Len(n)) :
                    n \in {m \in DOMAIN content : IsStrictPrefix(id, m)}}
    IN  [k \in rests |-> content[id \o k]]

ApplyPrefix(prefix, map) ==
    IF prefix = Absent THEN map
    ELSE Below(<<prefix>>, map)

\* A first fetch, or a refresh of values that are stale.
Begin(n) ==
    /\ n \in DOMAIN service
    /\ fetch[n].st = "idle"
    /\ values[n] # <<>> => service[n].interval \notin {Null, NaN}
    /\ fetch' = [fetch EXCEPT ![n] = [st |-> service[n].backend, got |-> NoValues]]
    /\ UNCHANGED <<env, service, values, store>>

Return(n, map) ==
    /\ values' = [values EXCEPT ![n] = <<ApplyPrefix(service[n].prefix, map)>>]
    /\ fetch' = [fetch EXCEPT ![n].st = "idle"]
    /\ UNCHANGED <<env, service, store>>

Go(n, st, got) ==
    /\ fetch' = [fetch EXCEPT ![n] = [st |-> st, got |-> got]]
    /\ UNCHANGED <<env, service, values, store>>

\* AwsLambdaExtensionBackend: the extension answers from a cache of its own.
ExtensionAnswers(n) ==
    /\ fetch[n].st = "extension"
    /\ \E content \in past : Return(n, Below(service[n].storeId, content))

\* Seeded fault: the fallback is forgotten.
ExtensionFailsEmpty(n) == fetch[n].st = "extension" /\ Return(n, NoValues)

\* No answer, a bad status or no JSON: the secret is fetched directly.
ExtensionFails(n) == fetch[n].st = "extension" /\ Go(n, "secrets-manager", NoValues)

\* AwsSecretsManagerBackend, one answer.
SecretAnswers(n) ==
    /\ fetch[n].st = "secrets-manager"
    /\ Return(n, Below(service[n].storeId, Content(entries)))

\* AwsParameterStoreBackend: a page of what is below the path, and a token
\* until everything that was there all the time has been in one.
NextPage(n) ==
    LET below == Below(service[n].storeId, Content(entries))
        stable == DOMAIN Below(service[n].storeId, [m \in always |-> entries[m]])
    IN
    /\ fetch[n].st = "parameter-store"
    /\ \E page \in SUBSET DOMAIN below :
        LET before == fetch[n].got
            got == [k \in page \cup DOMAIN before |-> IF k \in page THEN below[k] ELSE before[k]]
        IN
        \/ Go(n, "parameter-store", got)
        \/ stable \subseteq DOMAIN got /\ Return(n, got)

\* A rejected fetch leaves the namespace as it is.
FetchFails(n) ==
    /\ fetch[n].st \in {"secrets-manager", "parameter-store"}
    /\ Go(n, "idle", NoValues)

\* LocalConfigBackend never rejects: without an answer there are no values.
LocalAnswers(n) ==
    /\ fetch[n].st = "local"
    /\ \/ Return(n, Below(service[n].storeId, Content(entries)))
       \/ Return(n, NoValues)

EmptyAnswers(n) == fetch[n].st = "empty" /\ Return(n, NoValues)

Next ==
    \/ Handle
    \/ \E n \in Name, v \in {NewValue, Absent} : Change(n, v)
    \/ \E n \in Names :
        \/ Begin(n)
        \/ ExtensionAnswers(n) \/ ExtensionFails(n) \/ SecretAnswers(n)
        \/ NextPage(n) \/ FetchFails(n) \/ LocalAnswers(n) \/ EmptyAnswers(n)

Spec == Init /\ [][Next]_vars

-----------------------------------------------------------------------------
(* Properties. *)

\* On AWS a loaded namespace has every key of its store and prefix that was never
\* removed, whatever the extension, the fallback or a page did, and no value
\* its store never had (AwsLambdaExtensionBackend, AwsParameterStoreBackend,
\* ConfigNamespaceImpl.applyPrefix).
FetchesWhole ==
    \A n \in DOMAIN service :
        LET ns == service[n]
            root == ns.storeId \o (IF ns.prefix = Absent THEN <<>> ELSE <<ns.prefix>>)
        IN  (env.platform = "aws" /\ values[n] # <<>>) =>
                /\ \A name \in always :
                    IsStrictPrefix(root, name) =>
                        SubSeq(name, Len(root) + 1, Len(name)) \in DOMAIN values[n][1]
                /\ \A key \in DOMAIN values[n][1] :
                    <<root \o key, values[n][1][key]>> \in had

=============================================================================
