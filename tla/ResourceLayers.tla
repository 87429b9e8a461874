--------------------------- MODULE ResourceLayers ---------------------------
(***************************************************************************)
(* The resource layers of queues, topics, datastores, buckets and SQL      *)
(* databases (packages/{queue,topic,datastore,bucket,sql-database}/src/    *)
(* layer.ts), in the order the resource links name their types: the first  *)
(* requests make a client, read the resources' names or credentials from   *)
(* the configuration and register a handle for each.                       *)
(*                                                                         *)
(* A layer is one object for all requests and sets `initialized` after its *)
(* last await, so several requests may initialise it at once, and one that *)
(* fails leaves it half done.  Of the container there is what a value goes *)
(* through: register replaces the provider, resolve keeps the first        *)
(* instance and refuses a token that another resolve has not returned.     *)
(* Closers are CacheLayer's subject.                                       *)
(*                                                                         *)
(* Initialisations are numbered; a handle has the number of the client it  *)
(* was made with and the name it was given.                                *)
(***************************************************************************)
EXTENDS Integers, Sequences, SequencesExt

CONSTANTS
    Request,
    Layer,          \* the resource types in the order of the links, a sequence
    Link,           \* type -> its links in order, [name, key] each
    Value,          \* what a configuration key may be set to
    Absent,
    MaxChanges      \* bound: how often the served configuration changes

None == [client |-> 0, name |-> Absent]
Tracer == <<"tracer", "">>
Config == <<"config", "">>
SqlPart == <<"instance", "writer", "reader", "credentials">>
SqlToken(i, r) == <<SqlPart[i], r>>
Default == "default"

Sql == "sqlDatabase"
Names(k) == {Link[k][i].name : i \in DOMAIN Link[k]}
Tokens(k) == IF k = Sql THEN {SqlToken(i, r) : i \in 1 .. 4, r \in Names(k) \cup {Default}}
             ELSE {<<k, r>> : r \in Names(k) \cup {Default}}
Token == {Tracer, Config} \cup UNION {Tokens(k) : k \in ToSet(Layer)}
Key == UNION {{Link[k][i].key : i \in DOMAIN Link[k]} : k \in ToSet(Layer)}

VARIABLES
    present,        \* whether there is a tracer, and a namespace "resources"
    served,         \* key -> what the namespace serves
    initialized,    \* layer -> its flag
    provider,       \* token -> the handle registered under it
    instance,       \* token -> <<the value resolve() answers from now on>>
    resolving,      \* the tokens whose resolve() has not returned
    clients,        \* how many clients were made
    req,            \* request -> where it stands
    set,            \* history: key -> the values it had
    changes

vars == <<present, served, initialized, provider, instance, resolving, clients, req,
          set, changes>>
config == <<present, served, set, changes>>

Init ==
    /\ present \in SUBSET {"tracer", "resources"}
    /\ served \in [Key -> {CHOOSE v \in Value : TRUE, Absent}]
    /\ initialized = [i \in DOMAIN Layer |-> FALSE]
    /\ provider = [t \in Token |-> None]
    /\ instance = [t \in Token |-> <<>>]
    /\ resolving = {}
    /\ clients = 0
    /\ req = [q \in Request |-> [layer |-> 1, pc |-> "enter", link |-> 1, client |-> 0,
                                 holds |-> FALSE, kept |-> <<>>]]
    /\ set = [k \in Key |-> {served[k]}]
    /\ changes = 0

At(q, pc) == req[q].layer <= Len(Layer) /\ req[q].pc = pc
Type(q) == Layer[req[q].layer]
Linked(q) == Link[Type(q)]
Goto(q, pc) == req' = [req EXCEPT ![q].pc = pc, ![q].link = 1]
Leave(q) == [layer |-> req[q].layer + 1, pc |-> "enter", link |-> 1, client |-> 0,
             holds |-> FALSE, kept |-> <<>>]
Fail(q) == req' = [req EXCEPT ![q].pc = "failed", ![q].holds = FALSE]

-----------------------------------------------------------------------------
(* The container's resolve of a value. *)

Lock(q, t) ==
    /\ instance[t] = <<>> /\ t \notin resolving
    /\ resolving' = resolving \cup {t}
    /\ req' = [req EXCEPT ![q].holds = TRUE]
    /\ UNCHANGED <<config, initialized, provider, instance, clients>>

\* Another request's resolve of the token has not returned.
Refuse(q, t) ==
    /\ instance[t] = <<>> /\ t \in resolving /\ ~req[q].holds
    /\ Fail(q)
    /\ UNCHANGED <<config, initialized, provider, instance, resolving, clients>>

\* The token is resolved, now or before; the caller says how the request goes on.
Resolved(t) == IF instance[t] = <<>> THEN provider[t] ELSE instance[t][1]
Have(q, t) ==
    /\ instance[t] # <<>> \/ req[q].holds
    /\ instance' = [instance EXCEPT ![t] = <<Resolved(t)>>]
    /\ resolving' = IF req[q].holds THEN resolving \ {t} ELSE resolving
    /\ UNCHANGED <<config, initialized, clients>>

-----------------------------------------------------------------------------
(* A layer, for one request. *)

Pass(q) ==
    /\ At(q, "enter")
    /\ initialized[req[q].layer]
    /\ req' = [req EXCEPT ![q] = Leave(q)]
    /\ UNCHANGED <<config, initialized, provider, instance, resolving, clients>>

\* The SQL layer has no tracer and no client of its own.
First(q) == IF Type(q) # Sql THEN "tracer" ELSE IF Linked(q) = <<>> THEN "done" ELSE "config"

EnterFlagged(q) ==
    /\ At(q, "enter")
    /\ ~initialized[req[q].layer]
    /\ initialized' = [initialized EXCEPT ![req[q].layer] = TRUE]
    /\ Goto(q, First(q))
    /\ UNCHANGED <<config, provider, instance, resolving, clients>>

Enter(q) ==
    /\ At(q, "enter")
    /\ ~initialized[req[q].layer]
    /\ Goto(q, First(q))
    /\ UNCHANGED <<config, initialized, provider, instance, resolving, clients>>

ResolveTracer(q) ==
    /\ At(q, "tracer")
    /\ "tracer" \in present
    /\ \/ Lock(q, Tracer) \/ Refuse(q, Tracer)
       \/ /\ Have(q, Tracer)
          /\ req' = [req EXCEPT ![q].pc = "client", ![q].holds = FALSE]
          /\ UNCHANGED provider
NoTracer(q) ==
    /\ At(q, "tracer")
    /\ "tracer" \notin present
    /\ Goto(q, "client")
    /\ UNCHANGED <<config, initialized, provider, instance, resolving, clients>>

\* createQueueClient and its like: the provider's module is imported and the
\* client made, or there is no provider for the platform.
Open(q) ==
    /\ At(q, "client")
    /\ clients' = clients + 1
    /\ req' = [req EXCEPT ![q].client = clients',
                          ![q].pc = IF Linked(q) = <<>> THEN "done" ELSE "config"]
    /\ UNCHANGED <<config, initialized, provider, instance, resolving>>
OpenFails(q) ==
    /\ At(q, "client")
    /\ Fail(q)
    /\ UNCHANGED <<config, initialized, provider, instance, resolving, clients>>

\* configService.namespace throws when there is no namespace "resources".
ResolveConfig(q) ==
    /\ At(q, "config")
    /\ \/ Lock(q, Config) \/ Refuse(q, Config)
       \/ /\ Have(q, Config)
          /\ req' = [req EXCEPT
                ![q].pc = IF "resources" \notin present THEN "failed"
                          ELSE IF Type(q) = Sql THEN "connect" ELSE "name",
                ![q].holds = FALSE]
          /\ UNCHANGED provider

\* After the last link: the default token when there is one link, else the end.
AfterLink(q) ==
    CASE req[q].link < Len(Linked(q)) -> [req[q] EXCEPT !.link = @ + 1]
      [] Len(Linked(q)) = 1 -> [req[q] EXCEPT !.pc = "default"]
      [] OTHER -> [req[q] EXCEPT !.pc = "done"]

\* getOrThrow of a link's key, and the handle registered under the link's name.
NameResource(q) ==
    LET link == Linked(q)[req[q].link]
        handle == [client |-> req[q].client, name |-> served[link.key]]
    IN
    /\ At(q, "name")
    /\ served[link.key] # Absent
    /\ provider' = [provider EXCEPT ![<<Type(q), link.name>>] = handle]
    /\ req' = [req EXCEPT ![q] = AfterLink(q)]
    /\ UNCHANGED <<config, initialized, instance, resolving, clients>>

\* The only link's key is read again for the default handle.
NameDefault(q) ==
    LET key == Linked(q)[1].key IN
    /\ At(q, "default") /\ Type(q) # Sql
    /\ served[key] # Absent
    /\ provider' = [provider EXCEPT ![<<Type(q), Default>>] =
                        [client |-> req[q].client, name |-> served[key]]]
    /\ Goto(q, "done")
    /\ UNCHANGED <<config, initialized, instance, resolving, clients>>

KeyMissing(q) ==
    /\ At(q, "name") \/ At(q, "default")
    /\ Type(q) # Sql
    /\ served[Linked(q)[req[q].link].key] = Absent
    /\ Fail(q)
    /\ UNCHANGED <<config, initialized, provider, instance, resolving, clients>>

\* initializeResource: credentials are resolved and the connection pools made;
\* then the instance, its writer, its reader and the credentials registered.
ConnectDatabase(q) ==
    LET link == Linked(q)[req[q].link]
        handle == [client |-> clients + 1, name |-> served[link.key]]
    IN
    /\ At(q, "connect")
    /\ served[link.key] # Absent
    /\ clients' = clients + 1
    /\ provider' = [t \in Token |->
            IF \E i \in 1 .. 4 : t = SqlToken(i, link.name) THEN handle ELSE provider[t]]
    /\ req' = [req EXCEPT ![q] = AfterLink(q)]
    /\ UNCHANGED <<config, initialized, instance, resolving>>
ConnectFails(q) ==
    /\ At(q, "connect")
    /\ Fail(q)
    /\ UNCHANGED <<config, initialized, provider, instance, resolving, clients>>

\* registerDefaultTokens resolves the four tokens and registers what it got.
AliasDatabase(q) ==
    LET i == Len(req[q].kept) + 1
        t == SqlToken(i, Linked(q)[1].name)
        kept == Append(req[q].kept, Resolved(t))
        keep ==
            IF i < 4
            THEN /\ req' = [req EXCEPT ![q].kept = kept, ![q].holds = FALSE]
                 /\ UNCHANGED provider
            ELSE /\ req' = [req EXCEPT ![q].pc = "done", ![q].holds = FALSE]
                 /\ provider' = [d \in Token |->
                        IF \E j \in 1 .. 4 : d = SqlToken(j, Default)
                        THEN kept[CHOOSE j \in 1 .. 4 : d = SqlToken(j, Default)]
                        ELSE provider[d]]
    IN  /\ At(q, "default") /\ Type(q) = Sql
        /\ Lock(q, t) \/ Refuse(q, t) \/ (Have(q, t) /\ keep)

Finish(q) ==
    /\ At(q, "done")
    /\ initialized' = [initialized EXCEPT ![req[q].layer] = TRUE]
    /\ req' = [req EXCEPT ![q] = Leave(q)]
    /\ UNCHANGED <<config, provider, instance, resolving, clients>>

\* The namespace has fetched other values.
Refresh(k, v) ==
    /\ changes < MaxChanges
    /\ served[k] # v
    /\ served' = [served EXCEPT ![k] = v]
    /\ set' = [set EXCEPT ![k] = @ \cup {v}]
    /\ changes' = changes + 1
    /\ UNCHANGED <<present, initialized, provider, instance, resolving, clients, req>>

Next ==
    \/ \E q \in Request :
        \/ Pass(q) \/ Enter(q) \/ ResolveTracer(q) \/ NoTracer(q) \/ Open(q)
        \/ OpenFails(q) \/ ResolveConfig(q) \/ NameResource(q) \/ NameDefault(q) \/ KeyMissing(q)
        \/ ConnectDatabase(q) \/ ConnectFails(q) \/ AliasDatabase(q) \/ Finish(q)
    \/ \E k \in Key, v \in Value \cup {Absent} : Refresh(k, v)

Spec == Init /\ [][Next]_vars

-----------------------------------------------------------------------------
(* Properties. *)

KeyOf(k, r) ==
    IF r \in Names(k) THEN Link[k][CHOOSE i \in DOMAIN Link[k] : Link[k][i].name = r].key
    ELSE Link[k][1].key

\* What a request finds behind a layer: under the token of every linked resource,
\* and under the default token when there is one, a handle that was made for
\* that resource with a name its own key had.
HandlesReach ==
    \A q \in Request, i \in DOMAIN Layer :
        req[q].layer > i =>
            \A r \in Names(Layer[i]) \cup (IF Len(Link[Layer[i]]) = 1 THEN {Default} ELSE {}) :
                LET tokens == {t \in Tokens(Layer[i]) : t[2] = r} IN
                \A t \in tokens :
                    /\ provider[t].client \in 1 .. clients
                    /\ provider[t].name \in set[KeyOf(Layer[i], r)] \ {Absent}

=============================================================================
