----------------------------- MODULE CacheLayer -----------------------------
(***************************************************************************)
(* The cache system layer (packages/cache/src/layer.ts): the first request *)
(* to pass it opens one client per linked cache and registers the cache,   *)
(* its credentials and its client in the container; every later request    *)
(* goes straight to next().  The layer is one object shared by every       *)
(* request, `initialized` is set only after a chain of awaits, and a       *)
(* request whose configuration read fails leaves the layer half done, so   *)
(* several requests may be inside the initialisation, or repeat it.        *)
(*                                                                         *)
(* The container is the part of packages/core/src/di/container.ts a value  *)
(* provider goes through: register overwrites the provider but not an      *)
(* instance already resolved, and tracks a closer for a token only once.   *)
(*                                                                         *)
(* Clients are numbered in the order they are opened; a cache handle, its  *)
(* credentials and its client are all known by the client's number, and 0  *)
(* stands for nothing registered, resolved or tracked.                     *)
(***************************************************************************)
EXTENDS Naturals

CONSTANTS
    Requests,   \* the requests that pass the layer
    Links       \* how many caches the resource links file names

ASSUME LinksAssumption == Links \in Nat

VARIABLES
    initialized,    \* the layer's flag
    provider,       \* token -> the value registered under it
    instance,       \* token -> the value resolve() answers from now on
    resolving,      \* the tokens whose resolve() has not returned
    clients,        \* how many clients have been opened
    closer,         \* resource -> the client its close-stack entry closes
    pc,             \* request -> where it stands
    link,           \* request -> the resource it initialises
    token,          \* request -> the token it resolves
    value,          \* request -> the value that resolve has read
    kept,           \* request -> the cache handle registerDefaultTokens holds
    phase,          \* of the container: "open", "closing" or "closed"
    closing,        \* the clients closeAll has still to close
    closed,         \* the clients that were closed
    due             \* how many clients were open when closeAll was called

container == <<provider, instance, resolving>>
shutdown  == <<phase, closing, closed, due>>
resolve   == <<token, value, kept>>
vars == <<initialized, container, clients, closer, pc, link, resolve, shutdown>>

Resource == 1 .. Links
Default == 0        \* the unnamed cache: an alias of the only resource
Cache(r) == <<"cache", r>>
Credentials(r) == <<"credentials", r>>
Token == {"cache", "credentials"} \X (0 .. Links)

\* A client the container knows: cacheClientToken(r) is registered with Cache(r).
Registered(r) == provider[Cache(r)] # 0 /\ provider[Credentials(r)] # 0

AllRegistered ==
    /\ \A r \in Resource : Registered(r)
    /\ Links = 1 => Registered(Default)

Init ==
    /\ initialized = FALSE
    /\ provider = [t \in Token |-> 0]
    /\ instance = [t \in Token |-> 0]
    /\ resolving = {}
    /\ clients = 0
    /\ closer = [r \in Resource |-> 0]
    /\ pc = [q \in Requests |-> "idle"]
    /\ link = [q \in Requests |-> 1]
    /\ token = [q \in Requests |-> Cache(Default)]
    /\ value = [q \in Requests |-> 0]
    /\ kept = [q \in Requests |-> 0]
    /\ phase = "open"
    /\ closing = {}
    /\ closed = {}
    /\ due = 0

Goto(q, label) == pc' = [pc EXCEPT ![q] = label]

-----------------------------------------------------------------------------
(* The layer.                                                              *)

\* A request that finds the layer ready, or no cache to make ready, goes on.
Skip(q) ==
    /\ pc[q] = "idle"
    /\ initialized \/ Links = 0
    /\ initialized' = TRUE
    /\ Goto(q, "handling")
    /\ UNCHANGED <<container, clients, closer, link, resolve, shutdown>>

\* Seeded fault: the flag set before the awaits, so that the second request skips them.
EnterFlagged(q) ==
    /\ pc[q] = "idle" /\ ~initialized /\ Links > 0
    /\ initialized' = TRUE
    /\ Goto(q, "connecting")
    /\ link' = [link EXCEPT ![q] = 1]
    /\ UNCHANGED <<container, clients, closer, resolve, shutdown>>

\* Any other request starts the initialisation itself.
Enter(q) ==
    /\ pc[q] = "idle"
    /\ ~initialized
    /\ Links > 0
    /\ Goto(q, "connecting")
    /\ link' = [link EXCEPT ![q] = 1]
    /\ UNCHANGED <<initialized, container, clients, closer, resolve, shutdown>>

\* The tracer, the config service, a configuration key, the credentials or the
\* driver cannot be had: the exception leaves the layer, and `initialized` as it is.
ConnectFails(q) ==
    /\ pc[q] = "connecting"
    /\ Goto(q, "failed")
    /\ UNCHANGED <<initialized, container, clients, closer, link, resolve, shutdown>>

\* trackCloseable: the first closer registered for a token stays.
Track(r, c) ==
    closer' = IF closer[r] = 0 THEN [closer EXCEPT ![r] = c] ELSE closer

\* Seeded fault: a register that also replaces the instance handlers already hold.
ConnectReplaces(q) ==
    /\ pc[q] = "connecting"
    /\ clients' = clients + 1
    /\ provider' = [provider EXCEPT ![Cache(link[q])] = clients',
                                    ![Credentials(link[q])] = clients']
    /\ instance' = [instance EXCEPT ![Cache(link[q])] = clients']
    /\ Track(link[q], clients')
    /\ link' = [link EXCEPT ![q] = @ + 1]
    /\ Goto(q, IF link[q] < Links THEN "connecting"
               ELSE IF Links = 1 THEN "aliasing" ELSE "connected")
    /\ UNCHANGED <<initialized, resolving, resolve, shutdown>>

\* The last await of initializeResource has returned: the client opens its
\* connection and the three tokens are registered, without another await.
Connect(q) ==
    /\ pc[q] = "connecting"
    /\ clients' = clients + 1
    /\ provider' = [provider EXCEPT ![Cache(link[q])] = clients',
                                    ![Credentials(link[q])] = clients']
    /\ Track(link[q], clients')
    /\ link' = [link EXCEPT ![q] = @ + 1]
    /\ Goto(q, IF link[q] < Links THEN "connecting"
               ELSE IF Links = 1 THEN "aliasing" ELSE "connected")
    /\ UNCHANGED <<initialized, instance, resolving, resolve, shutdown>>

\* Every resource and, for a single one, its alias is registered.
Finish(q) ==
    /\ pc[q] = "connected"
    /\ initialized' = TRUE
    /\ Goto(q, "handling")
    /\ UNCHANGED <<container, clients, closer, link, resolve, shutdown>>

-----------------------------------------------------------------------------
(* Container.resolve of a token with a value provider.                     *)

\* instances.get(token): the answer is there.
ResolveCached(q, t, then) ==
    /\ instance[t] # 0
    /\ value' = [value EXCEPT ![q] = instance[t]]
    /\ Goto(q, then)
    /\ UNCHANGED resolving

\* Another request is between its lookup and its answer, or nothing is registered.
ResolveRefused(q, t) ==
    /\ instance[t] = 0
    /\ t \in resolving \/ provider[t] = 0
    /\ Goto(q, "failed")
    /\ UNCHANGED <<value, resolving>>

\* The provider's value is read now and stored after an await.
ResolveFresh(q, t, wait) ==
    /\ instance[t] = 0
    /\ t \notin resolving
    /\ provider[t] # 0
    /\ value' = [value EXCEPT ![q] = provider[t]]
    /\ resolving' = resolving \cup {t}
    /\ Goto(q, wait)

Resolve(q, t, then, wait) ==
    /\ token' = [token EXCEPT ![q] = t]
    /\ \/ ResolveCached(q, t, then)
       \/ ResolveRefused(q, t)
       \/ ResolveFresh(q, t, wait)
    /\ UNCHANGED <<initialized, provider, instance, clients, closer, link, shutdown>>

\* Seeded fault: a resolve that leaves the token in the resolving set.
StoreKeepsLock(q, wait, then) ==
    /\ pc[q] = wait
    /\ instance' = [instance EXCEPT ![token[q]] = value[q]]
    /\ Goto(q, then)
    /\ UNCHANGED <<initialized, provider, resolving, clients, closer, link, resolve, shutdown>>

\* createFromProvider has answered: the value becomes the token's instance.
Store(q, wait, then) ==
    /\ pc[q] = wait
    /\ instance' = [instance EXCEPT ![token[q]] = value[q]]
    /\ resolving' = resolving \ {token[q]}
    /\ Goto(q, then)
    /\ UNCHANGED <<initialized, provider, clients, closer, link, resolve, shutdown>>

-----------------------------------------------------------------------------
(* registerDefaultTokens, for an application with one cache.               *)

AliasCache(q) ==
    /\ pc[q] = "aliasing"
    /\ Resolve(q, Cache(1), "cache", "storingCache")
    /\ UNCHANGED kept

AliasCredentials(q) ==
    /\ pc[q] = "cache"
    /\ Resolve(q, Credentials(1), "credentials", "storingCredentials")
    /\ kept' = [kept EXCEPT ![q] = value[q]]

RegisterDefault(q) ==
    /\ pc[q] = "credentials"
    /\ provider' = [provider EXCEPT ![Cache(Default)] = kept[q],
                                    ![Credentials(Default)] = value[q]]
    /\ Goto(q, "connected")
    /\ UNCHANGED <<initialized, instance, resolving, clients, closer, link,
                   resolve, shutdown>>

-----------------------------------------------------------------------------
(* The handler behind the layer: it has a cache injected.                  *)

Handle(q) ==
    /\ pc[q] = "handling"
    /\ \E r \in 0 .. Links :
          /\ r # Default \/ Links = 1
          /\ Resolve(q, Cache(r), "served", "storingHandle")
    /\ UNCHANGED kept

-----------------------------------------------------------------------------
(* Container.closeAll.                                                     *)

CloseAll ==
    /\ phase = "open"
    /\ phase' = "closing"
    /\ closing' = {closer[r] : r \in Resource} \ {0}
    /\ due' = clients
    /\ UNCHANGED <<initialized, container, clients, closer, pc, link, resolve, closed>>

CloseOne ==
    /\ \E c \in closing : /\ closing' = closing \ {c}
                          /\ closed' = closed \cup {c}
    /\ UNCHANGED <<initialized, container, clients, closer, pc, link, resolve,
                   phase, due>>

CloseDone ==
    /\ phase = "closing"
    /\ closing = {}
    /\ phase' = "closed"
    /\ closer' = [r \in Resource |-> 0]
    /\ UNCHANGED <<initialized, container, clients, pc, link, resolve, closing,
                   closed, due>>

-----------------------------------------------------------------------------
Advance(q) ==
    \/ Skip(q)
    \/ Enter(q)
    \/ Connect(q)
    \/ Finish(q)
    \/ AliasCache(q)
    \/ Store(q, "storingCache", "cache")
    \/ AliasCredentials(q)
    \/ Store(q, "storingCredentials", "credentials")
    \/ RegisterDefault(q)
    \/ Handle(q)
    \/ Store(q, "storingHandle", "served")

Close == CloseAll \/ CloseOne \/ CloseDone

Next ==
    \/ \E q \in Requests : Advance(q) \/ ConnectFails(q)
    \/ Close

Spec == Init /\ [][Next]_vars

-----------------------------------------------------------------------------
Where == {"idle", "connecting", "aliasing", "storingCache", "cache",
          "storingCredentials", "credentials", "connected", "handling",
          "storingHandle", "served", "failed"}

Storing == {"storingCache", "storingCredentials", "storingHandle"}

TypeOK ==
    /\ initialized \in BOOLEAN
    /\ provider \in [Token -> Nat]
    /\ instance \in [Token -> Nat]
    /\ resolving \subseteq Token
    /\ clients \in Nat
    /\ closer \in [Resource -> Nat]
    /\ pc \in [Requests -> Where]
    /\ link \in [Requests -> 1 .. Links + 1]
    /\ token \in [Requests -> Token]
    /\ value \in [Requests -> Nat]
    /\ kept \in [Requests -> Nat]
    /\ phase \in {"open", "closing", "closed"}
    /\ closing \subseteq Nat
    /\ closed \subseteq Nat
    /\ due \in Nat

\* A request whose initialisation failed half-way, and others that overlap
\* with it, never let a handler run before every cache it may ask for is
\* registered: a request is behind the layer only once all tokens are there.
ReadyWhenServed ==
    (\E q \in Requests : pc[q] \in {"handling", "storingHandle", "served"}) => AllRegistered

\* The resource a token names.
ResourceOf(t) == IF t[2] = Default THEN 1 ELSE t[2]

\* However many clients overlapping initialisations open and re-register, all
\* handlers work on one: two handles of the same resource, by name or by the
\* default token, are the same object.
HandlesAgree ==
    \A p, q \in Requests :
        (/\ pc[p] = "served" /\ pc[q] = "served"
         /\ ResourceOf(token[p]) = ResourceOf(token[q]))
        => value[p] = value[q]

\* The container's lock on a token is the resolve of exactly one request: a
\* request that fails or is served leaves no token that nobody can resolve.
LockHeld ==
    /\ \A t \in resolving : \E q \in Requests : pc[q] \in Storing /\ token[q] = t
    /\ \A p, q \in Requests :
          (pc[p] \in Storing /\ pc[q] \in Storing /\ token[p] = token[q]) => p = q

\* A cache client is registered with an onClose that closes it (layer.ts:147-150):
\* after closeAll no client opened before it is left open.
EveryClientClosed == phase = "closed" => \A c \in 1 .. due : c \in closed
=============================================================================
