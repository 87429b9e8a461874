---------------------------- MODULE MCResources ----------------------------
(***************************************************************************)
(* How an application gets its resources and what their handles do, each   *)
(* part checked alone (`part` says which):                                 *)
(*   config     the namespaces of six environments and their fetches       *)
(*   queues     two requests that reach a queue and a database layer       *)
(*   topics     the same for a topic layer with one topic                  *)
(*   sql, redis credentials of a database and of a cache, and two          *)
(*              connections that need tokens                               *)
(*   layer      the cache layer, with three requests that reach it together*)
(*   cluster    the cache handle on a cluster of two masters, a batch, scan*)
(*              or transaction of one caller overlapping another's write   *)
(*   single     two handles with different prefixes on a single server,    *)
(*              with every method a transaction has                        *)
(*   listing    loops over the pages of a bucket and of a table            *)
(*   batch      entries sent together to a queue, a topic or a table       *)
(***************************************************************************)
EXTENDS CacheLayer, Sequences, TLC

VARIABLES part,
    store, replica, call, ran, seen,                                \* RedisCache
    env, service, entries, values, fetch, always, had, past,        \* ConfigLayer
    present, handed, given, locked, made, req, known, flags,        \* ResourceLayers
    now, reader, info, cached, conn,                                \* ResourceCredentials
    listing, table, cursor, step, start, page, next, got, stayed, leaves,  \* Listings
    sender, opened, handle, batch, at, successful, failed, sending, arrived, rounds, threw, \* Batches
    served, changes                                                 \* of several of them

redis == <<store, replica, call, ran, seen>>
configs == <<env, service, entries, values, fetch, always, had, past>>
links == <<present, handed, given, locked, made, req, known, flags>>
secrets == <<now, reader, info, cached, conn>>
loops == <<listing, table, cursor, step, start, page, next, got, stayed, leaves>>
sends == <<sender, opened, handle, batch, at, successful, failed, sending, arrived, rounds, threw>>
all == <<part, redis, configs, links, secrets, loops, sends, served, changes, vars>>

-----------------------------------------------------------------------------
Slot == INSTANCE RedisSlots

\* "{x}w" and "{x}y" share a slot, "z" has another; "a:" and "b:" are prefixes.
xw == <<123, 120, 125, 119>>
xy == <<123, 120, 125, 121>>
z == <<122>>
A == <<97, 58>>
B == <<98, 58>>

Query(op, keys, args, opt) == [op |-> op, keys |-> keys, args |-> args, opt |-> opt]
Tx(queries) == Query("transaction", <<>>, queries, {})
TxOf(op, args, opt) == Tx(<<Query(op, <<z>>, args, opt)>>)

Batches == {
    Query("mget", <<xw, z, xy, xw>>, <<>>, {}),
    Query("mset", <<xw, z, xy, xw>>, <<"v1", "v2", "v3", "v4">>, {}),
    Query("mdelete", <<xw, z, xy>>, <<>>, {}),
    Query("rename", <<xw, z>>, <<>>, {}),
    Query("rename", <<xw, xy>>, <<>>, {}),
    Query("setUnion", <<xw, xy>>, <<>>, {}),
    Query("setIntersect", <<xw, z>>, <<>>, {}),
    Query("setDiff", <<xw, z>>, <<>>, {}),
    Query("scan", <<>>, <<>>, {}),
    Tx(<<>>),
    Tx(<<Query("rename", <<xw, z>>, <<>>, {})>>),
    Tx(<<Query("set", <<xw>>, <<"v1">>, {"ifNotExists", "ttl"}),
         Query("rename", <<xw, xy>>, <<>>, {})>>)}

Writes == {
    Query("set", <<z>>, <<"v5">>, {}),
    Query("delete", <<xw>>, <<>>, {}),
    Query("mset", <<xw, z>>, <<"v6", "v7">>, {})}

Singles == {
    TxOf("set", <<"v1">>, {"ttl", "ifExists"}), TxOf("delete", <<>>, {}),
    TxOf("getSet", <<"v1">>, {}), TxOf("append", <<"v1">>, {}),
    TxOf("incr", <<>>, {}), TxOf("incr", <<2>>, {}),
    TxOf("decr", <<1>>, {}), TxOf("decr", <<2>>, {}), TxOf("incrFloat", <<"1.5">>, {}),
    TxOf("hashSet", <<"f", "v">>, {}), TxOf("hashDelete", <<"f">>, {}),
    TxOf("hashIncr", <<"f">>, {}), TxOf("hashIncr", <<"f", 2>>, {}),
    TxOf("listPush", <<"v">>, {"left"}), TxOf("listPush", <<"v">>, {}),
    TxOf("listTrim", <<0, 1>>, {}), TxOf("setAdd", <<"m">>, {}),
    TxOf("setRemove", <<"m">>, {}), TxOf("sortedSetAdd", <<1, "m">>, {}),
    TxOf("sortedSetRemove", <<"m">>, {}), TxOf("sortedSetIncr", <<"m", 1>>, {}),
    TxOf("expire", <<1>>, {}), TxOf("persist", <<>>, {}),
    Tx(<<Query("rename", <<xw, z>>, <<>>, {})>>),
    Query("scan", <<z>>, <<>>, {"match"}), Query("get", <<z>>, <<>>, {}),
    Query("exists", <<z>>, <<>>, {}), Query("set", <<z>>, <<"v1">>, {"ifExists"}),
    Query("hashIncr", <<z>>, <<"f">>, {}), Query("incr", <<z>>, <<2>>, {}),
    Query("listPop", <<z>>, <<2>>, {"right"}), Query("listPush", <<z>>, <<"v">>, {}),
    Query("sortedSetRank", <<z>>, <<"m">>, {"reverse"}),
    Query("sortedSetRange", <<z>>, <<0, 9>>, {"reverse", "withScores"}),
    Query("sortedSetRangeByScore", <<z>>, <<0, 9>>, {"reverse", "offset", "count"}),
    Query("sortedSetIncr", <<z>>, <<"m", 1>>, {}),
    Query("mset", <<z, xw>>, <<"v6", "v7">>, {})}

ClusterKeys == {A \o xw, A \o xy, A \o z, B \o z, xw, xy, z}
ClientSlots == [k \in ClusterKeys |-> Slot!HashSlot(k)]
ClusterSlots == [k \in ClusterKeys |-> Slot!NodeSlot(k)]
Home == [k \in ClusterKeys |-> IF ClusterSlots[k] < Slot!Slots \div 2 THEN "m1" ELSE "m2"]

Cluster == INSTANCE RedisCache WITH
    Caller <- {"c1", "c2"}, KeyPrefix <- [h1 |-> A],
    Queries <- [c1 |-> Batches, c2 |-> Writes], ClusterMode <- TRUE,
    Key <- ClusterKeys, ClientSlot <- ClientSlots, ServerSlot <- ClusterSlots,
    Masters <- <<"m1", "m2">>, MasterOf <- Home, Absent <- "absent", MaxResend <- 1

SingleKeys == {A \o xw, A \o z, B \o xw, B \o z, xw, z}
NoSlot == [k \in SingleKeys |-> 0]

Single == INSTANCE RedisCache WITH
    Caller <- {"c1", "c2"}, KeyPrefix <- [h1 |-> A, h2 |-> B],
    Queries <- [c1 |-> Singles, c2 |-> Singles], ClusterMode <- FALSE,
    Key <- SingleKeys, ClientSlot <- NoSlot, ServerSlot <- NoSlot,
    Masters <- <<>>, MasterOf <- NoSlot, Absent <- "absent", MaxResend <- 0

-----------------------------------------------------------------------------
Plain == [platform |-> "aws", runtime |-> FALSE, lambda |-> TRUE, extension |-> TRUE,
          storeId |-> <<>>, storeKind |-> "absent", interval |-> "absent", spaces |-> <<>>]
Space(ns, id) == [ns |-> ns, storeId |-> id, storeKind |-> "absent", prefix |-> "absent",
                  namespace |-> "absent"]

\* The extension; two namespaces that both take the name "app"; parameters; one
\* store for all; a runtime on a developer's machine; an unknown platform.
Environments == {
    [Plain EXCEPT !.spaces = << Space("RESOURCES", <<"s">>), Space("STORE", <<"s">>),
                                Space("APP", <<>>) >>],
    [Plain EXCEPT !.interval = "60000", !.extension = FALSE,
        !.spaces = << [Space("RESOURCES", <<"s">>) EXCEPT !.namespace = "app"],
                      [Space("APP", <<"s">>) EXCEPT !.prefix = "p", !.namespace = "app"] >>],
    [Plain EXCEPT !.spaces = << [Space("APP", <<"s">>) EXCEPT
                                    !.storeKind = "parameter-store", !.prefix = "p"] >>],
    [Plain EXCEPT !.storeId = <<"s", "p">>, !.storeKind = "parameter-store",
                  !.interval = "none"],
    [Plain EXCEPT !.storeId = <<"s">>, !.platform = "local", !.runtime = TRUE,
                  !.interval = "0"],
    [Plain EXCEPT !.storeId = <<"s">>, !.platform = "other"]}

Configuration == INSTANCE ConfigLayer WITH
    Environment <- Environments,
    Entries <- (<<"s", "p", "a">> :> "v1") @@ (<<"s", "b">> :> "v1")
               @@ (<<"s", "p", "c">> :> "absent"),
    NewValue <- "v2", Absent <- "absent", MaxChanges <- 2

Resources == [queue |-> << [name |-> "orders", key |-> "k1"], [name |-> "emails", key |-> "k2"] >>,
              topic |-> << [name |-> "news", key |-> "k1"] >>,
              sqlDatabase |-> << [name |-> "main", key |-> "k3"] >>]

Queues == INSTANCE ResourceLayers WITH
    Request <- {"r1", "r2"}, Layer <- <<"queue", "sqlDatabase">>, Link <- Resources,
    Value <- {"n1", "n2"}, Absent <- "absent", MaxChanges <- 1,
    initialized <- flags, provider <- handed, instance <- given, resolving <- locked,
    clients <- made, set <- known
Topics == INSTANCE ResourceLayers WITH
    Request <- {"r1", "r2"}, Layer <- <<"topic">>, Link <- Resources,
    Value <- {"n1", "n2"}, Absent <- "absent", MaxChanges <- 1,
    initialized <- flags, provider <- handed, instance <- given, resolving <- locked,
    clients <- made, set <- known

Iam == [host |-> "h1", user |-> "u", authMode |-> "iam"]
SqlSettings ==
    LET rest == [engine |-> "postgres", database |-> "d", ssl |-> "false",
                 readHost |-> "h2", password |-> "p"]
    IN  {Iam @@ rest, [Iam EXCEPT !.authMode = "password", !.host = "h2"] @@ rest,
         [Iam EXCEPT !.host = "absent"] @@ rest}
CacheSettings ==
    LET rest == [tls |-> "false", clusterMode |-> "true", keyPrefix |-> "a:",
                 authToken |-> "p", region |-> "r"]
    IN  {Iam @@ rest, [Iam EXCEPT !.authMode = "password"] @@ rest,
         [Iam EXCEPT !.user = "absent"] @@ rest}

Database == INSTANCE ResourceCredentials WITH
    Engine <- "sql", Platform <- "aws", Caller <- {"c1", "c2"},
    Pool <- [c1 |-> "writer", c2 |-> "reader"], Settings <- SqlSettings,
    Absent <- "absent", CacheFor <- 2, Validity <- 3, Latency <- 1, MaxTime <- 5, MaxChanges <- 1
CacheServer == INSTANCE ResourceCredentials WITH
    Engine <- "cache", Platform <- "aws", Caller <- {"c1", "c2"},
    Pool <- [c1 |-> "writer", c2 |-> "writer"], Settings <- CacheSettings,
    Absent <- "absent", CacheFor <- 2, Validity <- 3, Latency <- 1, MaxTime <- 5, MaxChanges <- 1

-----------------------------------------------------------------------------
Says == INSTANCE Expressions

\* Three items of one partition, some without the attribute b, and one of another.
Items == << [pk |-> 1, sk |-> 1, a |-> 1], [pk |-> 1, sk |-> 2, a |-> 2, b |-> 1],
            [pk |-> 1, sk |-> 3, a |-> 1, b |-> 2], [pk |-> 2, sk |-> 1, a |-> 2, b |-> 2] >>
A1 == Says!Condition("a", "eq", <<1>>)
B2 == Says!Condition("b", "ge", <<2>>)
HasB == Says!Condition("b", "exists", <<>>)
EitherAndB == Says!AllOf(<<Says!AnyOf(<<A1, B2>>), HasB>>)
Filters == {
    <<>>, <<A1>>, <<EitherAndB>>,
    <<Says!AnyOf(<<A1, Says!AllOf(<<HasB, B2>>)>>)>>,
    <<Says!AllOf(<<HasB, Says!AnyOf(<<Says!Condition("a", "between", <<1, 1>>),
        Says!AllOf(<<B2>>), Says!Condition("b", "ne", <<1>>)>>)>>)>>,
    <<Says!AllOf(<<>>)>>, <<Says!AnyOf(<<A1, Says!AllOf(<<>>)>>)>>}
Ranges == {<<>>, <<Says!Condition("sk", "between", <<2, 3>>)>>, <<Says!Condition("sk", "lt", <<3>>)>>}

Options(mode, key, range, filter, limit) ==
    [mode |-> mode, key |-> key, range |-> range, filter |-> filter, limit |-> limit]
Loops ==
    {Options("list", <<>>, <<>>, <<>>, limit) : limit \in {<<>>, <<1>>}}
    \cup {Options("scan", <<>>, <<>>, filter, <<2>>) : filter \in Filters}
    \cup {Options("query", <<Says!Condition("pk", "eq", <<1>>)>>, range, <<EitherAndB>>, <<1>>) :
             range \in Ranges}

AllItems == DOMAIN Items
KeyOf == [o \in Loops |-> {i \in AllItems : Says!InIndex(o, Items[i])}]
Accepted == {o \in Loops : ~Says!Rejected(o)}
PassesOf == [o \in Accepted |-> {i \in AllItems : Says!Passes(o, Items[i])}]
WantedOf == [o \in Loops |-> {i \in AllItems : Says!Wanted(o, Items[i])}]

Pages == INSTANCE Listings WITH
    Item <- AllItems, Listing <- Loops, Queried <- KeyOf, Kept <- PassesOf,
    Rejected <- Loops \ Accepted, Meant <- WantedOf,
    MaxPage <- 2, MaxLeaves <- 2, MaxChanges <- 1, pc <- step

\* DynamoDB selects with the expressions the code builds what their conditions mean.
ASSUME ExpressionsSelect == Pages!SelectsMeant

Sends == INSTANCE Batches WITH
    Service <- {"sqs", "sns", "redis-queue", "redis-topic", "dynamodb"},
    Entries <- 3, MaxBatch <- 2, MaxRounds <- 2,
    service <- sender, client <- opened, entries <- batch, pc <- sending

-----------------------------------------------------------------------------
(* One part at a time; the others' variables hold nothing. *)

NoRedis == store = <<>> /\ replica = <<>> /\ call = <<>> /\ ran = <<>> /\ seen = <<>>
NoConfigs ==
    /\ env = <<>> /\ service = <<>> /\ entries = <<>> /\ values = <<>> /\ fetch = <<>>
    /\ always = <<>> /\ had = <<>> /\ past = <<>>
NoLinks ==
    /\ present = <<>> /\ handed = <<>> /\ given = <<>> /\ locked = <<>> /\ made = <<>>
    /\ req = <<>> /\ known = <<>> /\ flags = <<>>
NoSecrets == now = <<>> /\ reader = <<>> /\ info = <<>> /\ cached = <<>> /\ conn = <<>>
NoneServed == served = <<>> /\ changes = 0

NoLoops ==
    /\ listing = <<>> /\ table = <<>> /\ cursor = <<>> /\ step = <<>> /\ start = <<>> /\ page = <<>>
    /\ next = <<>> /\ got = <<>> /\ stayed = <<>> /\ leaves = <<>>
NoSends ==
    /\ sender = <<>> /\ opened = <<>> /\ handle = <<>> /\ batch = <<>> /\ at = <<>> /\ successful = <<>>
    /\ failed = <<>> /\ sending = <<>> /\ arrived = <<>> /\ rounds = <<>> /\ threw = <<>>
Quiet == NoRedis /\ NoConfigs /\ NoLinks /\ NoSecrets

PartInit ==
    /\ Init
    /\ part \in {"layer", "cluster", "single", "config", "queues", "topics", "sql", "redis",
                "listing", "batch"}
    /\ IF part = "listing" THEN Pages!Init ELSE NoLoops
    /\ IF part = "batch" THEN Sends!Init ELSE NoSends
    /\ \/ part \in {"layer", "batch"} /\ Quiet /\ NoneServed
       \/ part = "listing" /\ Quiet /\ served = <<>>
       \/ part = "cluster" /\ Cluster!Init /\ NoConfigs /\ NoLinks /\ NoSecrets /\ NoneServed
       \/ part = "single" /\ Single!Init /\ NoConfigs /\ NoLinks /\ NoSecrets /\ NoneServed
       \/ part = "config" /\ Configuration!Init /\ NoRedis /\ NoLinks /\ NoSecrets /\ served = <<>>
       \/ part = "queues" /\ Queues!Init /\ NoRedis /\ NoConfigs /\ NoSecrets
       \/ part = "topics" /\ Topics!Init /\ NoRedis /\ NoConfigs /\ NoSecrets
       \/ part = "sql" /\ Database!Init /\ NoRedis /\ NoConfigs /\ NoLinks
       \/ part = "redis" /\ CacheServer!Init /\ NoRedis /\ NoConfigs /\ NoLinks

PartNext ==
    /\ UNCHANGED part
    /\ \/ /\ part = "layer" /\ Next
          /\ UNCHANGED <<redis, configs, links, secrets, loops, sends, served, changes>>
       \/ /\ (part = "cluster" /\ Cluster!Next) \/ (part = "single" /\ Single!Next)
          /\ UNCHANGED <<configs, links, secrets, loops, sends, served, changes, vars>>
       \/ /\ part = "config" /\ Configuration!Next
          /\ UNCHANGED <<redis, links, secrets, loops, sends, served, vars>>
       \/ /\ (part = "queues" /\ Queues!Next) \/ (part = "topics" /\ Topics!Next)
          /\ UNCHANGED <<redis, configs, secrets, loops, sends, vars>>
       \/ /\ (part = "sql" /\ Database!Next) \/ (part = "redis" /\ CacheServer!Next)
          /\ UNCHANGED <<redis, configs, links, loops, sends, vars>>
       \/ /\ part = "listing" /\ Pages!Next
          /\ UNCHANGED <<redis, configs, links, secrets, sends, served, vars>>
       \/ /\ part = "batch" /\ Sends!Next
          /\ UNCHANGED <<redis, configs, links, secrets, loops, served, changes, vars>>

PartSpec == PartInit /\ [][PartNext]_all

-----------------------------------------------------------------------------
(* The properties of the parts, named as in their modules. *)

\* RedisCache.
NoCrossSlot == part = "cluster" => Cluster!NoCrossSlot
Fulfilled ==
    /\ part = "cluster" => Cluster!Fulfilled
    /\ part = "single" => Single!Fulfilled
ScanFaithful ==
    /\ part = "cluster" => Cluster!ScanFaithful
    /\ part = "single" => Single!ScanFaithful
Isolated == [][part = "single" => Single!IsolatedStep]_<<part, redis>>

\* ConfigLayer.
FetchesWhole == part = "config" => Configuration!FetchesWhole

\* ResourceLayers.
HandlesReach ==
    /\ part = "queues" => Queues!HandlesReach
    /\ part = "topics" => Topics!HandlesReach

\* ResourceCredentials.
TokensUsable ==
    /\ part = "sql" => Database!TokensUsable
    /\ part = "redis" => CacheServer!TokensUsable

\* Listings and Batches.
NothingLost ==
    /\ part = "listing" => Pages!ListedInFull
    /\ part = "batch" => Sends!AllAccounted
ResumesExactly == part = "listing" => Pages!ResumesExactly
RequestsFit == part = "batch" => Sends!RequestsFit
=============================================================================
