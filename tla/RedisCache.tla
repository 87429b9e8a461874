----------------------------- MODULE RedisCache -----------------------------
(***************************************************************************)
(* The Redis provider of the cache                                         *)
(* (packages/cache/src/providers/redis/redis-cache.ts): the methods of a   *)
(* cache handle, the builder of its transactions, the fan-out of its batch *)
(* methods over the slots of a cluster and its scans.                      *)
(*                                                                         *)
(* A query is a record: op, the method; keys, the user's keys; args, the   *)
(* rest of its arguments in the order the server takes them, flattened;    *)
(* opt, the options that are given.  A key is a sequence of code units.    *)
(* Calls overlap at every await, that is after every command.              *)
(*                                                                         *)
(* The servers keep abstract contents: Absent, a value a query gave, or    *)
(* Touched for what a command on a typed value leaves.  In cluster mode    *)
(* the client reads from replicas (scaleReads: "slave"), which follow the  *)
(* master key by key, and a command whose reply is lost is sent again or   *)
(* given up, as ioredis does.                                              *)
(***************************************************************************)
EXTENDS Integers, Sequences, SequencesExt

CONSTANTS
    Caller,         \* the calls that may overlap
    KeyPrefix,      \* handle -> its key prefix, <<>> for none
    Queries,        \* caller -> the queries it may make
    ClusterMode,
    Key,            \* the keys the servers hold, prefix included
    ClientSlot,     \* key -> the slot the client computes
    ServerSlot,       \* key -> the slot the cluster computes
    Masters,        \* the cluster's masters, in order
    MasterOf,       \* key -> the master that holds it
    Absent,
    MaxResend       \* bound: how often one call's commands are sent again

Handle == DOMAIN KeyPrefix
Touched == "touched"
Star == 42
Cmd(name, keys, args) == [cmd |-> name, keys |-> keys, args |-> args, parts |-> <<>>]

VARIABLES
    store,      \* key -> its content on its master
    replica,    \* key -> its content where reads go
    call,       \* caller -> its call
    ran,        \* history: caller -> the commands that took effect, in order
    seen        \* history: caller -> key -> its contents during the call

vars == <<store, replica, call, ran, seen>>

-----------------------------------------------------------------------------
(* Key prefixes. *)

PrefixKey(h, key) == KeyPrefix[h] \o key
PrefixKeys(h, keys) == [i \in DOMAIN keys |-> PrefixKey(h, keys[i])]
StripPrefix(h, key) ==
    IF IsPrefix(KeyPrefix[h], key)
    THEN SubSeq(key, Len(KeyPrefix[h]) + 1, Len(key)) ELSE key

-----------------------------------------------------------------------------
(* The command of each method on one key. *)

When(condition, words) == IF condition THEN words ELSE <<>>

\* get .. append, but set: the key prefixed, the arguments as they are.
CoreCommand == [get |-> "get", delete |-> "del", ttl |-> "ttl",
                getSet |-> "getset", append |-> "append"]
KeyCommand == [exists |-> "exists", expire |-> "expire", persist |-> "persist",
               type |-> "type"]
HashCommand == [hashGet |-> "hget", hashSet |-> "hset", hashDelete |-> "hdel",
                hashGetAll |-> "hgetall", hashExists |-> "hexists",
                hashKeys |-> "hkeys", hashLen |-> "hlen"]
ListCommand == [listRange |-> "lrange", listLen |-> "llen", listTrim |-> "ltrim",
                listIndex |-> "lindex"]
SetCommand == [setAdd |-> "sadd", setRemove |-> "srem", setMembers |-> "smembers",
               setIsMember |-> "sismember", setLen |-> "scard"]
SortedSetCommand ==
    [sortedSetAdd |-> "zadd", sortedSetRemove |-> "zrem", sortedSetScore |-> "zscore",
     sortedSetLen |-> "zcard", sortedSetCountByScore |-> "zcount",
     sortedSetRemoveByRank |-> "zremrangebyrank",
     sortedSetRemoveByScore |-> "zremrangebyscore"]
Tables == {CoreCommand, KeyCommand, HashCommand, ListCommand, SetCommand,
           SortedSetCommand, [incrFloat |-> "incrbyfloat"]}
Forwarded == [op \in UNION {DOMAIN table : table \in Tables} |->
                (CHOOSE table \in Tables : op \in DOMAIN table)[op]]

SetCommandOf(k, q) ==
    Cmd("set", <<k>>, q.args \o When("ttl" \in q.opt, <<"EX", "ttl">>)
        \o (IF "ifNotExists" \in q.opt THEN <<"NX">>
            ELSE When("ifExists" \in q.opt, <<"XX">>)))

\* An amount of 1 is left to the command that has none.
Counter(k, q, plain, by) ==
    IF q.args \in {<<>>, <<1>>} THEN Cmd(plain, <<k>>, <<>>) ELSE Cmd(by, <<k>>, q.args)

HashIncr(k, q) == Cmd("hincrby", <<k>>, IF Len(q.args) = 1 THEN q.args \o <<1>> ELSE q.args)

ListPush(k, q) == Cmd(IF "left" \in q.opt THEN "lpush" ELSE "rpush", <<k>>, q.args)
ListPop(k, q) ==
    Cmd(IF "right" \in q.opt THEN "rpop" ELSE "lpop", <<k>>,
        When(q.args # <<1>>, q.args))

SortedSetRank(k, q) ==
    Cmd(IF "reverse" \in q.opt THEN "zrevrank" ELSE "zrank", <<k>>, q.args)
SortedSetRange(k, q) ==
    Cmd(IF "reverse" \in q.opt THEN "zrevrange" ELSE "zrange", <<k>>,
        q.args \o When("withScores" \in q.opt, <<"WITHSCORES">>))
SortedSetRangeByScore(k, q) ==
    Cmd(IF "reverse" \in q.opt THEN "zrevrangebyscore" ELSE "zrangebyscore", <<k>>,
        (IF "reverse" \in q.opt THEN Reverse(q.args) ELSE q.args)
        \o When("withScores" \in q.opt, <<"WITHSCORES">>)
        \o When({"offset", "count"} \subseteq q.opt, <<"LIMIT", "offset", "count">>))
\* The amount comes before the member.
SortedSetIncr(k, q) == Cmd("zincrby", <<k>>, Reverse(q.args))

DirectCommand(h, q) ==
    LET k == PrefixKey(h, q.keys[1]) IN
    CASE q.op \in DOMAIN Forwarded -> Cmd(Forwarded[q.op], <<k>>, q.args)
      [] q.op = "set" -> SetCommandOf(k, q)
      [] q.op = "incr" -> Counter(k, q, "incr", "incrby")
      [] q.op = "decr" -> Counter(k, q, "decr", "decrby")
      [] q.op = "hashIncr" -> HashIncr(k, q)
      [] q.op = "listPush" -> ListPush(k, q)
      [] q.op = "listPop" -> ListPop(k, q)
      [] q.op = "sortedSetRank" -> SortedSetRank(k, q)
      [] q.op = "sortedSetRange" -> SortedSetRange(k, q)
      [] q.op = "sortedSetRangeByScore" -> SortedSetRangeByScore(k, q)
      [] q.op = "sortedSetIncr" -> SortedSetIncr(k, q)
      [] q.op = "rename" -> Cmd("rename", PrefixKeys(h, q.keys), <<>>)

-----------------------------------------------------------------------------
(* Transactions: the builder's own translation of its twenty methods. *)

QueuedName == [delete |-> "del", getSet |-> "getset", append |-> "append",
               incrFloat |-> "incrbyfloat", hashSet |-> "hset", hashDelete |-> "hdel",
               listTrim |-> "ltrim", setAdd |-> "sadd", setRemove |-> "srem",
               sortedSetAdd |-> "zadd", sortedSetRemove |-> "zrem",
               expire |-> "expire", persist |-> "persist", rename |-> "rename"]

QueuedCounter(q, plain, by) ==
    IF q.args \notin {<<>>, <<1>>} THEN <<by, q.args>> ELSE <<plain, <<>> >>

\* As below, but an unscored push goes to the other end.
QueuedCallTurned(q) ==
    IF q.op = "listPush" THEN <<IF "right" \in q.opt THEN "rpush" ELSE "lpush", q.args>>
    ELSE IF q.op \in DOMAIN QueuedName THEN <<QueuedName[q.op], q.args>>
    ELSE <<q.op, q.args>>

QueuedCall(q) ==
    CASE q.op \in DOMAIN QueuedName -> <<QueuedName[q.op], q.args>>
      [] q.op = "set" ->
            <<"set", q.args \o When("ttl" \in q.opt, <<"EX", "ttl">>)
                \o (IF "ifNotExists" \in q.opt THEN <<"NX">>
                    ELSE IF "ifExists" \in q.opt THEN <<"XX">> ELSE <<>>)>>
      [] q.op = "incr" -> QueuedCounter(q, "incr", "incrby")
      [] q.op = "decr" -> QueuedCounter(q, "decr", "decrby")
      [] q.op = "hashIncr" ->
            <<"hincrby", IF Len(q.args) > 1 THEN q.args ELSE Append(q.args, 1)>>
      [] q.op = "listPush" -> <<IF "left" \in q.opt THEN "lpush" ELSE "rpush", q.args>>
      [] q.op = "sortedSetIncr" -> <<"zincrby", <<q.args[2], q.args[1]>> >>

BuilderKeysUnprefixed(h, q) ==
    [i \in DOMAIN q.keys |-> IF i = 1 THEN KeyPrefix[h] \o q.keys[i] ELSE q.keys[i]]

\* The builder's prefixedKey: it also records the key for the slot check.
BuilderKeys(h, q) == [i \in DOMAIN q.keys |-> KeyPrefix[h] \o q.keys[i]]

Queued(h, q) == Cmd(QueuedCall(q)[1], BuilderKeys(h, q), QueuedCall(q)[2])

TransactionFirstKeys(h, q) ==
    LET parts == [i \in DOMAIN q.args |-> Queued(h, q.args[i])]
    IN  [cmd |-> "multi", keys |-> [i \in DOMAIN parts |-> parts[i].keys[1]],
         args |-> <<>>, parts |-> parts]

Transaction(h, q) ==
    LET parts == [i \in DOMAIN q.args |-> Queued(h, q.args[i])]
        keys == FlattenSeq([i \in DOMAIN q.args |-> BuilderKeys(h, q.args[i])])
    IN  [cmd |-> "multi", keys |-> keys, args |-> <<>>, parts |-> parts]

-----------------------------------------------------------------------------
(* Batches: the keys of one command, or in cluster mode one command for    *)
(* each slot, in the order the slots first appear.                         *)

AllSame(keys) == \A i \in DOMAIN keys : ClientSlot[keys[i]] = ClientSlot[keys[1]]

\* A set of indices in order.
Ascending(indices) ==
    CHOOSE s \in [1 .. Cardinality(indices) -> indices] :
        \A i, j \in DOMAIN s : i < j => s[i] < s[j]

GroupBySlot(keys) ==
    LET slot(i) == ClientSlot[keys[i]]
        leaders == Ascending({i \in DOMAIN keys : \A j \in 1 .. (i - 1) : slot(j) # slot(i)})
    IN  [g \in DOMAIN leaders |-> Ascending({i \in DOMAIN keys : slot(i) = slot(leaders[g])})]

Groups(keys) ==
    IF ~ClusterMode \/ Len(keys) <= 1
    THEN << [i \in 1 .. Len(keys) |-> i] >> ELSE GroupBySlot(keys)

Picked(seq, indices) == [j \in DOMAIN indices |-> seq[indices[j]]]

MGet(h, q) ==
    LET keys == PrefixKeys(h, q.keys) IN
    [g \in DOMAIN Groups(keys) |-> Cmd("mget", Picked(keys, Groups(keys)[g]), <<>>)]
MSet(h, q) ==
    LET keys == PrefixKeys(h, q.keys) IN
    [g \in DOMAIN Groups(keys) |->
        Cmd("mset", Picked(keys, Groups(keys)[g]), Picked(q.args, Groups(keys)[g]))]
MDelete(h, q) ==
    LET keys == PrefixKeys(h, q.keys) IN
    [g \in DOMAIN Groups(keys) |-> Cmd("del", Picked(keys, Groups(keys)[g]), <<>>)]

OneSlot == [setUnion |-> "sunion", setIntersect |-> "sinter", setDiff |-> "sdiff"]

\* A scan asks each master, or the only server, for the keys of its pattern.
ScanMatch(h, q) ==
    IF "match" \in q.opt THEN <<PrefixKey(h, q.keys[1])>>
    ELSE When(KeyPrefix[h] # <<>>, <<Append(KeyPrefix[h], Star)>>)
ScanFirstMaster(h, q) ==
    <<Cmd("scan", <<>>, <<ScanMatch(h, q), When(ClusterMode, <<Masters[1]>>)>>)>>

Scan(h, q) ==
    [n \in 1 .. (IF ClusterMode THEN Len(Masters) ELSE 1) |->
        Cmd("scan", <<>>, <<ScanMatch(h, q), When(ClusterMode, <<Masters[n]>>)>>)]

\* The commands a call sends, in order.
Commands(h, q) ==
    CASE q.op = "mget" -> MGet(h, q)
      [] q.op = "mset" -> MSet(h, q)
      [] q.op = "mdelete" -> MDelete(h, q)
      [] q.op \in DOMAIN OneSlot -> <<Cmd(OneSlot[q.op], PrefixKeys(h, q.keys), <<>>)>>
      [] q.op = "scan" -> Scan(h, q)
      [] q.op = "transaction" -> When(q.args # <<>>, <<Transaction(h, q)>>)
      [] OTHER -> <<DirectCommand(h, q)>>

\* assertSameSlot refuses the call before anything is sent.
SlotRefused(q, commands) ==
    /\ ClusterMode
    /\ q.op \in {"rename", "transaction"} \cup DOMAIN OneSlot
    /\ \E i \in DOMAIN commands : ~AllSame(commands[i].keys)

-----------------------------------------------------------------------------
(* The servers. *)

\* The commands that leave what a key holds as it is.
KeepsContent == {"get", "mget", "ttl", "exists", "type", "hget", "hgetall", "hexists",
             "hkeys", "hlen", "lrange", "llen", "lindex", "smembers", "sismember",
             "scard", "sunion", "sinter", "sdiff", "zscore", "zrank", "zrevrank",
             "zrange", "zrevrange", "zrangebyscore", "zrevrangebyscore", "zcard",
             "zcount", "expire", "persist", "scan"}
Shrinking == {"hdel", "lpop", "rpop", "ltrim", "srem", "zrem", "zremrangebyrank",
              "zremrangebyscore"}

\* The contents after one command.
WriteTo(content, c) ==
    LET k == c.keys[1] IN
    CASE c.cmd \in KeepsContent -> content
      [] c.cmd = "set" ->
            IF \/ content[k] # Absent /\ Contains(Tail(c.args), "NX")
               \/ content[k] = Absent /\ Contains(Tail(c.args), "XX")
            THEN content ELSE [content EXCEPT ![k] = c.args[1]]
      [] c.cmd = "getset" -> [content EXCEPT ![k] = c.args[1]]
      [] c.cmd = "mset" ->
            [x \in DOMAIN content |->
                IF Contains(c.keys, x) THEN c.args[Max({i \in DOMAIN c.keys : c.keys[i] = x})]
                ELSE content[x]]
      [] c.cmd = "del" ->
            [x \in DOMAIN content |-> IF Contains(c.keys, x) THEN Absent ELSE content[x]]
      [] c.cmd = "rename" ->
            IF content[k] = Absent THEN content
            ELSE [[content EXCEPT ![k] = Absent] EXCEPT ![c.keys[2]] = content[k]]
      [] c.cmd \in Shrinking /\ content[k] = Absent -> content
      [] OTHER -> [content EXCEPT ![k] = Touched]

Applied(content, commands) ==
    LET after[i \in 0 .. Len(commands)] ==
            IF i = 0 THEN content ELSE WriteTo(after[i - 1], commands[i])
    IN  after[Len(commands)]

\* What a command sent as one unit runs on the server.
Parts(c) == IF c.cmd = "multi" THEN c.parts ELSE <<c>>

\* A glob whose only special character is a star at its end.
Matches(pattern, k) ==
    \/ pattern = <<>>
    \/ IF Last(pattern[1]) = Star THEN IsPrefix(Front(pattern[1]), k) ELSE k = pattern[1]

Blank == [k \in Key |-> Absent]
Full == [k \in Key |-> "old"]
Unseen == [k \in Key |-> {}]

Init ==
    /\ store \in {Blank, Full}
    /\ replica = store
    /\ call = [c \in Caller |-> [st |-> "idle"]]
    /\ ran = [c \in Caller |-> <<>>]
    /\ seen = [c \in Caller |-> Unseen]

-----------------------------------------------------------------------------
(* Calls. *)

Running(c) == call[c].st = "running"
Current(c) == call[c].cmds[call[c].at]

\* Where the reads of a query go: scans ask the masters.
FromReplica(q) == ClusterMode /\ q.op # "scan"
Read(q, k) == IF FromReplica(q) THEN replica[k] ELSE store[k]

FirstOut(q) ==
    CASE q.op = "mget" -> [i \in DOMAIN q.keys |-> Absent]
      [] q.op = "mdelete" -> 0
      [] q.op = "scan" -> {}
      [] OTHER -> <<>>

Begin(c, h, q) ==
    LET commands == Commands(h, q) IN
    /\ call[c].st = "idle"
    /\ call' = [call EXCEPT ![c] =
            [h |-> h, q |-> q, cmds |-> commands, at |-> 1, got |-> {}, resent |-> 0,
             out |-> FirstOut(q),
             st |-> CASE SlotRefused(q, commands) -> "error"
                      [] commands = <<>> -> "ok"
                      [] OTHER -> "running"]]
    /\ seen' = IF q.op \in {"get", "mget", "scan"}
               THEN [seen EXCEPT ![c] = [k \in Key |-> {Read(q, k)}]] ELSE seen
    /\ UNCHANGED <<store, replica, ran>>

\* What every call that is under way has seen so far.
Observe(masters, replicas) ==
    seen' = [c \in Caller |->
        IF Running(c) /\ call[c].q.op \in {"get", "mget", "scan"}
        THEN LET contents == IF FromReplica(call[c].q) THEN replicas ELSE masters
             IN  [k \in Key |-> seen[c][k] \cup {contents[k]}]
        ELSE seen[c]]

\* The server carries out these parts of the current command.
Effect(c, parts) ==
    LET after == Applied(store, parts)
        lagging == IF ClusterMode THEN replica ELSE after
    IN  /\ store' = after
        /\ replica' = lagging
        /\ ran' = [ran EXCEPT ![c] = @ \o parts]
        /\ Observe(after, lagging)

Possible(content, parts) ==
    \A i \in DOMAIN parts :
        parts[i].cmd = "rename" =>
            Applied(content, SubSeq(parts, 1, i - 1))[parts[i].keys[1]] # Absent

\* The servers' replies the model keeps apart; 1 stands for the others.
Reply(q, c) ==
    LET present == Cardinality({k \in ToSet(c.keys) : store[k] # Absent}) IN
    CASE c.cmd = "get" -> Read(q, c.keys[1])
      [] c.cmd = "set" ->
            IF \/ Contains(Tail(c.args), "NX") /\ present = 1
               \/ Contains(Tail(c.args), "XX") /\ present = 0 THEN Absent ELSE "OK"
      [] c.cmd \in {"del", "exists"} -> present
      [] c.cmd \in {"lpop", "rpop"} -> store[c.keys[1]]
      [] OTHER -> 1

\* What a method on one key makes of the reply.
Decoded(op, reply) ==
    CASE op = "set" -> reply = "OK"
      [] op \in {"delete", "exists"} -> reply > 0
      [] op \in {"expire", "persist", "hashExists", "setIsMember"} -> reply = 1
      [] op = "listPop" -> IF reply = Absent THEN <<>> ELSE <<reply>>
      [] OTHER -> reply

\* The values of one group, put where its keys are among the call's.
Filled(now, keys) ==
    LET group == Groups(PrefixKeys(now.h, now.q.keys))[now.at] IN
    [i \in DOMAIN now.out |->
        IF Contains(group, i)
        THEN Read(now.q, keys[CHOOSE j \in DOMAIN group : group[j] = i])
        ELSE now.out[i]]

\* What the loop over the groups makes of a reply.
OutAfter(c) ==
    LET now == call[c]  keys == Current(c).keys  op == now.q.op IN
    CASE op = "mget" -> Filled(now, keys)
      [] op = "mdelete" -> now.out + Reply(now.q, Current(c))
      [] op \in {"mset", "transaction"} \cup DOMAIN OneSlot -> now.out
      [] OTHER -> <<Decoded(op, Reply(now.q, Current(c)))>>

\* What a loop over the groups or the pages keeps between two commands.
Kept(now, at, got, out, st) ==
    [h |-> now.h, q |-> now.q, cmds |-> now.cmds, resent |-> now.resent,
     at |-> at, got |-> got, out |-> out, st |-> st]

Advance(c, got, out) ==
    LET now == call[c]
        st == IF now.at = Len(now.cmds) THEN "ok" ELSE "running"
    IN  call' = [call EXCEPT ![c] = Kept(now, now.at + 1, got, out, st)]

Reject(c) == call' = [call EXCEPT ![c].st = "error"]

\* The command is carried out and its reply arrives.
Executed(c) ==
    /\ Running(c)
    /\ Current(c).cmd # "scan"
    /\ Possible(store, Parts(Current(c)))
    /\ Effect(c, Parts(Current(c)))
    /\ Advance(c, call[c].got, OutAfter(c))

\* Some part is answered with an error, and the call is rejected; the other
\* parts of a transaction are carried out all the same.
Failed(c) ==
    /\ Running(c)
    /\ \E failed \in SUBSET DOMAIN Parts(Current(c)) :
        LET parts == Parts(Current(c))
        IN  failed # {} /\ Effect(c, Picked(parts, Ascending(DOMAIN parts \ failed)))
    /\ Reject(c)

\* The connection is lost after the command and before its reply.
Resend(c) ==
    /\ Running(c)
    /\ call[c].resent < MaxResend
    /\ Effect(c, Parts(Current(c)))
    /\ call' = [call EXCEPT ![c].resent = @ + 1]

GiveUp(c) ==
    /\ Running(c)
    /\ Effect(c, Parts(Current(c)))
    /\ Reject(c)

\* The keys of the current node that match the pattern.
Here(c) ==
    {k \in Key : /\ store[k] # Absent
                 /\ ClusterMode => <<MasterOf[k]>> = Current(c).args[2]
                 /\ Matches(Current(c).args[1], k)}

Stripped(h, keys) == {StripPrefix(h, k) : k \in keys}

\* One SCAN of the current node: a page and a cursor, which is 0 only when the
\* keys that were there all along have been returned.
ScanOnce(c) ==
    LET now == call[c] IN
    /\ Running(c)
    /\ Current(c).cmd = "scan"
    /\ \E page \in SUBSET Here(c) :
        LET got == now.got \cup page
            out == now.out \cup Stripped(now.h, page)
        IN  \/ /\ \A k \in Here(c) : Absent \in seen[c][k] \/ k \in got
               /\ Advance(c, got, out)
            \/ call' = [call EXCEPT ![c] = Kept(now, now.at, got, out, now.st)]
    /\ Observe(store, replica)
    /\ UNCHANGED <<store, replica, ran>>

Replicate(k) ==
    /\ replica[k] # store[k]
    /\ LET caughtUp == [replica EXCEPT ![k] = store[k]]
       IN  replica' = caughtUp /\ Observe(store, caughtUp)
    /\ UNCHANGED <<store, call, ran>>

Next ==
    \/ \E c \in Caller :
        \/ \E h \in Handle, q \in Queries[c] : Begin(c, h, q)
        \/ Executed(c) \/ Failed(c) \/ Resend(c) \/ GiveUp(c) \/ ScanOnce(c)
    \/ \E k \in Key : Replicate(k)

Spec == Init /\ [][Next]_vars

-----------------------------------------------------------------------------
(* Properties. *)

Resolved(c) == call[c].st = "ok"

\* The commands a batch or a transaction stands for, one key at a time.
OneByOne(h, q) ==
    CASE q.op = "mset" ->
            [i \in DOMAIN q.keys |-> Cmd("set", <<PrefixKey(h, q.keys[i])>>, <<q.args[i]>>)]
      [] q.op = "mdelete" ->
            [i \in DOMAIN q.keys |-> Cmd("del", <<PrefixKey(h, q.keys[i])>>, <<>>)]
      [] q.op = "transaction" -> [i \in DOMAIN q.args |-> DirectCommand(h, q.args[i])]

\* No command that reaches a cluster has keys of two slots, as the cluster
\* computes them: batches are split, the other methods refuse (RedisCache,
\* groupBySlot and assertSameSlot).
NoCrossSlot ==
    \A c \in Caller :
        ClusterMode /\ Running(c) =>
            \A j, k \in UNION {ToSet(p.keys) : p \in ToSet(Parts(Current(c)))} :
                ServerSlot[j] = ServerSlot[k]

\* A transaction that resolves has run the commands the direct methods send; a
\* batch that resolves has the effect of its entries one by one, whatever slots
\* they fall into; and each value of a get or an mget is one its key had, where reads
\* go, while the call was under way.
Fulfilled ==
    \A c \in Caller : Resolved(c) =>
        /\ call[c].q.op = "transaction" =>
            SubSeq(ran[c], 1, Len(call[c].q.args)) = OneByOne(call[c].h, call[c].q)
        /\ call[c].q.op \in {"mset", "mdelete"} =>
            \A content \in {Blank, Full} :
                Applied(content, ran[c])
                    = Applied(content, OneByOne(call[c].h, call[c].q))
        /\ call[c].q.op = "mget" =>
            \A i \in DOMAIN call[c].out :
                call[c].out[i] \in seen[c][PrefixKey(call[c].h, call[c].q.keys[i])]
        /\ call[c].q.op = "get" =>
            call[c].out[1] \in seen[c][PrefixKey(call[c].h, call[c].q.keys[1])]

\* A scan that ends has yielded every key of its handle that was there all the
\* time and matches, and only keys with which the same handle could find an entry.
ScanFaithful ==
    \A c \in Caller : (Resolved(c) /\ call[c].q.op = "scan") =>
        LET now == call[c]
            wanted(u) == "match" \in now.q.opt => Matches(now.q.keys, u)
        IN
        /\ \A k \in Key :
            (/\ IsPrefix(KeyPrefix[now.h], k)
             /\ Absent \notin seen[c][k]
             /\ wanted(StripPrefix(now.h, k))) => StripPrefix(now.h, k) \in now.out
        /\ \A u \in now.out :
            /\ PrefixKey(now.h, u) \in Key
            /\ seen[c][PrefixKey(now.h, u)] # {Absent}

\* What a key holds changes only by a step of a call on a handle whose prefix it
\* has, through a method, a batch or a transaction.
IsolatedStep ==
    \A k \in Key :
        store'[k] # store[k] =>
            \E c \in Caller : /\ Running(c)
                              /\ IsPrefix(KeyPrefix[call[c].h], k)
                              /\ call'[c] # call[c]
Isolated == [][IsolatedStep]_vars

=============================================================================
