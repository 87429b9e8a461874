---------------------------- MODULE MCRedisSlots ----------------------------
(* A batch over two keys of one character each, U+00E9 and U+01E9: their    *)
(* low bytes agree and their UTF-8 encodings do not.                        *)
EXTENDS RedisSlots

VARIABLES store, replica, call, ran, seen

Keys == {<<233>>, <<489>>}
ClientSlots == [k \in Keys |-> HashSlot(k)]
ClusterSlots == [k \in Keys |-> NodeSlot(k)]
Batch == [op |-> "mget", keys |-> << <<233>>, <<489>> >>, args |-> <<>>, opt |-> {}]

Cluster == INSTANCE RedisCache WITH
    Caller <- {"c1"}, KeyPrefix <- [h1 |-> <<>>], Queries <- [c1 |-> {Batch}],
    ClusterMode <- TRUE, Key <- Keys, ClientSlot <- ClientSlots,
    ServerSlot <- ClusterSlots, Masters <- <<"m1">>, MasterOf <- [k \in Keys |-> "m1"],
    Absent <- "absent", MaxResend <- 0

Spec == Cluster!Spec

\* groupBySlot's commands have keys of one slot of the cluster.
NoCrossSlot == Cluster!NoCrossSlot
=============================================================================
