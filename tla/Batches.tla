------------------------------- MODULE Batches -------------------------------
(***************************************************************************)
(* Sending many entries at once: sendMessageBatch and publishBatch of the  *)
(* queue and topic packages (SQS and SNS in requests of a few entries,     *)
(* Redis in one pipeline), and batchWriteItems and batchGetItems of the    *)
(* datastore package.  The caller sends what a result says has failed      *)
(* again, and may close the client in between.  The services are external. *)
(***************************************************************************)
EXTENDS SequencesExt

CONSTANTS
    Service,        \* of sqs, sns, redis-queue, redis-topic, dynamodb
    Entries,        \* bound: the number of entries
    MaxBatch,       \* SQS_MAX_BATCH_SIZE, and DynamoDB's own limit
    MaxRounds       \* bound: how often the caller sends what is left

VARIABLES
    service,
    client,         \* none, open, quitting
    handle,         \* the client behind the caller's handle: none, live, closed
    entries,        \* the entries of this call
    at,             \* `i`: where the next request starts
    successful, failed,
    pc,             \* idle, sending, result, thrown
    arrived,        \* entry -> how often it reached the service
    rounds,
    threw           \* some call of the caller's threw

call == <<entries, at, successful, failed, pc>>
vars == <<service, client, handle, call, arrived, rounds, threw>>

Chunked == service \in {"sqs", "sns"}
Pipelined == service \in {"redis-queue", "redis-topic"}

Init ==
    /\ service \in Service
    /\ client = "none" /\ handle = "none"
    /\ entries \in {[k \in 1 .. n |-> k] : n \in 0 .. Entries}
    /\ at = 1 /\ successful = <<>> /\ failed = <<>> /\ pc = "idle"
    /\ arrived = [e \in 1 .. Entries |-> 0]
    /\ rounds = 0 /\ threw = FALSE

Arrive(some) == arrived' = [e \in DOMAIN arrived |-> IF e \in some THEN arrived[e] + 1 ELSE arrived[e]]

-----------------------------------------------------------------------------
(* The client. *)

\* queue(name), topic(name), datastore(name): getClient opens a client if there is none.
GetHandle ==
    /\ pc # "sending" /\ handle = "none"
    /\ client' = IF client = "none" THEN "open" ELSE client
    /\ handle' = "live"
    /\ UNCHANGED <<service, call, arrived, rounds, threw>>

\* The AWS clients are destroyed at once, a Redis client is asked to quit.
Close ==
    /\ client = "open"
    /\ client' = IF Pipelined THEN "quitting" ELSE "none"
    /\ handle' = IF handle = "live" /\ ~Pipelined THEN "closed" ELSE handle
    /\ UNCHANGED <<service, call, arrived, rounds, threw>>

\* Redis answers what it was asked before the quit.
HasQuit ==
    /\ client = "quitting"
    /\ client' = "none"
    /\ handle' = IF handle = "live" THEN "closed" ELSE handle
    /\ UNCHANGED <<service, call, arrived, rounds, threw>>

-----------------------------------------------------------------------------
(* A call. *)

Begin ==
    /\ pc = "idle" /\ handle # "none" /\ rounds < MaxRounds
    /\ at' = 1 /\ successful' = <<>> /\ failed' = <<>> /\ pc' = "sending"
    /\ rounds' = rounds + 1
    /\ UNCHANGED <<service, client, handle, entries, arrived, threw>>

\* The indices of the entries that the next request is for, and the entries.
Chunk == {k \in DOMAIN entries : Chunked => at <= k /\ k < at + MaxBatch}
Request == {entries[k] : k \in Chunk}

\* A service answers in some order, on which nothing depends.
Answered(some) ==
    /\ successful' = successful \o SetToSeq(some)
    /\ failed' = failed \o SetToSeq(Request \ some)
    /\ UNCHANGED <<service, client, handle, entries, rounds, threw>>

\* Seeded fault: the next chunk starts at the last entry of this one.
SendOverlapping ==
    /\ pc = "sending" /\ Chunked /\ at <= Len(entries)
    /\ \E some \in SUBSET Request : Arrive(some) /\ Answered(some)
    /\ at' = at + (IF MaxBatch > 1 THEN MaxBatch - 1 ELSE 1)
    /\ UNCHANGED pc

\* SQS and SNS say of each entry whether it was accepted.
SendChunk ==
    /\ pc = "sending" /\ Chunked /\ at <= Len(entries)
    /\ \E some \in SUBSET Request : Arrive(some) /\ Answered(some)
    /\ at' = at + MaxBatch
    /\ UNCHANGED pc

\* A command whose answer is an error may have been carried out, unless there was no
\* connection.
ExecPipeline ==
    /\ pc = "sending" /\ Pipelined
    /\ \E did \in IF handle = "closed" THEN {{}} ELSE SUBSET Request :
          /\ Arrive(did)
          /\ \E some \in SUBSET did : Answered(some)
    /\ pc' = "result"
    /\ UNCHANGED at

\* One request, whatever its size; what is unprocessed was not carried out.
SendRequest ==
    /\ pc = "sending" /\ service = "dynamodb" /\ Len(entries) \in 1 .. MaxBatch
    /\ \E some \in SUBSET Request : Arrive(some) /\ Answered(some)
    /\ pc' = "result"
    /\ UNCHANGED at

\* The request throws, before or after it was carried out: what earlier chunks were
\* answered is lost.  DynamoDB refuses none and too many; nothing may fail where nothing
\* is requested.
RequestFails ==
    /\ pc = "sending"
    /\ Chunked => at <= Len(entries)
    /\ \E did \in IF (Pipelined /\ handle = "closed")
                     \/ (service = "dynamodb" /\ Len(entries) \notin 1 .. MaxBatch)
                  THEN {{}} ELSE SUBSET Request : Arrive(did)
    /\ pc' = "thrown" /\ threw' = TRUE
    /\ UNCHANGED <<service, client, handle, entries, at, successful, failed, rounds>>

Return ==
    /\ pc = "sending" /\ Chunked /\ at > Len(entries)
    /\ pc' = "result"
    /\ UNCHANGED <<service, client, handle, entries, at, successful, failed, arrived, rounds, threw>>

\* The caller goes on with what has failed, or with everything after an exception,
\* with a new handle or the one it has.
Again ==
    /\ pc \in {"result", "thrown"}
    /\ entries' = IF pc = "result" THEN failed ELSE entries
    /\ pc' = "idle"
    /\ handle' \in {handle, "none"}
    /\ UNCHANGED <<service, client, at, successful, failed, arrived, rounds, threw>>

Next ==
    \/ GetHandle \/ Close \/ HasQuit
    \/ Begin \/ SendChunk \/ ExecPipeline \/ SendRequest \/ RequestFails \/ Return \/ Again

Spec == Init /\ [][Next]_vars

-----------------------------------------------------------------------------
\* A result names every entry of its call once and none twice; what it calls
\* successful has arrived.  A call that throws has sent nothing after the request that
\* failed.  Whoever resends exactly what failed sends nothing twice, unless a call of
\* his threw, which loses the results of the chunks before (sqs-queue.ts:99), or the
\* service is Redis, whose errors do not say that nothing was done.
AllAccounted ==
    /\ pc = "result" =>
          /\ IsInjective(successful \o failed)
          /\ ToSet(successful) \cup ToSet(failed) = ToSet(entries)
          /\ \A e \in ToSet(successful) : arrived[e] > 0
    /\ pc = "thrown" /\ rounds = 1 =>
          \A k \in DOMAIN entries : arrived[entries[k]] > 0 => k < at \/ k \in Chunk
    /\ ~threw /\ ~Pipelined => \A e \in DOMAIN arrived : arrived[e] <= 1

\* "The batch may be split into multiple requests if it exceeds provider limits"
\* (datastore/src/types.ts:76, 89), as SQS and SNS do with theirs: no request is for
\* more entries than the service takes.
RequestsFit == pc = "sending" /\ ~Pipelined => Cardinality(Chunk) <= MaxBatch
=============================================================================
