-------------------------- MODULE ConsumerDelivery --------------------------
(***************************************************************************)
(* A queue's messages on their way through the AWS consumer: SQS and its   *)
(* Lambda poller (external, modelled from the partial batch response the   *)
(* adapter answers with), AwsLambdaAdapter.createConsumerHandler,          *)
(* mapSqsEvent, ValidationLayer.validateConsumer, executeConsumerPipeline  *)
(* and mapConsumerResultToSqsBatchResponse.                                *)
(*                                                                         *)
(* A message stays in the queue until a response that does not name it.    *)
(* Between the two, a handler may throw, answer with undefined, leave      *)
(* failures out of its answer or refuse a message, a layer may not call it,*)
(* an environment may die and a visibility timeout may run out while the   *)
(* batch is worked on.  `excused` remembers whom such a misfortune befell. *)
(***************************************************************************)
EXTENDS Naturals, FiniteSets

CONSTANTS
    Messages,       \* the messages of the queue
    Bad,            \* those whose body the schema rejects
    HasSchema,      \* whether the handler declares a message schema
    Envs,           \* the Lambda environments that take batches at the same time
    BatchSize,      \* the event source mapping's batch size
    MaxReceives     \* its maximum receive count: then a message is dead

\* The places of a message that is not in flight.
Waiting == "waiting"
Gone == "gone"

ASSUME DeliveryAssumption ==
    /\ Bad \subseteq Messages
    /\ Waiting \notin Envs /\ Gone \notin Envs
    /\ HasSchema \in BOOLEAN
    /\ BatchSize \in Nat \ {0}
    /\ MaxReceives \in Nat

VARIABLES
    registered,     \* whether the adapter finds a handler for the queue
    held,           \* message -> its place: Waiting, Gone, or the environment it is in flight to
    receives,       \* message -> how often it was received
    handled,        \* message -> how often a handler has done its work
    pc,             \* environment -> where its invocation stands
    batch,          \* environment -> the messages it was invoked with
    given,          \* environment -> those that the handler sees
    worked,         \* environment -> those its handler has done the work of
    failures,       \* environment -> the failures of its result
    cause,          \* environment -> how its result came about
    excused         \* history: the messages a misfortune kept from a plain receipt

queue == <<held, receives>>
invocation == <<pc, batch, given, worked, failures, cause>>
vars == <<registered, queue, handled, invocation, excused>>

Init ==
    /\ registered \in BOOLEAN
    /\ held = [m \in Messages |-> Waiting]
    /\ receives = [m \in Messages |-> 0]
    /\ handled = [m \in Messages |-> 0]
    /\ pc = [e \in Envs |-> "idle"]
    /\ batch = [e \in Envs |-> {}]
    /\ given = [e \in Envs |-> {}]
    /\ worked = [e \in Envs |-> {}]
    /\ failures = [e \in Envs |-> {}]
    /\ cause = [e \in Envs |-> "none"]
    /\ excused = {}

-----------------------------------------------------------------------------
(* The queue.                                                              *)

\* The poller invokes an idle environment with some waiting messages.
Receive(e, B) ==
    /\ pc[e] = "idle"
    /\ B # {}
    /\ Cardinality(B) <= BatchSize
    /\ \A m \in B : held[m] = Waiting /\ receives[m] < MaxReceives
    /\ held' = [m \in Messages |-> IF m \in B THEN e ELSE held[m]]
    /\ receives' = [m \in Messages |-> IF m \in B THEN receives[m] + 1 ELSE receives[m]]
    /\ pc' = [pc EXCEPT ![e] = "invoked"]
    /\ batch' = [batch EXCEPT ![e] = B]
    /\ given' = [given EXCEPT ![e] = {}]
    /\ worked' = [worked EXCEPT ![e] = {}]
    /\ failures' = [failures EXCEPT ![e] = {}]
    /\ cause' = [cause EXCEPT ![e] = "none"]
    /\ UNCHANGED <<registered, handled, excused>>

\* The visibility timeout of a message in flight runs out.
Expire(m) ==
    /\ held[m] \in Envs
    /\ held' = [held EXCEPT ![m] = Waiting]
    /\ excused' = excused \cup {m}
    /\ UNCHANGED <<registered, receives, handled, invocation>>

\* An invocation that ends in an error: its messages come back.
Release(e) ==
    /\ held' = [m \in Messages |-> IF held[m] = e THEN Waiting ELSE held[m]]
    /\ excused' = excused \cup batch[e]
    /\ pc' = [pc EXCEPT ![e] = "idle"]
    /\ UNCHANGED <<registered, receives, handled, batch, given, worked, failures, cause>>

\* The environment is lost or runs into the function's timeout.
Crash(e) ==
    /\ pc[e] # "idle"
    /\ Release(e)

\* Seeded fault: a response that keeps the whole batch if anything failed.
DeliveredAllOrNone(e) == IF failures[e] = {} THEN batch[e] ELSE {}

\* The poller deletes the messages of the batch that the response does not name.
Delivered(e) == batch[e] \ failures[e]

\* A message received again in the meantime is deleted or not: its receipt is stale.
Answer(e) ==
    /\ pc[e] = "answering"
    /\ \E stale \in SUBSET {m \in Delivered(e) : held[m] # e} :
          held' = [m \in Messages |->
                     IF m \in Delivered(e) \ stale THEN Gone
                     ELSE IF held[m] = e THEN Waiting ELSE held[m]]
    /\ pc' = [pc EXCEPT ![e] = "idle"]
    /\ UNCHANGED <<registered, receives, handled, batch, given, worked, failures, cause,
                   excused>>

-----------------------------------------------------------------------------
(* The adapter and the pipeline.                                           *)

Respond(e, reported, why, spoilt) ==
    /\ failures' = [failures EXCEPT ![e] = reported]
    /\ cause' = [cause EXCEPT ![e] = why]
    /\ pc' = [pc EXCEPT ![e] = "answering"]
    /\ excused' = excused \cup spoilt
    /\ UNCHANGED <<registered, queue, handled, batch, given, worked>>

\* No handler for the queue: an empty list of failures.
Unrouted(e) ==
    /\ pc[e] = "invoked"
    /\ ~registered
    /\ Respond(e, {}, "unrouted", {})

Valid(e) == IF HasSchema THEN batch[e] \ Bad ELSE batch[e]
Invalid(e) == batch[e] \ given[e]

\* Seeded fault: no valid message counts as no validation.
ValidateFallsBack(e) ==
    /\ pc[e] = "invoked" /\ registered
    /\ given' = [given EXCEPT ![e] = IF Valid(e) = {} THEN batch[e] ELSE Valid(e)]
    /\ pc' = [pc EXCEPT ![e] = "handling"]
    /\ UNCHANGED <<registered, queue, handled, batch, worked, failures, cause, excused>>

\* Seeded fault: the first body that does not parse ends the pipeline.
ValidateThrows(e) ==
    /\ pc[e] = "invoked" /\ registered
    /\ IF HasSchema /\ batch[e] \cap Bad # {}
       THEN Respond(e, {}, "threw", {})
       ELSE /\ given' = [given EXCEPT ![e] = batch[e]]
            /\ pc' = [pc EXCEPT ![e] = "handling"]
            /\ UNCHANGED <<registered, queue, handled, batch, worked, failures, cause, excused>>

\* validateConsumer keeps the messages that parse; the rest become failures.
Validate(e) ==
    /\ pc[e] = "invoked"
    /\ registered
    /\ given' = [given EXCEPT ![e] = Valid(e)]
    /\ pc' = [pc EXCEPT ![e] = "handling"]
    /\ UNCHANGED <<registered, queue, handled, batch, worked, failures, cause, excused>>

\* The handler does the work of one of the messages it was given.
Work(e, m) ==
    /\ pc[e] = "handling"
    /\ m \in given[e] \ worked[e]
    /\ worked' = [worked EXCEPT ![e] = @ \cup {m}]
    /\ handled' = [handled EXCEPT ![m] = @ + 1]
    /\ UNCHANGED <<registered, queue, pc, batch, given, failures, cause, excused>>

\* A layer, the construction of the handler or the handler throws: the pipeline
\* catches it and answers { success: false, errorMessage }, without failures.
Throws(e) ==
    /\ pc[e] \in {"invoked", "handling"}
    /\ registered
    /\ Respond(e, {}, "threw", batch[e])

\* A layer answers without calling next(), or keeps an exception to itself: the
\* result is still the { success: true } the pipeline began with.
Skips(e) ==
    /\ pc[e] \in {"invoked", "handling"}
    /\ registered
    /\ Respond(e, {}, "skipped", batch[e])

\* Seeded fault: the handler's failures take the place of the validation's.
MergedHandlerOnly(e, reported) == IF reported = {} THEN Invalid(e) ELSE reported

\* The failures of the result: the validation's, then the handler's.
Merged(e, reported) == Invalid(e) \cup reported

Undone(e) == given[e] \ worked[e]

\* The handler reports every message it was given and did not do.
Returns(e) ==
    /\ pc[e] = "handling"
    /\ Respond(e, Merged(e, Undone(e)), "returned", Undone(e))

\* It leaves out some of them: with { success: false } alone, all.
ReturnsTooFew(e) ==
    /\ pc[e] = "handling"
    /\ \E reported \in SUBSET Undone(e) :
          /\ reported # Undone(e)
          /\ Respond(e, Merged(e, reported), "omitted", Undone(e))

\* It returns nothing.  With validation failures `result.failures` throws inside
\* the pipeline, which catches it; without, it throws in the adapter, and the
\* invocation fails.
ReturnsUndefined(e) ==
    /\ pc[e] = "handling"
    /\ IF Invalid(e) # {} THEN Respond(e, {}, "threw", batch[e]) ELSE Release(e)

-----------------------------------------------------------------------------
Invocation(e) ==
    \/ Unrouted(e)
    \/ Validate(e)
    \/ \E m \in Messages : Work(e, m)
    \/ Returns(e)
    \/ Answer(e)

Misfortune(e) ==
    \/ Throws(e)
    \/ Skips(e)
    \/ ReturnsTooFew(e)
    \/ ReturnsUndefined(e)
    \/ Crash(e)

Next ==
    \/ \E e \in Envs : Invocation(e) \/ Misfortune(e)
    \/ \E e \in Envs, B \in SUBSET Messages : Receive(e, B)
    \/ \E m \in Messages : Expire(m)

Spec == Init /\ [][Next]_vars

\* The poller takes every waiting message at some time, and an invocation goes on.
Fairness ==
    /\ \A e \in Envs : WF_vars(Invocation(e))
    /\ \A m \in Messages :
          SF_vars(\E e \in Envs, B \in SUBSET Messages : m \in B /\ Receive(e, B))

FairSpec == Spec /\ Fairness

-----------------------------------------------------------------------------
TypeOK ==
    /\ registered \in BOOLEAN
    /\ held \in [Messages -> {Waiting, Gone} \cup Envs]
    /\ receives \in [Messages -> 0 .. MaxReceives]
    /\ handled \in [Messages -> Nat]
    /\ pc \in [Envs -> {"idle", "invoked", "handling", "answering"}]
    /\ {batch, given, worked, failures} \subseteq [Envs -> SUBSET Messages]
    /\ \A e \in Envs : /\ worked[e] \subseteq given[e]
                       /\ given[e] \subseteq batch[e]
                       /\ failures[e] \subseteq batch[e]
    /\ cause \in [Envs -> {"none", "unrouted", "threw", "skipped", "returned", "omitted"}]
    /\ excused \subseteq Messages

\* A message leaves the queue without its work done only if no handler was found,
\* the pipeline threw, a layer did not pass the batch on, or the handler was given
\* it and did not report it.  In particular a body that the schema rejects is never
\* lost by the handler's answer, and an answer drops nothing it did not carry.
NoSilentLoss ==
    [][\A m \in Messages :
          (held[m] # Gone /\ held'[m] = Gone /\ handled[m] = 0) =>
              \E e \in Envs :
                 /\ pc[e] = "answering" /\ m \in batch[e]
                 /\ \/ cause[e] \in {"unrouted", "threw", "skipped"}
                    \/ cause[e] = "omitted" /\ m \in given[e]]_vars

\* A handler with a schema never works on a message whose body it rejects, not
\* even when no message of the batch is valid: a handler that works on the messages
\* it is given, @EventInput() and context.event hand over the batch as it came.
InvalidNotHandled == HasSchema => \A m \in Bad : handled[m] = 0

\* A message's work is done twice only after a misfortune of its own: that its
\* batch comes back for the messages that failed is none, nor is a bad message
\* or a refused one beside it.
HandledOnce == \A m \in Messages : handled[m] > 1 => m \in excused

\* Messages that no handler can take never keep the others of their batches from
\* being handled: each valid one is, unless a misfortune befell it itself.
ValidHandled ==
    \A m \in Messages \ Bad : registered ~> (handled[m] > 0 \/ m \in excused)
=============================================================================
