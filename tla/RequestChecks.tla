---------------------------- MODULE RequestChecks ----------------------------
(***************************************************************************)
(* What stands between a request and its handler in the container runtime: *)
(* the guards that protect the handler, one after the other, each through  *)
(* executeGuardPipeline (packages/core/src/handlers/guard-pipeline.ts) and *)
(* mapGuardResult (runtime-orchestrator.ts), then the validation layers.   *)
(* That the runtime calls the handler after the last guard allows is       *)
(* external.  Requests overlap, and share the objects of the classes, each *)
(* made when the first of them needs it (types.ts, di/container.ts).       *)
(***************************************************************************)
EXTENDS ValidationLayer

CONSTANTS
    Request,
    Handlers,       \* [type, form, guards: names in order, layers: sets of schemas]
    ClassGuards,    \* the names of guards that are classes; the others are functions
    Input(_)        \* type -> what requests to such a handler may carry

VARIABLES
    handler,        \* the handler the requests are for
    input,          \* request -> what it carries
    pc,             \* request -> where it is
    auth,           \* request -> the guards whose claims it has, in order
    set,            \* request -> the parts the layers have parsed
    outcome,        \* request -> how it ended
    kept,           \* the classes whose handlerInstance is set
    constructing,   \* the classes in the container's `resolving`
    built            \* class -> how many objects of it were made

request == <<pc, auth, set, outcome>>
objects == <<kept, constructing, built>>
vars == <<handler, input, request, objects>>

Controller == "controller"
Classes == ClassGuards \cup {Controller}

Init ==
    /\ handler \in Handlers
    /\ input \in [Request -> Input(handler.type)]
    /\ pc = [r \in Request |-> "arrived"]
    /\ auth = [r \in Request |-> <<>>]
    /\ set = [r \in Request |-> {}]
    /\ outcome = [r \in Request |-> "none"]
    /\ kept = {} /\ constructing = {} /\ built = [c \in Classes |-> 0]

Guard(r) == handler.guards[Len(auth[r]) + 1]
Guarded(r) == Len(auth[r]) = Len(handler.guards)

Go(r, from, to) == pc[r] \in from /\ pc' = [pc EXCEPT ![r] = to]

End(r, how) ==
    /\ pc' = [pc EXCEPT ![r] = "ended"]
    /\ outcome' = [outcome EXCEPT ![r] = how]
    /\ UNCHANGED <<handler, input, auth, set>>

\* What the pipelines of the types answer to an exception.
Caught(error) ==
    CASE handler.type = "http" -> IF error = "HttpException" THEN "400" ELSE "500"
      [] handler.type = "websocket" -> "dropped"
      [] handler.type \in {"consumer", "schedule"} -> "failure"
      [] handler.type = "custom" -> "thrown"

MapGuardResult(status) == IF status = 403 THEN "forbidden" ELSE "unauthorised"

\* What is thrown before user code runs; a guard's is not an HttpException: 401.
Rejected(r) == End(r, IF Guarded(r) THEN Caught("Error") ELSE MapGuardResult(401))

-----------------------------------------------------------------------------
(* The object of a guard's or a handler's class.                           *)

\* What request r needs next: the class, unless it is a function.
Class(r) == IF Guarded(r) THEN Controller ELSE Guard(r)
IsClass(r) == IF Guarded(r) THEN handler.form # "function" ELSE Guard(r) \in ClassGuards
Ready(r) == IF Guarded(r) THEN "handling" ELSE "judging"

Asks(r) == pc[r] \in {"logging", "checked"}

\* A function's tokens are resolved anew for every call.
Inject(r) ==
    /\ Asks(r) /\ ~IsClass(r)
    /\ Go(r, {"logging", "checked"}, "injecting")
    /\ UNCHANGED <<handler, input, auth, set, outcome, objects>>

UseKept(r) ==
    /\ Asks(r) /\ IsClass(r) /\ Class(r) \in kept
    /\ Go(r, {"logging", "checked"}, Ready(r))
    /\ UNCHANGED <<handler, input, auth, set, outcome, objects>>

\* resolve() has an object already, whose first asker has yet to keep it.
Find(r) ==
    /\ Asks(r) /\ IsClass(r) /\ Class(r) \notin kept /\ built[Class(r)] > 0
    /\ Go(r, {"logging", "checked"}, "given")
    /\ UNCHANGED <<handler, input, auth, set, outcome, objects>>

\* Seeded fault: a class that another request constructs is constructed again.
ConstructAgain(r) ==
    /\ Asks(r) /\ IsClass(r) /\ Class(r) \notin kept /\ built[Class(r)] = 0
    /\ constructing' = constructing \cup {Class(r)}
    /\ Go(r, {"logging", "checked"}, "building")
    /\ UNCHANGED <<handler, input, auth, set, outcome, kept, built>>

Construct(r) ==
    /\ Asks(r) /\ IsClass(r) /\ Class(r) \notin kept /\ built[Class(r)] = 0
    /\ Class(r) \notin constructing
    /\ constructing' = constructing \cup {Class(r)}
    /\ Go(r, {"logging", "checked"}, "building")
    /\ UNCHANGED <<handler, input, auth, set, outcome, kept, built>>

\* Another request constructs the class: "Circular dependency detected".
Circular(r) ==
    /\ Asks(r) /\ IsClass(r) /\ Class(r) \notin kept /\ built[Class(r)] = 0
    /\ Class(r) \in constructing
    /\ Rejected(r)
    /\ UNCHANGED objects

Constructed(r) ==
    /\ Go(r, {"building"}, "given")
    /\ constructing' = constructing \ {Class(r)}
    /\ built' = [built EXCEPT ![Class(r)] = @ + 1]
    /\ UNCHANGED <<handler, input, auth, set, outcome, kept>>

ResolutionFails(r) ==
    /\ pc[r] \in {"building", "injecting"}
    /\ constructing' = IF pc[r] = "building" THEN constructing \ {Class(r)} ELSE constructing
    /\ Rejected(r)
    /\ UNCHANGED <<kept, built>>

\* handlerInstance is set after the await.
Resolved(r) ==
    /\ Go(r, {"given", "injecting"}, Ready(r))
    /\ kept' = IF pc[r] = "given" THEN kept \cup {Class(r)} ELSE kept
    /\ UNCHANGED <<handler, input, auth, set, outcome, constructing, built>>

-----------------------------------------------------------------------------
(* A guard.                                                                *)

\* createGuardLogger, from the container or the telemetry package.
BeginGuard(r) ==
    /\ ~Guarded(r)
    /\ Go(r, {"arrived"}, "logging")
    /\ UNCHANGED <<handler, input, auth, set, outcome, objects>>

\* It stands before the try: what it throws is the callback's rejection.
LoggerFails(r) ==
    /\ pc[r] = "logging"
    /\ End(r, "rejection")
    /\ UNCHANGED objects

Allow(r) ==
    /\ Go(r, {"judging"}, "arrived")
    /\ auth' = [auth EXCEPT ![r] = Append(@, Guard(r))]
    /\ UNCHANGED <<handler, input, set, outcome, objects>>

\* An HttpException keeps its status.
Deny(r) ==
    /\ pc[r] = "judging"
    /\ \E status \in {401, 403, 500} : End(r, MapGuardResult(status))
    /\ UNCHANGED objects

-----------------------------------------------------------------------------
(* The pipeline.                                                           *)

\* Seeded fault: the handler runs with what parsed before the part that failed.
CheckAndGoOn(r) ==
    /\ Guarded(r) /\ pc[r] = "arrived"
    /\ set' = [set EXCEPT ![r] = Validate(handler.layers, handler.type, input[r]).set]
    /\ pc' = [pc EXCEPT ![r] = "checked"]
    /\ UNCHANGED <<handler, input, auth, outcome, objects>>

Check(r) ==
    LET done == Validate(handler.layers, handler.type, input[r])
    IN  /\ Guarded(r) /\ pc[r] = "arrived"
        /\ set' = [set EXCEPT ![r] = done.set]
        /\ IF done.error = "none"
           THEN /\ pc' = [pc EXCEPT ![r] = "checked"]
                /\ UNCHANGED outcome
           ELSE /\ pc' = [pc EXCEPT ![r] = "ended"]
                /\ outcome' = [outcome EXCEPT ![r] = Caught(done.error)]
        /\ UNCHANGED <<handler, input, auth, objects>>

HandlerFails(r) ==
    /\ pc[r] = "handling"
    /\ End(r, Caught("Error"))
    /\ UNCHANGED objects

Run(r) ==
    /\ pc[r] = "handling"
    /\ End(r, "handled")
    /\ UNCHANGED objects

-----------------------------------------------------------------------------
Step(r) ==
    \/ Inject(r) \/ UseKept(r) \/ Find(r) \/ Construct(r) \/ Circular(r)
    \/ Constructed(r) \/ ResolutionFails(r) \/ Resolved(r)
    \/ BeginGuard(r) \/ LoggerFails(r) \/ Allow(r) \/ Deny(r)
    \/ Check(r) \/ HandlerFails(r) \/ Run(r)

Next == \E r \in Request : Step(r)

Spec == Init /\ [][Next]_vars

-----------------------------------------------------------------------------
\* The layers of the handler's own type.
OwnLayers == {i \in DOMAIN handler.layers : handler.layers[i] \subseteq PartsOf(handler.type)}

\* What r's handler reads of a part was parsed, or it is left as it is (Absent), or
\* the handler reads what arrived; then a schema accepted it, except of a consumer's
\* batch, in which the refused messages are still there.
ReadsChecked(r, part) ==
    LET read == Read(handler.type, handler.form, part, set[r], input[r])
    IN  \/ read = "parsed"
        \/ Absent(part, input[r][part])
        \/ ReadsRaw(handler.type, handler.form) /\ (read = "good" \/ handler.type = "consumer")

Reached(r) == pc[r] = "handling" \/ outcome[r] = "handled"

\* A request that reached its handler was allowed by every guard of it, in their
\* order, each judging on the one object of its class however many first requests
\* asked for it together; its handler reads, of every part that a layer of its type
\* has a schema for, what the schema made of it or at least accepted
\* (guard-pipeline.ts:49-56, types.ts:33-57, validate.ts:71).  One that a guard's
\* outcome ended, "circular" included, reached no layer.
HandledAreChecked ==
    /\ \A c \in Classes : built[c] <= 1
    /\ \A r \in Request :
          /\ Reached(r) =>
                /\ auth[r] = handler.guards
                /\ \A i \in DOMAIN auth[r] : auth[r][i] \in ClassGuards => built[auth[r][i]] = 1
                /\ handler.form # "function" => built[Controller] = 1
                /\ \A i \in OwnLayers : \A part \in handler.layers[i] : ReadsChecked(r, part)
          /\ outcome[r] \in {"forbidden", "unauthorised", "rejection"} => set[r] = {}
=============================================================================
