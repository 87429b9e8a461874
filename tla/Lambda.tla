------------------------------- MODULE Lambda -------------------------------
(***************************************************************************)
(* A process of the AWS entry (packages/serverless-aws/src/entry.ts): its  *)
(* invocations may overlap while it starts.  The first ones bootstrap an   *)
(* application each (factory.ts), one of them makes the handler that all   *)
(* use, AwsLambdaAdapter (adapter.ts) looks the application's own handler  *)
(* up across an await and keeps it, event-mapper.ts turns events into what *)
(* the pipelines take, and SIGTERM closes the application (serverless.ts,  *)
(* dispose.ts).                                                            *)
(*                                                                         *)
(* Left out: pattern routes (Runtime has them), what the pipelines do      *)
(* (LayerPipeline) and closeAll (Container), parsing of names and values.  *)
(***************************************************************************)
EXTENDS Naturals, Sequences, FiniteSetsExt, SequencesExt

CONSTANTS
    Call,           \* invocations
    Environment,    \* [handlerId, handlerTag: <<>> or <<value>>, handlerType]
    Event,          \* call -> the events it may bring
    Handlers,       \* the registry after the bootstrap: [type, id, route, fn]
    Exports,        \* module reference -> <<>> or <<[type, fn]>>, the export it names
    Installed,      \* the installed packages of system layers
    LinkTypes       \* the resource types of the links, in their order

Types == {"http", "websocket", "consumer", "schedule", "custom"}
ResourceLayerMap == {"datastore", "bucket", "queue", "topic", "cache", "sqlDatabase"}

VARIABLES
    env,        \* the environment variables the process has
    app,        \* `app`: the number of the application, 0 for null
    apps,       \* the applications: the WebSocket sender and what was closed of each
    entry,      \* `cachedHandler` of the entry: <<>> or <<[app, type]>>
    cached,     \* `cachedHandler` of that handler: <<>> or <<fn>>
    shutdown,   \* the application the SIGTERM listener has, 0 without a listener
    ended,      \* whether the process has ended
    pc, event, mine,    \* call -> where it is, its event, its application
    task,       \* call -> what the pipeline was given
    answer      \* call -> what it answered

process == <<app, apps, entry, cached, shutdown, ended>>
calls == <<pc, event, mine, task, answer>>
vars == <<env, process, calls>>

Init ==
    /\ env \in Environment
    /\ app = 0 /\ apps = <<>> /\ entry = <<>> /\ cached = <<>> /\ shutdown = 0
    /\ ended = FALSE
    /\ pc = [c \in Call |-> "idle"]
    /\ event \in [Call -> {<<>>}]
    /\ mine = [c \in Call |-> 0]
    /\ task = [c \in Call |-> <<>>]
    /\ answer = [c \in Call |-> <<>>]

-----------------------------------------------------------------------------
(* The application: CelerityFactory.create and ServerlessApplication.      *)

\* createDefaultSystemLayers: a package that is not installed is skipped.
SystemLayers ==
    (IF "telemetry" \in Installed THEN <<"telemetry">> ELSE <<>>) \o <<"config">>
    \o SelectSeq(LinkTypes, LAMBDA t : t \in ResourceLayerMap \cap Installed)

\* disposeLayers: in reverse, those that have something to dispose.
Disposable == {"telemetry"}
Disposals == SelectSeq(Reverse(SystemLayers), LAMBDA l : l \in Disposable)

NewApplication == [sender |-> <<>>, closing |-> "open", disposed |-> <<>>]

\* ensureBootstrapped: without an application every call starts one.
Invoke(c) ==
    /\ ~ended
    /\ pc[c] = "idle"
    /\ \E e \in Event[c] : event' = [event EXCEPT ![c] = <<e>>]
    /\ pc' = [pc EXCEPT ![c] = IF app = 0 THEN "starting" ELSE "entering"]
    /\ mine' = [mine EXCEPT ![c] = app]
    /\ UNCHANGED <<env, process, task, answer>>

\* Seeded fault: the listener is registered where the application is made.
StartListening(c) ==
    /\ ~ended /\ pc[c] = "starting"
    /\ apps' = Append(apps, NewApplication)
    /\ app' = Len(apps')
    /\ shutdown' = IF shutdown = 0 THEN app' ELSE shutdown
    /\ mine' = [mine EXCEPT ![c] = app']
    /\ pc' = [pc EXCEPT ![c] = "entering"]
    /\ UNCHANGED <<env, entry, cached, ended, event, task, answer>>

\* The latest application to be ready is the one later calls get.
Start(c) ==
    /\ ~ended
    /\ pc[c] = "starting"
    /\ apps' = Append(apps, NewApplication)
    /\ app' = Len(apps')
    /\ mine' = [mine EXCEPT ![c] = app']
    /\ pc' = [pc EXCEPT ![c] = "entering"]
    /\ UNCHANGED <<env, entry, cached, shutdown, ended, event, task, answer>>

StartFails(c) ==
    /\ ~ended
    /\ pc[c] = "starting"
    /\ pc' = [pc EXCEPT ![c] = "rejected"]
    /\ UNCHANGED <<env, process, event, mine, task, answer>>

-----------------------------------------------------------------------------
(* Events and what they become.  An event has a shape, the route of its    *)
(* own (<<>> if it has none), a name (of a custom event), a body and the   *)
(* records of a batch.                                                     *)

\* detectEventType.
Detected(e) ==
    IF env.handlerType \in Types THEN env.handlerType
    ELSE CASE e.shape \in {"http", "websocket", "schedule"} -> e.shape
           [] e.shape = "sqs" /\ e.records # <<>> -> "consumer"
           [] OTHER -> "custom"

\* Mapping an event of another shape fails where a field is missing.
Unmappable(t, e) ==
    \/ t = "http" /\ e.shape # "http"
    \/ t = "websocket" /\ e.shape \notin {"http", "websocket"}
    \/ t = "consumer" /\ e.shape # "sqs"
    \/ t = "schedule" /\ e.shape = "null"

\* parseBody, and the part of mapApiGatewayV2Event that depends on it.
HttpRequest(e) ==
    [textBody |-> IF e.body \in {"text", "json"} THEN e.body ELSE "null",
     binaryBody |-> IF e.body = "base64" THEN "bytes" ELSE "null"]

\* mapApiGatewayWebSocketEvent.
WebSocketMessage(e) ==
    [messageType |-> IF e.body = "base64" THEN "binary" ELSE "json",
     jsonBody |-> IF e.body = "base64" THEN "none" ELSE e.body,
     binaryBody |-> IF e.body = "base64" THEN "bytes" ELSE "none"]

BucketEventType(name) ==
    CASE name \in {"ObjectCreated", "ObjectRestore"} -> "created"
      [] name = "ObjectRemoved" -> "deleted"
      [] name \in {"ObjectTagging", "ObjectAcl"} -> "metadataUpdated"
      [] OTHER -> "undefined"
DatastoreEventType(name) ==
    CASE name = "INSERT" -> "inserted" [] name = "MODIFY" -> "modified"
      [] name = "REMOVE" -> "removed" [] OTHER -> "undefined"

\* mapSqsRecord: the first record of an S3 notification, a DynamoDB stream record,
\* or the body as it is.
ConsumerMessage(r) ==
    CASE r.form = "s3" /\ r.notes # <<>> ->
            [id |-> r.id, sourceType |-> "bucket", body |-> r.notes[1].key,
             eventType |-> BucketEventType(r.notes[1].name)]
      [] r.form = "dynamodb" ->
            [id |-> r.id, sourceType |-> "datastore", body |-> r.notes[1].key,
             eventType |-> DatastoreEventType(r.notes[1].name)]
      [] OTHER ->
            [id |-> r.id, sourceType |-> "undefined", body |-> "body", eventType |-> "undefined"]

MappedRecords(e) == [i \in DOMAIN e.records |-> ConsumerMessage(e.records[i])]
Ids(e) == {e.records[i].id : i \in DOMAIN e.records}

\* createCustomHandler unwraps { handlerName, payload } only without a configured id.
Payload(e) == IF env.handlerId = <<>> /\ e.name # <<>> THEN "payload" ELSE "event"

Mapped(t, e) ==
    CASE t = "http" -> HttpRequest(e)
      [] t = "websocket" -> WebSocketMessage(e)
      [] t = "consumer" -> [messages |-> MappedRecords(e)]
      [] t = "schedule" -> [input |-> e.body]
      [] t = "custom" -> [payload |-> Payload(e)]

-----------------------------------------------------------------------------
(* The lookup of the application's handler.                                *)

\* The id a call looks for; the route it falls back to.
IdOf(t, e) == IF env.handlerId = <<>> /\ t = "custom" THEN e.name ELSE env.handlerId
RouteOf(t, e) ==
    CASE t \in {"http", "websocket"} -> e.route
      [] t = "custom" -> IdOf(t, e)
      [] OTHER -> IF env.handlerTag # <<>> THEN env.handlerTag
                  ELSE IF e.route # <<>> THEN e.route ELSE <<"unknown">>

\* getHandlerById: the last one registered with the id, if of the type.
ById(t, id) ==
    LET named == {i \in DOMAIN Handlers : id # <<>> /\ Handlers[i].id = id}
    IN  IF named # {} /\ Handlers[Max(named)].type = t
        THEN <<Handlers[Max(named)].fn>> ELSE <<>>

\* resolveHandlerByModuleRef: the export the reference names, unless it declares
\* another type.
ByRef(t, id) ==
    LET found == Exports[Head(id)]
    IN  IF found # <<>> /\ Head(found).type \in {t, "plain"} THEN <<Head(found).fn>> ELSE <<>>

\* getHandler: the first HTTP handler that fits, the last one registered of others.
\* createCustomHandler takes the only custom handler if nothing else is found.
ByRoute(t, e) ==
    LET fit == {i \in DOMAIN Handlers :
                   /\ Handlers[i].type = t
                   /\ RouteOf(t, e) # <<>> /\ Handlers[i].route = RouteOf(t, e)}
        typed == {i \in DOMAIN Handlers : Handlers[i].type = t}
    IN  IF fit # {} THEN <<Handlers[IF t = "http" THEN Min(fit) ELSE Max(fit)].fn>>
        ELSE IF t = "custom" /\ Cardinality(typed) = 1
             THEN <<Handlers[CHOOSE i \in typed : TRUE].fn>> ELSE <<>>

-----------------------------------------------------------------------------
(* The entry's handler and the adapter's.  createHttpHandler and the four  *)
(* others differ in the mapping, the route and what they answer when they  *)
(* find no handler; their lookups are the same.                            *)

NotFound(t) ==
    CASE t \in {"http", "websocket"} -> "404" [] t = "consumer" -> "no failures"
      [] t = "schedule" -> "no schedule" [] t = "custom" -> "no custom"

\* `found` is what cachedHandler of the handler h holds now: it is run, or none is.
Serve(c, h, found) ==
    /\ cached' = found
    /\ IF found = <<>>
       THEN /\ pc' = [pc EXCEPT ![c] = "answered"]
            /\ answer' = [answer EXCEPT ![c] = <<[is |-> NotFound(h.type), ids |-> {}]>>]
            /\ UNCHANGED task
       ELSE /\ pc' = [pc EXCEPT ![c] = "running"]
            /\ task' = [task EXCEPT ![c] = <<[fn |-> Head(found), app |-> h.app,
                                              input |-> Mapped(h.type, event[c][1])]>>]
            /\ UNCHANGED answer

\* Up to the adapter's first await: the listener and the entry's handler, then, if
\* the event can be mapped, the sender of the first WebSocket event and the lookup
\* without a module reference.
Enter(c) ==
    LET e == event[c][1]
        h == IF entry = <<>> THEN [app |-> mine[c], type |-> Detected(e)] ELSE entry[1]
        id == IdOf(h.type, e)
        named == IF cached # <<>> THEN cached ELSE ById(h.type, id)
    IN  /\ ~ended
        /\ pc[c] = "entering"
        /\ shutdown' = IF shutdown = 0 THEN mine[c] ELSE shutdown
        /\ entry' = <<h>>
        /\ IF Unmappable(h.type, e)
           THEN /\ pc' = [pc EXCEPT ![c] = "rejected"]
                /\ UNCHANGED <<apps, cached, task, answer>>
           ELSE /\ apps' = IF h.type = "websocket" /\ apps[h.app].sender = <<>>
                           THEN [apps EXCEPT ![h.app].sender = <<e.endpoint>>] ELSE apps
                /\ IF named # <<>> \/ id = <<>>
                   THEN Serve(c, h, IF named # <<>> THEN named ELSE ByRoute(h.type, e))
                   ELSE /\ cached' = <<>>
                        /\ pc' = [pc EXCEPT ![c] = "resolving"]
                        /\ UNCHANGED <<task, answer>>
        /\ UNCHANGED <<env, app, ended, event, mine>>

\* Seeded fault: no route without a registered id or a module reference.
ResolveWithoutRoute(c) ==
    /\ ~ended
    /\ pc[c] = "resolving"
    /\ Serve(c, entry[1], ByRef(entry[1].type, IdOf(entry[1].type, event[c][1])))
    /\ UNCHANGED <<env, app, apps, entry, shutdown, ended, event, mine>>

\* After the import: what another call has found in the meantime is overwritten.
Resolve(c) ==
    LET e == event[c][1]
        t == entry[1].type
        found == ByRef(t, IdOf(t, e))
    IN  /\ ~ended
        /\ pc[c] = "resolving"
        /\ Serve(c, entry[1], IF found # <<>> THEN found ELSE ByRoute(t, e))
        /\ UNCHANGED <<env, app, apps, entry, shutdown, ended, event, mine>>

\* mapHttpResponseToResult, mapConsumerResultToSqsBatchResponse, and the rest as is.
Answers(t, e) ==
    CASE t = "http" -> {[is |-> b, ids |-> {}] : b \in {"text", "base64"}}
      [] t = "consumer" -> {[is |-> "failures", ids |-> s] : s \in SUBSET Ids(e)}
      [] OTHER -> {[is |-> "result", ids |-> {}]}

Finish(c) ==
    /\ ~ended
    /\ pc[c] = "running"
    /\ \/ /\ pc' = [pc EXCEPT ![c] = "answered"]
          /\ \E a \in Answers(entry[1].type, event[c][1]) : answer' = [answer EXCEPT ![c] = <<a>>]
       \/ /\ entry[1].type = "custom"
          /\ pc' = [pc EXCEPT ![c] = "rejected"]
          /\ UNCHANGED answer
    /\ UNCHANGED <<env, process, event, mine, task>>

\* ApiGatewayWebSocketSender.sendMessage: a handler may send while it runs.
CanSend(c) == apps[task[c][1].app].sender # <<>>

-----------------------------------------------------------------------------
(* SIGTERM.                                                                *)

\* Before the first call has entered there is no listener: the process is killed.
Kill ==
    /\ ~ended /\ shutdown = 0
    /\ ended' = TRUE
    /\ UNCHANGED <<env, app, apps, entry, cached, shutdown, calls>>

Closing == apps[shutdown].closing
Terminate ==
    /\ ~ended /\ shutdown # 0
    /\ Closing = "open"
    /\ apps' = [apps EXCEPT ![shutdown].closing = "container"]
    /\ UNCHANGED <<env, app, entry, cached, shutdown, ended, calls>>

CloseContainer ==
    /\ ~ended /\ shutdown # 0
    /\ Closing = "container"
    /\ apps' = [apps EXCEPT ![shutdown].closing = "layers"]
    /\ UNCHANGED <<env, app, entry, cached, shutdown, ended, calls>>

\* One layer after the other, whether or not its dispose() fails.
Dispose ==
    LET done == apps[shutdown].disposed
    IN  /\ ~ended /\ shutdown # 0
        /\ Closing = "layers" /\ done # Disposals
        /\ apps' = [apps EXCEPT ![shutdown].disposed = Append(@, Disposals[Len(done) + 1])]
        /\ UNCHANGED <<env, app, entry, cached, shutdown, ended, calls>>

Exit ==
    /\ ~ended /\ shutdown # 0
    /\ Closing = "layers" /\ apps[shutdown].disposed = Disposals
    /\ ended' = TRUE
    /\ UNCHANGED <<env, app, apps, entry, cached, shutdown, calls>>

-----------------------------------------------------------------------------
Next ==
    \/ \E c \in Call : \/ Invoke(c) \/ Start(c) \/ StartFails(c)
                       \/ Enter(c) \/ Resolve(c) \/ Finish(c)
    \/ Kill \/ Terminate \/ CloseContainer \/ Dispose \/ Exit

Spec == Init /\ [][Next]_vars

-----------------------------------------------------------------------------
\* However many applications overlapping first calls make, the one that serves
\* events is the one the SIGTERM listener closes (entry.ts:15, :26), an orderly end
\* leaves nothing of it undisposed, and what handles WebSocket messages can send.
ServedIsClosed ==
    \A c \in Call : task[c] # <<>> =>
        /\ task[c][1].app = shutdown
        /\ ended => apps[shutdown].disposed = Disposals
        /\ entry[1].type = "websocket" => CanSend(c)

\* What the lookup by an id finds, and the whole lookup of an event.
ByName(id) ==
    LET t == entry[1].type
    IN  IF id = <<>> THEN <<>> ELSE IF ById(t, id) # <<>> THEN ById(t, id) ELSE ByRef(t, id)
Own(e) ==
    LET named == ByName(IdOf(entry[1].type, e))
    IN  IF named # <<>> THEN named ELSE ByRoute(entry[1].type, e)

\* With a configured handler every event goes to it and no other, however the
\* lookups of overlapping calls clear and overwrite what they share; without one,
\* to the handler that some call's own lookup found (adapter.ts:64), and a call is
\* told that there is none only if its own lookup finds none.
HandledByOwn ==
    \A c \in Call :
        /\ task[c] # <<>> =>
              IF ByName(env.handlerId) # <<>> THEN <<task[c][1].fn>> = ByName(env.handlerId)
              ELSE \E d \in Call : event[d] # <<>> /\ <<task[c][1].fn>> = Own(event[d][1])
        /\ answer[c] # <<>> /\ answer[c][1].is = NotFound(entry[1].type) =>
              Own(event[c][1]) = <<>>
=============================================================================
