------------------------------ MODULE MCServing ------------------------------
(***************************************************************************)
(* What happens to a request, an event or a message that arrives, each part*)
(* alone (`part` says which):                                              *)
(*   layers     two layers and a handler of every type, in six calls of    *)
(*              dispatch                                                   *)
(*   checks     two overlapping requests to a handler with guards, a class *)
(*              and a function, and to handlers with validation layers     *)
(*   delivery   two environments on a queue of a good and a bad message    *)
(*   lambda     two invocations of one process with events of any kind,    *)
(*              under four configurations, and SIGTERM                     *)
(* In the other parts the pipeline has answered and the queue is empty, so *)
(* that fairness asks nothing of them.                                     *)
(***************************************************************************)
EXTENDS ConsumerDelivery, PipelineConstants, Sequences

VARIABLES part,
    kind, index, entered, made, pos, caller, out, result, report,    \* LayerPipeline
    handler, input, at, auth, set, outcome, kept, constructing, built,  \* RequestChecks
    env, app, apps, entry, cached, shutdown, ended, now, event, mine, task, answer  \* Lambda

pipeline == <<kind, index, entered, made, pos, caller, out, result, report>>
checks == <<handler, input, at, auth, set, outcome, kept, constructing, built>>
process == <<env, app, apps, entry, cached, shutdown, ended, now, event, mine, task, answer>>
all == <<part, vars, pipeline, checks, process>>

Layers == INSTANCE LayerPipeline

-----------------------------------------------------------------------------
Forms == {"class", "event", "function"}

InputOf(type) ==
    CASE type = "http" -> {[p \in {"body", "params", "query", "headers"} |->
                               CASE p = "body" -> b [] p = "query" -> q [] OTHER -> "good"] :
                               b \in {"good", "bad", "text", "binary", "none"}, q \in {"good", "bad"}}
      [] type = "websocket" -> {[p \in {"wsMessageBody"} |-> v] : v \in {"good", "bad", "none"}}
      [] type = "consumer" -> {[p \in {"consumerMessage"} |-> <<"good", "bad">>]}
      [] type = "schedule" -> {[p \in {"scheduleInput"} |-> v] : v \in {"good", "bad"}}
      [] type = "custom" -> {[p \in {"customPayload"} |-> v] : v \in {"good", "bad"}}

\* The last layers are for another type: what they have schemas for is not looked at.
Route(type, form, guards, layers) ==
    [type |-> type, form |-> form, guards |-> guards, layers |-> layers]
Routes == {
    Route("http", "class", <<"jwt", "role">>, <<{"body", "query"}>>),
    Route("http", "event", <<"jwt">>, <<{"query"}, {"body"}>>),
    Route("http", "function", <<>>, <<{"query"}, {"body", "headers"}, {"wsMessageBody"}>>),
    Route("websocket", "class", <<"jwt">>, <<{"wsMessageBody"}>>),
    Route("custom", "class", <<>>, <<{"body"}, {"customPayload"}>>)}
    \cup {Route("consumer", form, <<>>, <<{"consumerMessage", "body"}>>) : form \in Forms}
    \cup {Route("schedule", form, <<>>, <<{"scheduleInput"}>>) : form \in Forms}

Requests == INSTANCE RequestChecks WITH
    Request <- {"r1", "r2"}, Handlers <- Routes, ClassGuards <- {"jwt"}, Input <- InputOf, pc <- at

-----------------------------------------------------------------------------
Handler(type, id, route, fn) == [type |-> type, id |-> id, route |-> route, fn |-> fn]
App == << Handler("http", <<>>, <<"GET /a">>, "getA"), Handler("http", <<"b">>, <<"GET /b">>, "getB"),
          Handler("websocket", <<>>, <<"$default">>, "socket"),
          Handler("consumer", <<>>, <<"arn">>, "consume"),
          Handler("schedule", <<>>, <<"tag">>, "tick"), Handler("custom", <<"x">>, <<"x">>, "custom") >>

\* "a.ref" is a plain function of the registry, "typed" declares another type.
Refs == [id \in {"b", "a.ref", "typed", "x", "y"} |->
            CASE id = "a.ref" -> <<[type |-> "plain", fn |-> "getA"]>>
              [] id = "typed" -> <<[type |-> "schedule", fn |-> "tick"]>>
              [] OTHER -> <<>>]

Config(id, tag, type) == [handlerId |-> id, handlerTag |-> tag, handlerType |-> type]
Configs == {Config(<<>>, <<>>, "absent"), Config(<<"b">>, <<>>, "absent"),
            Config(<<"a.ref">>, <<>>, "http"), Config(<<"typed">>, <<"tag">>, "absent")}

NoEvent == [shape |-> "null", route |-> <<>>, name |-> <<>>, body |-> "none",
            records |-> <<>>, endpoint |-> "e1"]
Note(name, key) == [name |-> name, key |-> key]
Record(id, form, notes) == [id |-> id, form |-> form, notes |-> notes]
GetA == [NoEvent EXCEPT !.shape = "http", !.route = <<"GET /a">>, !.body = "text"]
GetB == [GetA EXCEPT !.route = <<"GET /b">>, !.body = "base64"]
Socket == [NoEvent EXCEPT !.shape = "websocket", !.route = <<"$default">>, !.body = "json"]
OtherSocket == [Socket EXCEPT !.endpoint = "e2", !.body = "base64"]
Sqs == [NoEvent EXCEPT !.shape = "sqs", !.route = <<"arn">>, !.records =
           << Record("m1", "s3", <<Note("ObjectCreated", "k1"), Note("ObjectRemoved", "k2")>>),
              Record("m2", "plain", <<>>) >>]
Stream == [Sqs EXCEPT !.records = <<Record("m3", "dynamodb", <<Note("MODIFY", "k1")>>)>>]
Tick == [NoEvent EXCEPT !.shape = "schedule", !.route = <<"rule">>, !.body = "json"]
Named == [NoEvent EXCEPT !.shape = "other", !.name = <<"y">>]

Entry == INSTANCE Lambda WITH
    Call <- {"c1", "c2"}, Environment <- Configs,
    Event <- [c1 |-> {GetA, Socket, Sqs, Tick}, c2 |-> {GetB, OtherSocket, Stream, Named, NoEvent}],
    Handlers <- App, Exports <- Refs, Installed <- {"telemetry", "queue", "cache"},
    LinkTypes <- <<"queue", "bucket", "other">>, pc <- now

-----------------------------------------------------------------------------
(* One part at a time.                                                     *)

Answered ==
    /\ kind = "http" /\ index = 0 /\ entered = <<0>> /\ made = 0 /\ pos = [c \in Layers!CallId |-> 0]
    /\ caller = pos /\ out = [c \in Layers!CallId |-> Layers!Running]
    /\ result = "undefined" /\ report = "response"
Emptied ==
    /\ registered = FALSE /\ held = [m \in Messages |-> Gone] /\ excused = {}
    /\ receives = [m \in Messages |-> 0] /\ handled = receives
    /\ pc = [e \in Envs |-> "idle"] /\ cause = [e \in Envs |-> "none"]
    /\ batch = [e \in Envs |-> {}] /\ given = batch /\ worked = batch /\ failures = batch
NoRequests ==
    /\ handler = <<>> /\ input = <<>> /\ at = <<>> /\ auth = <<>> /\ set = <<>>
    /\ outcome = <<>> /\ kept = {} /\ constructing = {} /\ built = <<>>
NoProcess ==
    /\ env = <<>> /\ app = 0 /\ apps = <<>> /\ entry = <<>> /\ cached = <<>> /\ shutdown = 0
    /\ ended = FALSE /\ now = <<>> /\ event = <<>> /\ mine = <<>> /\ task = <<>> /\ answer = <<>>

PartInit ==
    \/ part = "layers" /\ Layers!Init /\ Emptied /\ NoRequests /\ NoProcess
    \/ part = "checks" /\ Answered /\ Emptied /\ Requests!Init /\ NoProcess
    \/ part = "delivery" /\ Answered /\ Init /\ NoRequests /\ NoProcess
    \/ part = "lambda" /\ Answered /\ Emptied /\ NoRequests /\ Entry!Init

PartNext ==
    /\ UNCHANGED part
    /\ \/ part = "layers" /\ Layers!Next /\ UNCHANGED <<vars, checks, process>>
       \/ part = "checks" /\ Requests!Next /\ UNCHANGED <<vars, pipeline, process>>
       \/ part = "delivery" /\ Next /\ UNCHANGED <<pipeline, checks, process>>
       \/ part = "lambda" /\ Entry!Next /\ UNCHANGED <<vars, pipeline, checks>>

PartSpec == PartInit /\ [][PartNext]_all /\ Fairness /\ Layers!Fairness

-----------------------------------------------------------------------------
(* The properties of the other parts, named as in their modules.           *)

\* LayerPipeline.
EachOnceInOrder == part = "layers" => Layers!EachOnceInOrder
SuccessMeansHandled == part = "layers" => Layers!SuccessMeansHandled
FailureHasCause == part = "layers" => Layers!FailureHasCause
PipelineSettles == Layers!PipelineSettles

\* RequestChecks: a request that reached its handler passed its guards and schemas.
HandledAreChecked == part = "checks" => Requests!HandledAreChecked

\* Lambda.
ServedIsClosed == part = "lambda" => Entry!ServedIsClosed
HandledByOwn == part = "lambda" => Entry!HandledByOwn
=============================================================================
