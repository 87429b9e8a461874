---------------------------- MODULE LayerPipeline ----------------------------
(***************************************************************************)
(* One invocation of a handler through its layers: runLayerPipeline        *)
(* (packages/core/src/layers/pipeline.ts) and the five pipelines that turn *)
(* its outcome into an answer (packages/core/src/handlers/ *-pipeline.ts). *)
(*                                                                         *)
(* Layers are user code.  While it runs, and even after it has settled, a  *)
(* layer may call next() any number of times, wait for the outcome or not, *)
(* and settle with a value or an error of its own.  Only the code around   *)
(* them, `dispatch` and the pipelines, is fixed.                           *)
(***************************************************************************)
EXTENDS PipelineConstants, Integers, Sequences, FiniteSets

CallId == 1..MaxCalls
Root == 1                       \* dispatch(0), made by runLayerPipeline
Errors == {"HttpException", "Error"}
Values == {"value", "undefined", "success", "failure"}

VARIABLES
  kind,      \* the handler type
  index,     \* `index`: the furthest position dispatched
  entered,   \* positions whose code was started, in order; N is the handler
  made,      \* calls of dispatch made
  pos,       \* call -> the position it was made for
  caller,    \* call -> the call whose layer made it
  out,       \* call -> its promise
  result,    \* `result` of the consumer, schedule and custom pipelines
  report     \* what the pipeline answered

vars == <<kind, index, entered, made, pos, caller, out, result, report>>

(* A promise: `own` when its own code decided the outcome, FALSE when it   *)
(* took the outcome of a next() it waited for; "refused" when it was       *)
(* rejected before any code of a layer or the handler ran.                 *)
Running == [pc |-> "running", val |-> "undefined", own |-> FALSE]
Refused == [pc |-> "refused", val |-> "Error", own |-> FALSE]
Returned(v) == [pc |-> "ok", val |-> v, own |-> TRUE]
Thrown(e) == [pc |-> "failed", val |-> e, own |-> TRUE]
Promise == [pc: {"running", "ok", "failed", "refused"}, val: Values \cup Errors, own: BOOLEAN]

EventKinds == {"consumer", "schedule"}

(* Seeded fault: the result starts as a failure.                           *)
InitFailing ==
  /\ kind \in Kinds
  /\ index = 0
  /\ entered = <<0>>
  /\ made = Root
  /\ pos = [c \in CallId |-> 0]
  /\ caller = [c \in CallId |-> 0]
  /\ out = [c \in CallId |-> Running]
  /\ result = IF kind \in EventKinds THEN "failure" ELSE "undefined"
  /\ report = "none"

Init ==
  /\ kind \in Kinds
  /\ index = 0
  /\ entered = <<0>>
  /\ made = Root
  /\ pos = [c \in CallId |-> 0]
  /\ caller = [c \in CallId |-> 0]
  /\ out = [c \in CallId |-> Running]
  /\ result = IF kind \in EventKinds THEN "success" ELSE "undefined"
  /\ report = "none"

Made == 1..made

IsLayer(c) == pos[c] < N /\ out[c].pc # "refused"
IsHandler(c) == pos[c] = N /\ out[c].pc # "refused"

(* Seeded fault: a refused next() is neither resolved nor rejected.        *)
SettledUnlessRefused(c) == out[c].pc \in {"ok", "failed"}

Settled(c) == out[c].pc # "running"
Kids(c) == {k \in Made : caller[k] = c}

-----------------------------------------------------------------------------
(* next(): dispatch(i) for the position after the caller's.                *)

Dispatch(c, o) ==
  /\ made < MaxCalls
  /\ made' = made + 1
  /\ pos' = [pos EXCEPT ![made + 1] = pos[c] + 1]
  /\ caller' = [caller EXCEPT ![made + 1] = c]
  /\ out' = [out EXCEPT ![made + 1] = o]
  /\ UNCHANGED <<kind, result, report>>

(* Seeded fault: i < index for i <= index.                                 *)
AheadOrSame(c) == pos[c] + 1 >= index

Ahead(c) == pos[c] + 1 > index

CallNext(c) ==
  /\ IsLayer(c)
  /\ Ahead(c)
  /\ index' = pos[c] + 1
  /\ entered' = Append(entered, pos[c] + 1)
  /\ Dispatch(c, Running)

(* "next() called multiple times"                                          *)
CallNextAgain(c) ==
  /\ IsLayer(c)
  /\ ~Ahead(c)
  /\ Dispatch(c, Refused)
  /\ UNCHANGED <<index, entered>>

Settle(c, o) ==
  /\ out[c].pc = "running"
  /\ out' = [out EXCEPT ![c] = o]
  /\ UNCHANGED <<kind, index, entered, made, pos, caller, report>>

(* A layer that takes the outcome of a next(), `return next()`.            *)
Pass(c) ==
  /\ IsLayer(c)
  /\ \E k \in Kids(c) :
       /\ Settled(k)
       /\ Settle(c, [pc |-> IF out[k].pc = "ok" THEN "ok" ELSE "failed",
                     val |-> out[k].val, own |-> FALSE])
  /\ UNCHANGED result

(* A layer that answers or throws by itself: before next(), instead of it, *)
(* after it, or while what it started is still running.                    *)
Decide(c) ==
  /\ IsLayer(c)
  /\ \/ \E v \in {"value", "undefined"} : Settle(c, Returned(v))
     \/ \E e \in Errors : Settle(c, Thrown(e))
  /\ UNCHANGED result

-----------------------------------------------------------------------------
(* The handler, run by the pipelines' callback.                            *)

(* An HTTP handler's value becomes a response; an event handler returns an *)
(* EventResult, made a failure when messages failed validation.            *)
HandlerValues ==
  CASE kind \in EventKinds -> {"success", "failure"}
    [] kind = "websocket"  -> {"undefined"}
    [] OTHER               -> {"value"}

HandlerReturns(c) ==
  /\ IsHandler(c)
  /\ \E v \in HandlerValues :
       /\ Settle(c, Returned(v))
       /\ result' = IF kind \in {"http", "websocket"} THEN result ELSE v

HandlerThrows(c) ==
  /\ IsHandler(c)
  /\ \E e \in Errors : Settle(c, Thrown(e))
  /\ UNCHANGED result

-----------------------------------------------------------------------------
(* The pipelines' answer, once the promise of dispatch(0) has settled.     *)

(* executeHttpPipeline reads response.status, so undefined is an error too.*)
HttpAnswer ==
  CASE out[Root].pc = "ok" /\ out[Root].val # "undefined"         -> "response"
    [] out[Root].pc = "failed" /\ out[Root].val = "HttpException" -> "status"
    [] OTHER                                                      -> "500"

(* executeConsumerPipeline and executeSchedulePipeline.                    *)
EventAnswer == IF out[Root].pc = "ok" THEN result ELSE "failure"

Answer ==
  CASE kind = "http"        -> HttpAnswer
    [] kind \in EventKinds  -> EventAnswer
    [] kind = "custom"      -> IF out[Root].pc = "ok" THEN result ELSE "thrown"
    [] kind = "websocket"   -> "done"

(* Seeded fault: runLayerPipeline is not awaited.                          *)
ReportUnawaited ==
  /\ report = "none"
  /\ report' = IF kind = "http" THEN "response" ELSE IF Settled(Root) THEN Answer ELSE result
  /\ UNCHANGED <<kind, index, entered, made, pos, caller, out, result>>

Report ==
  /\ report = "none"
  /\ Settled(Root)
  /\ report' = Answer
  /\ UNCHANGED <<kind, index, entered, made, pos, caller, out, result>>

-----------------------------------------------------------------------------
LayerStep(c) == CallNext(c) \/ CallNextAgain(c) \/ Pass(c) \/ Decide(c)
HandlerStep(c) == HandlerReturns(c) \/ HandlerThrows(c)

Next == (\E c \in Made : LayerStep(c) \/ HandlerStep(c)) \/ Report

Spec == Init /\ [][Next]_vars

(* The handler ends, a layer ends once everything it called has ended, and *)
(* the pipeline goes on.                                                   *)
Done(c) == (\A k \in Kids(c) : Settled(k)) /\ (Pass(c) \/ Decide(c))
Fairness ==
  /\ \A c \in CallId : WF_vars(c \in Made /\ HandlerStep(c)) /\ WF_vars(c \in Made /\ Done(c))
  /\ WF_vars(Report)

FairSpec == Spec /\ Fairness

-----------------------------------------------------------------------------
(* Properties.                                                             *)

(* Every part of the state has its shape.                                  *)
TypeOK ==
  /\ kind \in AllKinds
  /\ index \in 0..N
  /\ entered \in Seq(0..N)
  /\ made \in CallId
  /\ pos \in [CallId -> 0..N]
  /\ caller \in [CallId -> 0..MaxCalls]
  /\ out \in [CallId -> Promise]
  /\ result \in Values
  /\ report \in {"none", "response", "status", "500", "success", "failure",
                 "value", "undefined", "thrown", "done"}

(* However often and however late layers call next() (pipeline.ts:20), the *)
(* layers and then the handler are entered in order and once each.         *)
EachOnceInOrder ==
  /\ Len(entered) = index + 1
  /\ \A i \in DOMAIN entered : entered[i] = i - 1

(* An event reported as a success was handled with success, or a layer     *)
(* answered in the handler's place: a failure is never lost by the         *)
(* pipeline itself (consumer-pipeline.ts:55-104, schedule-pipeline.ts:47). *)
SuccessMeansHandled ==
  report = "success" =>
    \E c \in Made :
      /\ out[c].pc = "ok" /\ out[c].own
      /\ IsHandler(c) => out[c].val = "success"

(* A failure is somebody's: the handler or a layer threw, next() was called*)
(* again, the handler said so, or (500) a layer answered nothing.          *)
FailureHasCause ==
  report \in {"failure", "status", "500", "thrown"} =>
    \E c \in Made :
      \/ out[c].pc \in {"failed", "refused"} /\ ~(report = "status" /\ out[c].val = "Error")
      \/ out[c].pc = "ok" /\ out[c].own /\ out[c].val \in {"failure", "undefined"}

(* The pipeline answers, whatever the layers do.                           *)
PipelineSettles == <>(report # "none")
=============================================================================
