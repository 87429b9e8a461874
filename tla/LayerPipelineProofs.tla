------------------------- MODULE LayerPipelineProofs -------------------------
(***************************************************************************)
(* Proofs about the layer pipeline, for any number of layers, any number of*)
(* next() calls and every handler type, and about the guards and validation*)
(* layers a request passes, for any requests, guards and schemas.          *)
(***************************************************************************)
EXTENDS LayerPipeline, WellFoundedInduction, TLAPS

(* Nothing has been called beyond `index`, and no two calls that were not  *)
(* refused are for the same position.                                      *)
CallsOK ==
  /\ \A c \in Made : pos[c] <= index
  /\ \A c, d \in Made :
       out[c].pc # "refused" /\ out[d].pc # "refused" /\ pos[c] = pos[d] => c = d
  /\ out[Root].pc # "refused"

(* A settled promise goes back to somebody's decision: a value to a call   *)
(* that returned it by itself, an error to one that threw or was refused.  *)
Decided(c) == \E d \in Made : out[d].pc = "ok" /\ out[d].own /\ out[d].val = out[c].val
Raised(c) == \E d \in Made : out[d].pc \in {"failed", "refused"} /\ out[d].val = out[c].val
OutcomeOK ==
  /\ \A c \in Made : out[c].pc = "ok" => Decided(c)
  /\ \A c \in Made : IsHandler(c) /\ out[c].pc = "ok" => out[c].own

(* `result` is what the handler returned, once it has.                     *)
ResultOK ==
  /\ kind \in EventKinds =>
       /\ result \in {"success", "failure"}
       /\ \A c \in Made : IsHandler(c) /\ out[c].pc = "ok" => result = out[c].val
       /\ result = "failure" => \E c \in Made : out[c] = Returned("failure")
  /\ kind \notin EventKinds => result \in {"value", "undefined"}

ReportOK == SuccessMeansHandled /\ FailureHasCause

IInv == TypeOK /\ EachOnceInOrder /\ CallsOK /\ OutcomeOK /\ ResultOK /\ ReportOK

LEMMA Shapes ==
  /\ Running \in Promise /\ Refused \in Promise
  /\ Running.pc = "running" /\ Refused.pc = "refused"
  /\ \A v \in Values : Returned(v) \in Promise
  /\ \A e \in Errors : Thrown(e) \in Promise
  BY DEF Running, Refused, Returned, Thrown, Promise, Values, Errors

THEOREM InitIInv == Init => IInv
  <1> SUFFICES ASSUME Init PROVE IInv
    OBVIOUS
  <1> USE PipelineAssumption DEF Init
  <1>1. TypeOK
    <2>1. entered \in Seq(0..N)
      OBVIOUS
    <2>2. Root \in CallId /\ kind \in AllKinds
      BY DEF Root, CallId
    <2>3. out \in [CallId -> Promise]
      BY Shapes
    <2>4. pos \in [CallId -> 0..N] /\ caller \in [CallId -> 0..MaxCalls]
      OBVIOUS
    <2> QED
      BY <2>1, <2>2, <2>3, <2>4 DEF TypeOK, Values
  <1>2. EachOnceInOrder
    BY DEF EachOnceInOrder
  <1>3. made = 1 /\ Made = {1} /\ 1 \in CallId
    BY DEF Root, Made, CallId
  <1>4. out[1] = Running /\ pos[1] = 0
    BY <1>3
  <1>5. out[1].pc = "running"
    BY <1>4 DEF Running
  <1>6. CallsOK
    BY <1>3, <1>4, <1>5 DEF CallsOK, Root
  <1>7. OutcomeOK
    BY <1>3, <1>5 DEF OutcomeOK
  <1>8. ResultOK
    BY <1>3, <1>5 DEF ResultOK
  <1>9. ReportOK
    BY DEF ReportOK, SuccessMeansHandled, FailureHasCause
  <1> QED
    BY <1>1, <1>2, <1>6, <1>7, <1>8, <1>9 DEF IInv

-----------------------------------------------------------------------------
(* A new call of dispatch.                                                 *)

LEMMA DispatchOK ==
  ASSUME IInv, NEW c \in Made, IsLayer(c), NEW o \in {Running, Refused},
         Dispatch(c, o),
         \/ /\ Ahead(c) /\ o = Running
            /\ index' = pos[c] + 1 /\ entered' = Append(entered, pos[c] + 1)
         \/ ~Ahead(c) /\ o = Refused /\ UNCHANGED <<index, entered>>
  PROVE  IInv'
  <1> USE PipelineAssumption
  <1> DEFINE n == made + 1
  <1>0. /\ TypeOK /\ EachOnceInOrder /\ CallsOK /\ OutcomeOK /\ ResultOK
        /\ SuccessMeansHandled /\ FailureHasCause
    BY DEF IInv, ReportOK
  <1>1. /\ n \in CallId /\ made' = n /\ Made' = Made \cup {n} /\ n \notin Made
        /\ Made \subseteq CallId /\ Root \in Made
    BY SMTT(30), <1>0 DEF TypeOK, Dispatch, Made, CallId, Root
  <1>2. pos[c] \in 0..N /\ pos[c] < N /\ pos[c] <= index /\ index \in 0..N
    BY <1>0, <1>1 DEF TypeOK, CallsOK, IsLayer
  <1>3. /\ pos' = [pos EXCEPT ![n] = pos[c] + 1] /\ out' = [out EXCEPT ![n] = o]
        /\ caller' = [caller EXCEPT ![n] = c]
        /\ UNCHANGED <<kind, result, report>>
    BY DEF Dispatch
  <1>4. /\ pos'[n] = pos[c] + 1 /\ out'[n] = o
        /\ \A d \in Made : pos'[d] = pos[d] /\ out'[d] = out[d]
    BY <1>0, <1>1, <1>3 DEF TypeOK
  <1>5. o \in Promise /\ o.pc \in {"running", "refused"}
    BY Shapes
  <1>6. \/ /\ Ahead(c) /\ o = Running /\ o.pc = "running" /\ index = pos[c]
           /\ index' = index + 1 /\ entered' = Append(entered, index + 1)
        \/ /\ ~Ahead(c) /\ o.pc = "refused" /\ pos[c] + 1 <= index
           /\ index' = index /\ entered' = entered
    <2>1. Running.pc = "running" /\ Refused.pc = "refused"
      BY Shapes
    <2>2. CASE /\ Ahead(c) /\ o = Running
               /\ index' = pos[c] + 1 /\ entered' = Append(entered, pos[c] + 1)
      <3>1. pos[c] = index
        BY <1>2, <2>2 DEF Ahead
      <3> QED
        BY <2>1, <2>2, <3>1
    <2>3. CASE ~Ahead(c) /\ o = Refused /\ UNCHANGED <<index, entered>>
      BY <1>2, <2>1, <2>3 DEF Ahead
    <2> QED
      BY <2>2, <2>3
  <1>7. TypeOK'
    <2>1. index' \in 0..N /\ pos[c] + 1 \in 0..N
      BY <1>2, <1>6
    <2>2. entered' \in Seq(0..N)
      <3>1. entered \in Seq(0..N)
        BY <1>0 DEF TypeOK
      <3>2. entered' = entered \/ (entered' = Append(entered, index + 1) /\ index + 1 \in 0..N)
        BY <1>6, <2>1
      <3> QED
        BY <3>1, <3>2
    <2>3. c \in 0..MaxCalls
      BY <1>1 DEF CallId
    <2>4. /\ pos' \in [CallId -> 0..N] /\ caller' \in [CallId -> 0..MaxCalls]
          /\ out' \in [CallId -> Promise]
      BY <1>0, <1>1, <1>3, <1>5, <2>1, <2>3 DEF TypeOK
    <2> QED
      BY <1>0, <1>1, <1>3, <2>1, <2>2, <2>4 DEF TypeOK
  <1>8. EachOnceInOrder'
    <2>1. CASE index' = index /\ entered' = entered
      BY <1>0, <2>1 DEF EachOnceInOrder
    <2>2. CASE index' = index + 1 /\ entered' = Append(entered, index + 1)
      <3>1. Len(entered) = index + 1 /\ entered \in Seq(0..N) /\ index + 1 \in Nat
        BY <1>0, <1>2 DEF EachOnceInOrder, TypeOK
      <3>2. /\ Len(entered') = index + 2 /\ entered'[index + 2] = index + 1
            /\ \A i \in 1..(index + 1) : entered'[i] = entered[i]
            /\ DOMAIN entered' = 1..(index + 2) /\ DOMAIN entered = 1..(index + 1)
        BY <1>2, <2>2, <3>1
      <3>3. ASSUME NEW i \in 1..(index + 2) PROVE entered'[i] = i - 1
        <4>1. CASE i = index + 2
          BY <1>2, <3>2, <4>1
        <4>2. CASE i # index + 2
          <5>1. i \in 1..(index + 1)
            BY <1>2, <4>2
          <5> QED
            BY <1>0, <3>2, <5>1 DEF EachOnceInOrder
        <4> QED
          BY <4>1, <4>2
      <3> QED
        BY <1>2, <2>2, <3>2, <3>3 DEF EachOnceInOrder
    <2> QED
      BY <1>6, <2>1, <2>2
  <1>9. CallsOK'
    <2>1. \A d \in Made' : pos'[d] <= index'
      <3>1. pos'[n] <= index'
        BY <1>2, <1>4, <1>6
      <3>2. ASSUME NEW d \in Made PROVE pos'[d] <= index'
        <4>1. pos[d] <= index /\ pos[d] \in 0..N
          BY <1>0, <1>1 DEF CallsOK, TypeOK
        <4> QED
          BY <1>2, <1>4, <1>6, <4>1
      <3> QED
        BY <1>1, <3>1, <3>2
    <2>2. ASSUME NEW d \in Made, out'[n].pc # "refused" PROVE pos'[d] # pos'[n]
      <3>1. pos[d] <= index /\ pos[d] \in 0..N
        BY <1>0, <1>1 DEF CallsOK, TypeOK
      <3> QED
        BY <1>2, <1>4, <1>6, <2>2, <3>1
    <2>3. \A d, e \in Made' :
            out'[d].pc # "refused" /\ out'[e].pc # "refused" /\ pos'[d] = pos'[e] => d = e
      BY <1>0, <1>1, <1>4, <2>2 DEF CallsOK
    <2>4. out'[Root].pc # "refused"
      BY <1>0, <1>1, <1>4 DEF CallsOK
    <2> QED
      BY <2>1, <2>3, <2>4 DEF CallsOK
  <1>10. ASSUME NEW d \in Made', out'[d].pc = "ok" PROVE d \in Made /\ out[d].pc = "ok"
    BY <1>1, <1>4, <1>5, <1>10
  <1>11. ASSUME NEW d \in Made PROVE IsHandler(d)' <=> IsHandler(d)
    BY <1>4 DEF IsHandler
  <1>12. OutcomeOK'
    <2>1. ASSUME NEW d \in Made', out'[d].pc = "ok" PROVE Decided(d)'
      <3>1. d \in Made /\ Decided(d)
        BY <1>0, <1>10, <2>1 DEF OutcomeOK
      <3> QED
        BY <1>1, <1>4, <3>1 DEF Decided
    <2>2. ASSUME NEW d \in Made', IsHandler(d)', out'[d].pc = "ok" PROVE out'[d].own
      BY <1>0, <1>4, <1>10, <1>11, <2>2 DEF OutcomeOK
    <2> QED
      BY <2>1, <2>2 DEF OutcomeOK
  <1>13. ResultOK'
    <2>1. ASSUME NEW d \in Made', IsHandler(d)', out'[d].pc = "ok", kind \in EventKinds
          PROVE  result = out'[d].val
      BY <1>0, <1>4, <1>10, <1>11, <2>1 DEF ResultOK
    <2> QED
      BY <1>0, <1>1, <1>3, <1>4, <2>1 DEF ResultOK
  <1>14. SuccessMeansHandled'
    BY <1>0, <1>1, <1>3, <1>4 DEF SuccessMeansHandled, IsHandler
  <1>15. FailureHasCause'
    BY <1>0, <1>1, <1>3, <1>4 DEF FailureHasCause
  <1> QED
    BY <1>7, <1>8, <1>9, <1>12, <1>13, <1>14, <1>15 DEF IInv, ReportOK

-----------------------------------------------------------------------------
(* A promise settles.                                                      *)

LEMMA SettleOK ==
  ASSUME IInv, NEW c \in Made, out[c].pc # "refused", NEW o \in Promise, Settle(c, o),
         o.pc \in {"ok", "failed"},
         \/ /\ IsLayer(c) /\ o.own /\ UNCHANGED result
         \/ /\ IsLayer(c) /\ UNCHANGED result
            /\ \E k \in Made : out[k].pc = "ok" /\ out[k].val = o.val
         \/ /\ IsLayer(c) /\ UNCHANGED result /\ o.pc = "failed"
         \/ /\ IsHandler(c) /\ \E e \in Errors : o = Thrown(e)
            /\ UNCHANGED result
         \/ /\ IsHandler(c)
            /\ \E v \in HandlerValues :
                 /\ o = Returned(v)
                 /\ result' = IF kind \in {"http", "websocket"} THEN result ELSE v
  PROVE  IInv'
  <1> USE PipelineAssumption
  <1>0. /\ TypeOK /\ EachOnceInOrder /\ CallsOK /\ OutcomeOK /\ ResultOK
        /\ SuccessMeansHandled /\ FailureHasCause
    BY DEF IInv, ReportOK
  <1>1. /\ out[c].pc = "running" /\ out' = [out EXCEPT ![c] = o]
        /\ UNCHANGED <<kind, index, entered, made, pos, caller, report>>
        /\ Made' = Made
    BY DEF Settle, Made
  <1>2. /\ Made \subseteq CallId /\ Root \in Made /\ c \in CallId
        /\ out'[c] = o /\ \A d \in Made \ {c} : out'[d] = out[d]
    BY <1>0, <1>1 DEF TypeOK, Made, CallId, Root
  <1>3. \A d \in Made : out[d].pc # "running" => d # c
    BY <1>1
  <1>4. EachOnceInOrder' /\ CallsOK'
    <2>1. o.pc # "refused"
      OBVIOUS
    <2> QED
      BY <1>0, <1>1, <1>2, <2>1 DEF EachOnceInOrder, CallsOK
  <1>5. ReportOK'
    BY <1>0, <1>1, <1>2, <1>3 DEF ReportOK, SuccessMeansHandled, FailureHasCause, IsHandler
  <1>6. result' \in Values => TypeOK'
    BY <1>0, <1>1 DEF TypeOK
  <1>7. result \in Values
    BY <1>0 DEF TypeOK
  <1>8. \A d \in Made : out[d] = Returned("failure") => out'[d] = Returned("failure")
    BY <1>1, <1>2 DEF Returned
  <1>9. o.pc = "failed" \/ Decided(c)' => OutcomeOK' \/ (IsHandler(c) /\ o.pc = "ok" /\ ~o.own)
    <2>1. ASSUME NEW d \in Made \ {c}, out'[d].pc = "ok" PROVE Decided(d)'
      BY <1>0, <1>1, <1>2, <1>3, <2>1 DEF OutcomeOK, Decided
    <2> QED
      BY <1>0, <1>1, <1>2, <2>1 DEF OutcomeOK, IsHandler
  <1>10. CASE UNCHANGED result /\ (o.pc = "failed" \/ ~IsHandler(c))
    <2>1. ResultOK'
      BY <1>0, <1>1, <1>2, <1>8, <1>10 DEF ResultOK, IsHandler
    <2>2. Decided(c)' \/ o.pc = "failed"
      <3>1. CASE o.pc = "ok" /\ o.own
        BY <1>1, <1>2, <3>1 DEF Decided
      <3>2. CASE \E k \in Made : out[k].pc = "ok" /\ out[k].val = o.val
        <4>1. PICK k \in Made : out[k].pc = "ok" /\ out[k].val = o.val
          BY <3>2
        <4>2. PICK d \in Made : out[d].pc = "ok" /\ out[d].own /\ out[d].val = o.val
          BY <1>0, <4>1 DEF OutcomeOK, Decided
        <4>3. d # c
          BY <1>3, <4>2
        <4> QED
          BY <1>1, <1>2, <4>2, <4>3 DEF Decided
      <3>3. CASE \E v \in HandlerValues : o = Returned(v)
        BY <1>1, <1>2, <3>3 DEF Returned, Decided
      <3> QED
        BY <3>1, <3>2, <3>3 DEF Thrown
    <2> QED
      BY <1>4, <1>5, <1>6, <1>7, <1>9, <1>10, <2>1, <2>2 DEF IInv, ReportOK, TypeOK
  <1>11. CASE /\ IsHandler(c)
              /\ \E v \in HandlerValues :
                   /\ o = Returned(v)
                   /\ result' = IF kind \in {"http", "websocket"} THEN result ELSE v
    <2>1. PICK v \in HandlerValues :
            /\ o = Returned(v)
            /\ result' = IF kind \in {"http", "websocket"} THEN result ELSE v
      BY <1>11
    <2>2. /\ o.pc = "ok" /\ o.own /\ o.val = v /\ v \in Values
          /\ kind \in EventKinds => v \in {"success", "failure"}
          /\ kind = "custom" => v = "value"
      BY <2>1 DEF Returned, HandlerValues, Values, EventKinds
    <2>3. Decided(c)'
      BY <1>1, <1>2, <2>2 DEF Decided
    <2>4. result' \in Values
      BY <1>7, <2>1, <2>2
    <2>5. \A d \in Made : IsHandler(d)' /\ out'[d].pc = "ok" => d = c
      <3>1. ASSUME NEW d \in Made, IsHandler(d)', out'[d].pc = "ok", d # c PROVE FALSE
        <4>1. out[d].pc # "refused" /\ pos[d] = pos[c]
          BY <1>1, <1>2, <1>11, <3>1 DEF IsHandler
        <4> QED
          BY <1>0, <3>1, <4>1 DEF CallsOK
      <3> QED
        BY <3>1
    <2>6. ResultOK'
      <3>1. CASE kind \in EventKinds
        <4>1. result' = v
          BY <2>1, <3>1 DEF EventKinds
        <4>2. v = "failure" => out'[c] = Returned("failure")
          BY <1>2, <2>1
        <4> QED
          BY <1>1, <1>2, <2>2, <2>5, <3>1, <4>1, <4>2 DEF ResultOK
      <3>2. CASE kind \notin EventKinds
        <4>1. kind \in {"http", "websocket", "custom"}
          BY <1>0, <3>2 DEF TypeOK, AllKinds, EventKinds
        <4>2. result \in {"value", "undefined"}
          BY <1>0, <3>2 DEF ResultOK
        <4>3. result' \in {"value", "undefined"}
          BY <2>1, <2>2, <4>1, <4>2
        <4> QED
          BY <1>1, <3>2, <4>3 DEF ResultOK
      <3> QED
        BY <3>1, <3>2
    <2> QED
      BY <1>4, <1>5, <1>6, <1>9, <2>2, <2>3, <2>4, <2>6 DEF IInv
  <1>12. ~(IsHandler(c) /\ IsLayer(c))
    BY <1>0, <1>2 DEF IsHandler, IsLayer, TypeOK
  <1> QED
    <2>1. CASE IsHandler(c) /\ UNCHANGED result /\ \E e \in Errors : o = Thrown(e)
      BY <1>10, <2>1 DEF Thrown
    <2>2. CASE IsLayer(c) /\ UNCHANGED result
      BY <1>10, <1>12, <2>2
    <2> QED
      BY <1>11, <2>1, <2>2

-----------------------------------------------------------------------------
(* The answer.                                                             *)

LEMMA ReportStepOK == IInv /\ Report => IInv'
  <1> SUFFICES ASSUME IInv, Report PROVE IInv'
    OBVIOUS
  <1>0. TypeOK /\ EachOnceInOrder /\ CallsOK /\ OutcomeOK /\ ResultOK
    BY DEF IInv
  <1>1. /\ report' = Answer /\ out[Root].pc # "running" /\ out[Root].pc # "refused"
        /\ UNCHANGED <<kind, index, entered, made, pos, caller, out, result>>
        /\ Made' = Made
    BY <1>0 DEF Report, Settled, CallsOK, Made
  <1>2. Root \in Made /\ out[Root].pc \in {"ok", "failed"}
    BY <1>0, <1>1, PipelineAssumption DEF Root, Made, TypeOK, CallId, Promise
  <1>3. \/ kind = "http" /\ report' = HttpAnswer
        \/ kind \in EventKinds /\ report' = EventAnswer
        \/ kind = "custom" /\ report' = (IF out[Root].pc = "ok" THEN result ELSE "thrown")
        \/ kind = "websocket" /\ report' = "done"
    BY <1>0, <1>1 DEF Answer, TypeOK, AllKinds, EventKinds
  <1>4. result \in Values
    BY <1>0 DEF TypeOK
  <1>5. TypeOK'
    <2>1. report' \in {"none", "response", "status", "500", "success", "failure",
                       "value", "undefined", "thrown", "done"}
      BY <1>3, <1>4 DEF HttpAnswer, EventAnswer, Values
    <2> QED
      BY <1>0, <1>1, <2>1 DEF TypeOK
  <1>6. SuccessMeansHandled'
    <2> SUFFICES ASSUME report' = "success"
                 PROVE  \E c \in Made : /\ out[c].pc = "ok" /\ out[c].own
                                        /\ IsHandler(c) => out[c].val = "success"
      BY <1>1 DEF SuccessMeansHandled, IsHandler
    <2>1. kind \in EventKinds /\ out[Root].pc = "ok" /\ result = "success"
      <3>1. CASE kind = "custom"
        BY <1>0, <1>3, <3>1 DEF ResultOK, EventKinds
      <3>2. CASE kind = "http"
        BY <1>3, <3>2 DEF HttpAnswer, EventKinds
      <3> QED
        BY <1>3, <3>1, <3>2 DEF EventAnswer, EventKinds
    <2>2. PICK d \in Made : out[d].pc = "ok" /\ out[d].own
      BY <1>0, <1>2, <2>1 DEF OutcomeOK, Decided
    <2>3. IsHandler(d) => out[d].val = "success"
      BY <1>0, <2>1, <2>2 DEF ResultOK
    <2> QED
      BY <2>2, <2>3
  <1>7. FailureHasCause'
    <2> SUFFICES ASSUME report' \in {"failure", "status", "500", "thrown"}
                 PROVE  \E c \in Made :
                          \/ /\ out[c].pc \in {"failed", "refused"}
                             /\ ~(report' = "status" /\ out[c].val = "Error")
                          \/ out[c].pc = "ok" /\ out[c].own /\ out[c].val \in {"failure", "undefined"}
      BY <1>1 DEF FailureHasCause
    <2>1. CASE out[Root].pc = "failed"
      <3>1. report' = "status" => out[Root].val # "Error"
        BY <1>3, <1>4, <2>1 DEF HttpAnswer, EventAnswer, Values
      <3> QED
        BY <1>2, <2>1, <3>1
    <2>2. CASE out[Root].pc = "ok"
      <3>1. PICK d \in Made : out[d].pc = "ok" /\ out[d].own /\ out[d].val = out[Root].val
        BY <1>0, <1>2, <2>2 DEF OutcomeOK, Decided
      <3>2. CASE kind = "http"
        <4>1. out[Root].val = "undefined"
          <5>1. report' = HttpAnswer
            BY <1>3, <3>2 DEF EventKinds
          <5> QED
            BY <2>2, <5>1 DEF HttpAnswer
        <4> QED
          BY <3>1, <4>1
      <3>3. CASE kind \in EventKinds
        <4>1. result = "failure"
          BY <1>0, <1>3, <2>2, <3>3 DEF EventAnswer, EventKinds, ResultOK
        <4>2. PICK e \in Made : out[e] = Returned("failure")
          BY <1>0, <3>3, <4>1 DEF ResultOK
        <4> QED
          BY <4>2 DEF Returned
      <3>4. CASE kind = "custom" \/ kind = "websocket"
        BY <1>0, <1>3, <2>2, <3>4 DEF ResultOK, EventKinds
      <3> QED
        BY <1>3, <3>2, <3>3, <3>4
    <2> QED
      BY <1>2, <2>1, <2>2
  <1>8. EachOnceInOrder' /\ CallsOK'
    BY <1>0, <1>1 DEF EachOnceInOrder, CallsOK
  <1>9. OutcomeOK' /\ ResultOK'
    BY <1>0, <1>1 DEF OutcomeOK, ResultOK, Decided, IsHandler
  <1> QED
    BY <1>5, <1>6, <1>7, <1>8, <1>9 DEF IInv, ReportOK

-----------------------------------------------------------------------------
THEOREM IInvStep == IInv /\ [Next]_vars => IInv'
  <1> SUFFICES ASSUME IInv, [Next]_vars PROVE IInv'
    OBVIOUS
  <1>1. ASSUME NEW c \in Made, CallNext(c) PROVE IInv'
    BY <1>1, DispatchOK DEF CallNext
  <1>2. ASSUME NEW c \in Made, CallNextAgain(c) PROVE IInv'
    BY <1>2, DispatchOK DEF CallNextAgain
  <1>3. ASSUME NEW c \in Made, Pass(c) PROVE IInv'
    <2>1. PICK k \in Kids(c) :
            /\ Settled(k)
            /\ Settle(c, [pc |-> IF out[k].pc = "ok" THEN "ok" ELSE "failed",
                          val |-> out[k].val, own |-> FALSE])
      BY <1>3 DEF Pass
    <2> DEFINE o == [pc |-> IF out[k].pc = "ok" THEN "ok" ELSE "failed",
                     val |-> out[k].val, own |-> FALSE]
    <2>2. k \in Made /\ k \in CallId /\ out[k] \in Promise
      BY <2>1, PipelineAssumption DEF Kids, IInv, TypeOK, Made, CallId
    <2>3. o \in Promise /\ o.pc \in {"ok", "failed"}
      BY <2>2 DEF Promise
    <2>4. o.pc = "failed" \/ (out[k].pc = "ok" /\ out[k].val = o.val)
      OBVIOUS
    <2>5. IsLayer(c) /\ out[c].pc # "refused" /\ UNCHANGED result /\ Settle(c, o)
      BY <1>3, <2>1 DEF Pass, IsLayer
    <2> HIDE DEF o
    <2> QED
      BY <2>2, <2>3, <2>4, <2>5, SettleOK
  <1>4. ASSUME NEW c \in Made, Decide(c) PROVE IInv'
    <2>1. IsLayer(c) /\ out[c].pc # "refused" /\ UNCHANGED result
      BY <1>4 DEF Decide, IsLayer
    <2>2. ASSUME NEW v \in {"value", "undefined"}, Settle(c, Returned(v)) PROVE IInv'
      <3>1. Returned(v) \in Promise /\ Returned(v).pc = "ok" /\ Returned(v).own
        BY Shapes DEF Returned, Values
      <3> QED
        BY <2>1, <2>2, <3>1, SettleOK
    <2>3. ASSUME NEW e \in Errors, Settle(c, Thrown(e)) PROVE IInv'
      <3>1. Thrown(e) \in Promise /\ Thrown(e).pc = "failed"
        BY Shapes DEF Thrown
      <3> QED
        BY <2>1, <2>3, <3>1, SettleOK
    <2> QED
      BY <1>4, <2>2, <2>3 DEF Decide
  <1>5. ASSUME NEW c \in Made, HandlerReturns(c) PROVE IInv'
    <2>1. PICK v \in HandlerValues :
            /\ Settle(c, Returned(v))
            /\ result' = IF kind \in {"http", "websocket"} THEN result ELSE v
      BY <1>5 DEF HandlerReturns
    <2>2. IsHandler(c) /\ out[c].pc # "refused" /\ v \in Values
      BY <1>5 DEF HandlerReturns, IsHandler, HandlerValues, Values
    <2>3. Returned(v) \in Promise /\ Returned(v).pc = "ok"
      BY <2>2, Shapes DEF Returned
    <2> QED
      BY <2>1, <2>2, <2>3, SettleOK
  <1>6. ASSUME NEW c \in Made, HandlerThrows(c) PROVE IInv'
    <2>1. PICK e \in Errors : Settle(c, Thrown(e))
      BY <1>6 DEF HandlerThrows
    <2>2. IsHandler(c) /\ out[c].pc # "refused" /\ UNCHANGED result
      BY <1>6 DEF HandlerThrows, IsHandler
    <2>3. Thrown(e) \in Promise /\ Thrown(e).pc = "failed"
      BY Shapes DEF Thrown
    <2> QED
      BY <2>1, <2>2, <2>3, SettleOK
  <1>7. CASE Report
    BY <1>7, ReportStepOK
  <1>8. CASE UNCHANGED vars
    BY <1>8 DEF vars, IInv, TypeOK, EachOnceInOrder, CallsOK, OutcomeOK, ResultOK, ReportOK,
                SuccessMeansHandled, FailureHasCause, Made, Decided, IsHandler
  <1> QED
    BY <1>1, <1>2, <1>3, <1>4, <1>5, <1>6, <1>7, <1>8 DEF Next, LayerStep, HandlerStep

(* Every reachable state has the shape TypeOK gives it.                    *)
THEOREM TypeCorrect == Spec => []TypeOK
  <1>1. IInv => TypeOK
    BY DEF IInv
  <1> QED
    BY InitIInv, IInvStep, <1>1, PTL DEF Spec

(* However layers use next(), they and the handler are entered in order and*)
(* at most once.                                                           *)
THEOREM OnceInOrder == Spec => []EachOnceInOrder
  <1>1. IInv => EachOnceInOrder
    BY DEF IInv
  <1> QED
    BY InitIInv, IInvStep, <1>1, PTL DEF Spec

(* An event is only reported as a success when the handler said so or a    *)
(* layer answered in its place.                                            *)
THEOREM SuccessIsReal == Spec => []SuccessMeansHandled
  <1>1. IInv => SuccessMeansHandled
    BY DEF IInv, ReportOK
  <1> QED
    BY InitIInv, IInvStep, <1>1, PTL DEF Spec

(* A failure is only reported when a layer, the handler or a repeated      *)
(* next() failed.                                                          *)
THEOREM FailureIsReal == Spec => []FailureHasCause
  <1>1. IInv => FailureHasCause
    BY DEF IInv, ReportOK
  <1> QED
    BY InitIInv, IInvStep, <1>1, PTL DEF Spec

-----------------------------------------------------------------------------
(* What keeps a pipeline going.                                            *)

(* A layer only waits for the calls of next() it made, and those came      *)
(* after its own.                                                          *)
CallersFirst ==
  /\ caller[Root] = 0
  /\ \A k \in Made : k = Root \/ (caller[k] \in Made /\ caller[k] < k)

(* As long as the pipeline has not answered, dispatch(0) has settled, or   *)
(* the code of a layer or of the handler is running and everything it      *)
(* called has settled: it waits for nobody but itself.                     *)
NeverStuck ==
  report = "none" =>
    \/ Settled(Root)
    \/ \E c \in Made : /\ out[c].pc = "running" /\ (IsLayer(c) \/ IsHandler(c))
                       /\ \A k \in Kids(c) : Settled(k)

(* A set of natural numbers that is not empty has a least element.         *)
LEMMA LeastNat ==
  ASSUME NEW B \in SUBSET Nat, B # {}
  PROVE  \E m \in B : \A e \in B : m <= e
  <1>1. PICK m \in B : \A e \in B : ~(<<e, m>> \in OpToRel(<, Nat))
    BY NatLessThanWellFounded, WFMin
  <1>2. \A e \in B : ~(e < m)
    BY <1>1 DEF OpToRel
  <1>3. \A e \in B : m <= e
    BY <1>2
  <1> QED BY <1>3

(* A set of indices that is not empty has a last.                          *)
LEMMA HasLast ==
  ASSUME NEW n \in Nat, NEW I \in SUBSET (1..n), I # {}
  PROVE  \E m \in I : \A e \in I : e <= m
  <1>1. PICK B : B = {n - i : i \in I}
    OBVIOUS
  <1>2. B \in SUBSET Nat /\ B # {}
    <2>1. \A i \in I : i \in Int /\ i <= n
      OBVIOUS
    <2>2. \A i \in I : n - i \in Nat
      BY <2>1
    <2> QED BY <1>1, <2>2
  <1>3. PICK b \in B : \A e \in B : b <= e
    BY <1>2, LeastNat
  <1>4. PICK m \in I : b = n - m
    BY <1>1, <1>3
  <1>5. ASSUME NEW e \in I PROVE e <= m
    <2>1. n - m <= n - e
      BY <1>1, <1>3, <1>4
    <2>2. e \in Int /\ m \in Int
      OBVIOUS
    <2> QED BY <2>1, <2>2
  <1> QED BY <1>5

LEMMA CallersStep == IInv /\ CallersFirst /\ [Next]_vars => CallersFirst'
  <1> SUFFICES ASSUME IInv, CallersFirst, [Next]_vars PROVE CallersFirst'
    OBVIOUS
  <1>0. TypeOK /\ made \in CallId /\ made \in Nat
    BY PipelineAssumption DEF IInv, TypeOK, CallId
  <1>1. CASE UNCHANGED <<made, caller>>
    BY <1>1 DEF CallersFirst, Made
  <1>2. ASSUME NEW c \in Made, NEW o, Dispatch(c, o) PROVE CallersFirst'
    <2>1. made' = made + 1 /\ made + 1 \in CallId
      BY <1>0, <1>2, PipelineAssumption DEF Dispatch, CallId
    <2>2. caller'[made + 1] = c /\ \A k \in Made : caller'[k] = caller[k]
      BY <1>0, <1>2, <2>1 DEF Dispatch, TypeOK, Made, CallId
    <2>3. c \in Nat /\ c <= made
      BY <1>0 DEF Made
    <2>4. \A k \in Made' : k \in Made \/ k = made + 1
      BY <1>0, <2>1 DEF Made
    <2>5. \A k \in Made : k \in Made'
      BY <1>0, <2>1 DEF Made
    <2>6. ASSUME NEW k \in Made' PROVE k = Root \/ (caller'[k] \in Made' /\ caller'[k] < k)
      <3>1. CASE k \in Made
        BY <2>2, <2>5, <3>1 DEF CallersFirst
      <3>2. CASE k = made + 1
        <4>1. caller'[k] = c /\ c < k
          BY <1>0, <2>2, <2>3, <3>2
        <4> QED BY <2>5, <4>1
      <3> QED BY <2>4, <3>1, <3>2
    <2>7. Root \in Made
      BY <1>0 DEF Root, Made, CallId
    <2> QED BY <2>2, <2>6, <2>7 DEF CallersFirst
  <1>3. \/ UNCHANGED <<made, caller>>
        \/ \E c \in Made : \E o : Dispatch(c, o)
    BY DEF Next, LayerStep, HandlerStep, CallNext, CallNextAgain, Pass, Decide, HandlerReturns,
           HandlerThrows, Settle, Report, vars
  <1> QED BY <1>1, <1>2, <1>3

(* A pipeline that has not answered always has code of its own to run or   *)
(* its answer to give: no layer waits for a next() that nothing settles.   *)
THEOREM KeepsGoing == Spec => []NeverStuck
  <1>1. Init => CallersFirst
    BY PipelineAssumption DEF Init, CallersFirst, Made, Root, CallId
  <1>2. IInv /\ CallersFirst => NeverStuck
    <2> SUFFICES ASSUME IInv, CallersFirst, ~Settled(Root)
                 PROVE  \E c \in Made : /\ out[c].pc = "running" /\ (IsLayer(c) \/ IsHandler(c))
                                        /\ \A k \in Kids(c) : Settled(k)
      BY DEF NeverStuck
    <2>0. TypeOK /\ made \in CallId /\ made \in Nat /\ Made \subseteq CallId
      BY PipelineAssumption DEF IInv, TypeOK, CallId, Made
    <2>1. PICK I : I = {c \in Made : out[c].pc = "running"}
      OBVIOUS
    <2>2. Root \in I
      <3>1. Root \in Made
        BY <2>0, PipelineAssumption DEF Root, Made, CallId
      <3> QED BY <2>1, <3>1 DEF Settled
    <2>3. I \in SUBSET (1..made) /\ I # {}
      BY <2>1, <2>2 DEF Made
    <2>4. PICK c \in I : \A e \in I : e <= c
      BY <2>0, <2>3, HasLast
    <2>5. c \in Made /\ out[c].pc = "running" /\ pos[c] \in 0..N
      BY <2>0, <2>1 DEF TypeOK
    <2>6. IsLayer(c) \/ IsHandler(c)
      <3>1. pos[c] < N \/ pos[c] = N
        BY <2>5, PipelineAssumption
      <3> QED BY <2>5, <3>1 DEF IsLayer, IsHandler
    <2>7. ASSUME NEW k \in Kids(c), ~Settled(k) PROVE FALSE
      <3>1. k \in Made /\ caller[k] = c
        BY DEF Kids
      <3>2. k \in I
        BY <2>1, <2>7, <3>1 DEF Settled
      <3>3. k <= c
        BY <2>4, <3>2
      <3>4. k \in Nat /\ c \in Nat /\ c # 0
        BY <2>3, <3>2
      <3>5. k = Root
        BY <3>1, <3>3, <3>4 DEF CallersFirst
      <3>6. c = 0
        BY <3>1, <3>5 DEF CallersFirst
      <3> QED BY <3>4, <3>6
    <2> QED BY <2>5, <2>6, <2>7
  <1> QED BY InitIInv, IInvStep, <1>1, <1>2, CallersStep, PTL DEF Spec

-----------------------------------------------------------------------------
(* The guards and the validation layers.                                   *)

CONSTANTS Request, Handlers, ClassGuards, Input(_)
VARIABLES handler, input, pc, auth, set, outcome, kept, constructing, built

Checks == INSTANCE RequestChecks

Types == {"http", "websocket", "consumer", "schedule", "custom"}
Parts == {"body", "params", "query", "headers", "wsMessageBody", "consumerMessage",
          "scheduleInput", "customPayload"}

(* A blueprint's handlers and the layers their code declares.  There is no *)
(* parameter for the whole of a WebSocket message or of a custom payload   *)
(* but the one for the part, and a schedule's input is JSON.               *)
HandlersTyped ==
  /\ Handlers \subseteq [type : Types, form : Checks!Forms, guards : Seq(STRING),
                        layers : Seq(SUBSET Parts)]
  /\ \A h \in Handlers :
       /\ h.form = "event" => h.type \in {"http", "consumer", "schedule"}
       /\ h.type = "schedule" =>
            \A in \in Input(h.type) : in["scheduleInput"] \in {"good", "bad"}

(* The parts of a type, one by one.                                        *)
LEMMA PartsAre ==
  /\ Checks!PartsOf("http") = {"body", "params", "query", "headers"}
  /\ Checks!PartsOf("websocket") = {"wsMessageBody"}
  /\ Checks!PartsOf("consumer") = {"consumerMessage"}
  /\ Checks!PartsOf("schedule") = {"scheduleInput"}
  /\ Checks!PartsOf("custom") = {"customPayload"}
  /\ DOMAIN Checks!HttpParts = 1..4
  /\ \A p \in Checks!PartsOf("http") : \E i \in 1..4 : Checks!HttpParts[i] = p
  <1>1. /\ DOMAIN Checks!HttpParts = 1..4
        /\ Checks!HttpParts[1] = "body" /\ Checks!HttpParts[2] = "params"
        /\ Checks!HttpParts[3] = "query" /\ Checks!HttpParts[4] = "headers"
    BY DEF Checks!HttpParts
  <1>2. 1..4 = {1, 2, 3, 4}
    OBVIOUS
  <1>3. Checks!PartsOf("http") = {"body", "params", "query", "headers"}
    BY <1>1, <1>2 DEF Checks!PartsOf
  <1>4. \A p \in Checks!PartsOf("http") : \E i \in 1..4 : Checks!HttpParts[i] = p
    BY <1>1, <1>2, <1>3
  <1> QED BY <1>1, <1>3, <1>4 DEF Checks!PartsOf

(* A layer whose schemas are all of one type is a layer of that type.      *)
LEMMA OwnMode ==
  ASSUME NEW type \in Types, NEW s \in SUBSET Checks!PartsOf(type), s # {}
  PROVE  Checks!InferMode(s) = type
  <1> DEFINE has == {i \in DOMAIN Checks!Modes : Checks!PartsOf(Checks!Modes[i]) \cap s # {}}
  <1>1. /\ DOMAIN Checks!Modes = 1..4
        /\ Checks!Modes[1] = "consumer" /\ Checks!Modes[2] = "schedule"
        /\ Checks!Modes[3] = "custom" /\ Checks!Modes[4] = "websocket"
    BY DEF Checks!Modes
  <1>2. 1..4 = {1, 2, 3, 4}
    OBVIOUS
  <1>3. \A i \in 1..4 : i \in has <=> Checks!Modes[i] = type
    BY <1>1, <1>2, PartsAre DEF Types
  <1>4. type = "http" => has = {}
    BY <1>1, <1>2, <1>3
  <1>5. \A i \in 1..4 : Checks!Modes[i] = type => has = {i}
    BY <1>1, <1>2, <1>3
  <1>6. type # "http" => \E i \in 1..4 : Checks!Modes[i] = type
    BY <1>1 DEF Types
  <1>7. CASE type = "http"
    BY <1>4, <1>7 DEF Checks!InferMode
  <1>8. CASE type # "http"
    <2>1. PICK i \in 1..4 : Checks!Modes[i] = type
      BY <1>6, <1>8
    <2>2. has = {i}
      BY <1>5, <2>1
    <2>3. (CHOOSE k \in has : \A j \in has : k <= j) = i
      BY <2>2
    <2> QED BY <2>1, <2>2, <2>3 DEF Checks!InferMode
  <1> QED BY <1>7, <1>8

(* A part that was parsed, and of which the schema accepted what arrived.  *)
Taken(type, p, parsed, in) ==
  /\ p \in parsed
  /\ type = "http" => in[p] = "good"
  /\ type = "schedule" => in[p] # "bad"

(* What a layer that throws nothing has parsed.                            *)
LEMMA HandleParses ==
  ASSUME NEW s \in SUBSET Parts, NEW in,
         Checks!Handle(s, in).error = "none",
         NEW p \in s, p \in Checks!PartsOf(Checks!InferMode(s)), Checks!InferMode(s) \in Types
  PROVE  Taken(Checks!InferMode(s), p, Checks!Handle(s, in).set, in) \/ Checks!Absent(p, in[p])
  <1>1. CASE Checks!InferMode(s) = "http"
    <2> DEFINE present == {i \in DOMAIN Checks!HttpParts :
                             /\ Checks!HttpParts[i] \in s
                             /\ ~Checks!Absent(Checks!HttpParts[i], in[Checks!HttpParts[i]])}
               bad == {i \in present : in[Checks!HttpParts[i]] # "good"}
               parsed == {Checks!HttpParts[i] : i \in {j \in present : \A k \in bad : j < k}}
    <2>1. Checks!Handle(s, in) = Checks!ValidateHttp(s, in)
      BY <1>1 DEF Checks!Handle
    <2>2. Checks!ValidateHttp(s, in) =
            IF bad # {} THEN Checks!Failed("HttpException", parsed) ELSE Checks!Passed(parsed)
      BY DEF Checks!ValidateHttp
    <2>3. bad = {} /\ Checks!Handle(s, in).set = parsed
      BY <2>1, <2>2 DEF Checks!Failed, Checks!Passed
    <2>4. PICK i \in DOMAIN Checks!HttpParts : Checks!HttpParts[i] = p
      BY <1>1, PartsAre
    <2>5. Checks!Absent(p, in[p]) \/ i \in present
      BY <2>4
    <2>6. i \in present => p \in parsed /\ in[p] = "good"
      BY <2>3, <2>4
    <2> QED BY <1>1, <2>3, <2>5, <2>6 DEF Taken
  <1>2. CASE Checks!InferMode(s) = "consumer"
    <2>1. Checks!Handle(s, in) = Checks!ValidateConsumer
      BY <1>2 DEF Checks!Handle
    <2> QED BY <1>2, <2>1, PartsAre DEF Checks!ValidateConsumer, Checks!Passed, Taken
  <1>3. CASE Checks!InferMode(s) \notin {"http", "consumer"}
    <2> DEFINE q == CHOOSE q \in Checks!PartsOf(Checks!InferMode(s)) : TRUE
    <2>1. Checks!Handle(s, in) = Checks!ValidateOne(q, in[q])
      BY <1>3 DEF Checks!Handle
    <2>2. q \in Checks!PartsOf(Checks!InferMode(s))
      OBVIOUS
    <2>3. q = p
      BY <1>3, <2>2, PartsAre DEF Types
    <2>4. Checks!Handle(s, in) = Checks!ValidateOne(p, in[p])
      BY <2>1, <2>3
    <2>5. ASSUME ~Checks!Absent(p, in[p]) PROVE p \in Checks!Handle(s, in).set /\ in[p] # "bad"
      <3>1. CASE in[p] = "bad"
        <4>1. Checks!Handle(s, in) = [error |-> "Error", set |-> {}]
          BY <2>4, <2>5, <3>1 DEF Checks!ValidateOne, Checks!Failed
        <4> QED BY <4>1
      <3>2. CASE in[p] # "bad"
        <4>1. Checks!Handle(s, in) = [error |-> "none", set |-> {p}]
          BY <2>4, <2>5, <3>2 DEF Checks!ValidateOne, Checks!Passed
        <4> QED BY <3>2, <4>1
      <3> QED BY <3>1, <3>2
    <2> QED BY <1>3, <2>5 DEF Taken
  <1> QED BY <1>1, <1>2, <1>3

(* Every part that a layer of the type has a schema for is parsed or left. *)
AllParsed(layers, type, parsed, in) ==
  \A i \in {j \in DOMAIN layers : layers[j] \subseteq Checks!PartsOf(type)} : \A p \in layers[i] :
    Taken(type, p, parsed, in) \/ Checks!Absent(p, in[p])

(* Layers that throw nothing have parsed every part.                       *)
LEMMA ValidateParses ==
  ASSUME NEW type \in Types, NEW layers \in Seq(SUBSET Parts), NEW in,
         Checks!Validate(layers, type, in).error = "none"
  PROVE  AllParsed(layers, type, Checks!Validate(layers, type, in).set, in)
  <1> DEFINE own == {i \in DOMAIN layers : Checks!Supports(layers[i], type)}
             done == [i \in own |-> Checks!Handle(layers[i], in)]
             bad == {i \in own : done[i].error # "none"}
             first == CHOOSE i \in bad : \A j \in bad : i <= j
             ran == {j \in own : bad = {} \/ j <= first}
             all == Checks!Validate(layers, type, in)
  <1>1. all = [error |-> IF bad = {} THEN "none" ELSE done[first].error,
               set |-> UNION {done[i].set : i \in ran}]
    BY DEF Checks!Validate
  <1>2. bad # {} => all.error = done[first].error
    <2> HIDE DEF bad, first, ran, done, all
    <2> QED BY <1>1
  <1>3. all.set = UNION {done[i].set : i \in ran}
    <2> HIDE DEF bad, first, ran, done, all
    <2> QED BY <1>1
  <1>4. bad = {}
    <2> SUFFICES ASSUME bad # {} PROVE FALSE
      OBVIOUS
    <2>1. bad \in SUBSET Nat
      OBVIOUS
    <2>2. \E i \in bad : \A j \in bad : i <= j
      BY <2>1, LeastNat
    <2>3. first \in bad
      BY <2>2
    <2>4. done[first].error # "none"
      BY <2>3
    <2> QED BY <1>2, <2>4
  <1>5. ran = own
    BY <1>4
  <1>6. ASSUME NEW i \in DOMAIN layers, layers[i] \subseteq Checks!PartsOf(type), NEW p \in layers[i]
        PROVE  Taken(type, p, Checks!Validate(layers, type, in).set, in) \/ Checks!Absent(p, in[p])
    <2>1. layers[i] \in SUBSET Parts
      OBVIOUS
    <2>2. Checks!InferMode(layers[i]) = type
      BY <1>6, OwnMode
    <2>3. i \in own
      BY <2>2 DEF Checks!Supports
    <2>4. Checks!Handle(layers[i], in).error = "none"
      BY <1>4, <2>3
    <2>5. Taken(type, p, Checks!Handle(layers[i], in).set, in) \/ Checks!Absent(p, in[p])
      BY <1>6, <2>1, <2>2, <2>4, HandleParses
    <2>6. done[i].set = Checks!Handle(layers[i], in).set
      BY <2>3
    <2>7. done[i].set \subseteq all.set
      <3> HIDE DEF own, done, ran, all
      <3> QED BY <1>3, <1>5, <2>3
    <2> QED BY <2>5, <2>6, <2>7 DEF Taken
  <1> QED BY <1>6 DEF AllParsed

(* Before its handler a request has nothing that a layer parsed, and was   *)
(* allowed by the guards before the one it is at; a handler is reached by  *)
(* all guards and with every part parsed.                                  *)
Pcs == {"arrived", "logging", "injecting", "building", "given", "judging", "checked",
        "handling", "ended"}
Past(r) == pc[r] \in {"injecting", "building", "given", "checked", "handling"}
Sound(r) ==
  /\ auth[r] \in Seq(STRING) /\ Len(auth[r]) <= Len(handler.guards)
  /\ \A i \in 1..Len(auth[r]) : auth[r][i] = handler.guards[i]
  /\ pc[r] \in {"logging", "judging"} => ~Checks!Guarded(r)
  /\ pc[r] \in {"checked", "handling"} => Checks!Guarded(r)
  /\ pc[r] = "arrived" \/ ~Checks!Guarded(r) => set[r] = {}
  /\ pc[r] # "ended" => outcome[r] = "none"
  /\ outcome[r] = "handled" => Checks!Guarded(r)
  /\ (Past(r) /\ Checks!Guarded(r)) \/ outcome[r] = "handled" =>
       AllParsed(handler.layers, handler.type, set[r], input[r])
  /\ outcome[r] \in {"forbidden", "unauthorised", "rejection"} => set[r] = {}

(* The class that a request waits for is under construction, by it alone,  *)
(* and has no object; the classes it is past have one each.                *)
Objected(r) ==
  /\ pc[r] = "injecting" => ~Checks!IsClass(r)
  /\ pc[r] = "building" => Checks!IsClass(r) /\ Checks!Class(r) \in constructing
  /\ pc[r] = "given" => Checks!IsClass(r) /\ built[Checks!Class(r)] = 1
  /\ pc[r] = "judging" /\ Checks!IsClass(r) => built[Checks!Class(r)] = 1
  /\ Checks!Reached(r) /\ handler.form # "function" => built["controller"] = 1
  /\ \A i \in 1..Len(auth[r]) : auth[r][i] \in ClassGuards => built[auth[r][i]] = 1

OneObject ==
  /\ built \in [Checks!Classes -> {0, 1}]
  /\ kept \subseteq Checks!Classes /\ constructing \subseteq Checks!Classes
  /\ \A c \in kept : built[c] = 1
  /\ \A c \in constructing : built[c] = 0
  /\ \A r, q \in Request :
       pc[r] = "building" /\ pc[q] = "building" /\ Checks!Class(r) = Checks!Class(q) => r = q

ChecksInv ==
  /\ handler \in Handlers /\ input \in [Request -> Input(handler.type)]
  /\ pc \in [Request -> Pcs]
  /\ DOMAIN auth = Request /\ DOMAIN set = Request /\ DOMAIN outcome = Request
  /\ \A r \in Request : Sound(r)
  /\ OneObject
  /\ \A r \in Request : Objected(r)

(* Requests begin with `ChecksInv`.                                        *)
LEMMA ChecksInit == HandlersTyped /\ Checks!Init => ChecksInv
  <1> SUFFICES ASSUME HandlersTyped, Checks!Init PROVE ChecksInv
    OBVIOUS
  <1>1. handler \in Handlers /\ handler.guards \in Seq(STRING)
    BY DEF Checks!Init, HandlersTyped
  <1>2. /\ DOMAIN auth = Request /\ DOMAIN set = Request /\ DOMAIN outcome = Request
        /\ pc \in [Request -> Pcs] /\ input \in [Request -> Input(handler.type)]
    BY DEF Checks!Init, Pcs
  <1>3. \A r \in Request : /\ auth[r] = <<>> /\ set[r] = {} /\ pc[r] = "arrived"
                           /\ outcome[r] = "none"
    BY DEF Checks!Init
  <1>4. ASSUME NEW r \in Request PROVE Sound(r) /\ Objected(r)
    <2>0. auth[r] = <<>>
      BY <1>3
    <2>1. auth[r] \in Seq(STRING) /\ Len(auth[r]) = 0 /\ Len(handler.guards) \in Nat
      BY <1>1, <2>0
    <2> QED BY <1>3, <2>1 DEF Sound, Objected, Past, Checks!Reached
  <1>5. OneObject
    BY <1>3 DEF Checks!Init, OneObject
  <1> QED BY <1>1, <1>2, <1>4, <1>5 DEF ChecksInv

(* What the state of one request says.                                     *)
LEMMA Typing ==
  ASSUME HandlersTyped, ChecksInv, NEW r \in Request
  PROVE  /\ handler \in Handlers
         /\ handler.type \in Types /\ handler.layers \in Seq(SUBSET Parts)
         /\ handler.guards \in Seq(STRING) /\ Len(handler.guards) \in Nat
         /\ \A i \in 1..Len(handler.guards) : handler.guards[i] \in STRING
         /\ Sound(r) /\ Len(auth[r]) \in Nat /\ pc[r] \in Pcs /\ Objected(r)
         /\ Checks!IsClass(r) => Checks!Class(r) \in Checks!Classes
  <1>1. /\ handler \in Handlers /\ Sound(r) /\ Objected(r) /\ pc[r] \in Pcs
        /\ handler \in [type : Types, form : Checks!Forms, guards : Seq(STRING),
                        layers : Seq(SUBSET Parts)]
    BY DEF HandlersTyped, ChecksInv
  <1>2. Len(auth[r]) \in Nat
    BY <1>1 DEF Sound
  <1>3. Checks!IsClass(r) => Checks!Class(r) \in Checks!Classes
    BY DEF Checks!IsClass, Checks!Class, Checks!Classes, Checks!Controller
  <1> QED BY <1>1, <1>2, <1>3

(* A step changes one request.                                             *)
Others(r) ==
  /\ UNCHANGED <<handler, input>>
  /\ DOMAIN auth' = DOMAIN auth /\ DOMAIN set' = DOMAIN set /\ DOMAIN outcome' = DOMAIN outcome
  /\ pc' = [pc EXCEPT ![r] = pc'[r]] /\ pc'[r] \in Pcs
  /\ \A q \in Request \ {r} :
       auth'[q] = auth[q] /\ set'[q] = set[q] /\ outcome'[q] = outcome[q]

(* A request that ends.                                                    *)
LEMMA EndIs ==
  ASSUME ChecksInv, NEW r \in Request, NEW how, Checks!End(r, how)
  PROVE  /\ Others(r) /\ pc'[r] = "ended" /\ outcome'[r] = how
         /\ auth' = auth /\ set' = set
  BY DEF ChecksInv, Checks!End, Others, Pcs

(* A request that goes on.                                                 *)
LEMMA GoIs ==
  ASSUME ChecksInv, NEW r \in Request, NEW from, NEW to, to \in Pcs, Checks!Go(r, from, to)
  PROVE  pc[r] \in from /\ pc'[r] = to /\ pc' = [pc EXCEPT ![r] = pc'[r]] /\ pc'[r] \in Pcs
  BY DEF ChecksInv, Checks!Go

(* An end keeps what the request's state says.                             *)
LEMMA EndSound ==
  ASSUME HandlersTyped, ChecksInv, NEW r \in Request, NEW how, Checks!End(r, how),
         how \in {"forbidden", "unauthorised", "rejection"} => ~Checks!Guarded(r),
         how = "handled" => pc[r] = "handling"
  PROVE  Others(r) /\ Sound(r)'
  <1>1. /\ Others(r) /\ pc'[r] = "ended" /\ outcome'[r] = how
        /\ auth' = auth /\ set' = set /\ handler' = handler /\ input' = input
    BY EndIs DEF Others
  <1>2. Sound(r)
    BY Typing
  <1>3. AllParsed(handler.layers, handler.type, set[r], input[r])' <=>
        AllParsed(handler.layers, handler.type, set[r], input[r])
    BY <1>1 DEF AllParsed, Taken
  <1>4. Sound(r)'
    BY <1>1, <1>2, <1>3 DEF Sound, Checks!Guarded, Past
  <1> QED BY <1>1, <1>4

(* So does a step that leaves all but its place alone.                     *)
LEMMA GoSound ==
  ASSUME HandlersTyped, ChecksInv, NEW r \in Request, NEW from, NEW to,
         Checks!Go(r, from, to), UNCHANGED <<handler, input, auth, set, outcome>>,
         pc[r] # "ended", to \in Pcs \ {"arrived", "ended"},
         to \in {"logging", "judging"} => ~Checks!Guarded(r),
         to \in {"checked", "handling"} => Checks!Guarded(r),
         Checks!Guarded(r) => Past(r)
  PROVE  Others(r) /\ Sound(r)'
  <1>1. pc[r] \in from /\ pc'[r] = to /\ pc' = [pc EXCEPT ![r] = pc'[r]] /\ pc'[r] \in Pcs
    BY GoIs
  <1>2. Sound(r)
    BY Typing
  <1>3. AllParsed(handler.layers, handler.type, set[r], input[r])' <=>
        AllParsed(handler.layers, handler.type, set[r], input[r])
    BY DEF AllParsed, Taken
  <1>4. Sound(r)'
    BY <1>1, <1>2, <1>3 DEF Sound, Checks!Guarded, Past
  <1> QED BY <1>1, <1>4 DEF Others

(* A rejection is an answer of the pipeline once the guards are passed.    *)
LEMMA RejectedSound ==
  ASSUME HandlersTyped, ChecksInv, NEW r \in Request, Checks!Rejected(r)
  PROVE  Others(r) /\ Sound(r)' /\ auth' = auth /\ pc'[r] = "ended" /\ outcome'[r] # "handled"
  <1>1. handler.type \in Types
    BY Typing
  <1>2. Checks!Caught("Error") \in {"500", "dropped", "failure", "thrown"}
    BY <1>1 DEF Checks!Caught, Types
  <1>3. Checks!MapGuardResult(401) = "unauthorised"
    BY DEF Checks!MapGuardResult
  <1>4. PICK how : how = IF Checks!Guarded(r) THEN Checks!Caught("Error")
                                               ELSE Checks!MapGuardResult(401)
    OBVIOUS
  <1>5. Checks!End(r, how)
    BY <1>4 DEF Checks!Rejected
  <1>6. how # "handled" /\ (how \in {"forbidden", "unauthorised", "rejection"} => ~Checks!Guarded(r))
    BY <1>2, <1>3, <1>4
  <1>7. Others(r) /\ Sound(r)'
    BY <1>5, <1>6, EndSound
  <1> QED BY <1>5, <1>6, <1>7, EndIs

(* What a step does to its request.                                        *)
LEMMA ChecksNext ==
  ASSUME HandlersTyped, ChecksInv, NEW r \in Request, Checks!Step(r)
  PROVE  Others(r) /\ Sound(r)'
  <1>1. /\ handler.type \in Types /\ handler.layers \in Seq(SUBSET Parts)
        /\ handler.guards \in Seq(STRING) /\ Len(handler.guards) \in Nat
        /\ \A i \in 1..Len(handler.guards) : handler.guards[i] \in STRING
    BY Typing
  <1>2. /\ Sound(r) /\ Len(auth[r]) \in Nat /\ pc[r] \in Pcs
        /\ DOMAIN auth = Request /\ DOMAIN set = Request /\ DOMAIN outcome = Request
    BY Typing DEF ChecksInv
  <1>3. Checks!Asks(r) /\ Checks!Guarded(r) => Past(r)
    BY <1>2 DEF Checks!Asks, Sound, Past
  <1>4. Checks!Asks(r) => pc[r] # "ended"
    BY DEF Checks!Asks
  <1>5. /\ Checks!Ready(r) \in {"judging", "handling"}
        /\ Checks!Ready(r) = "judging" => ~Checks!Guarded(r)
        /\ Checks!Ready(r) = "handling" => Checks!Guarded(r)
    BY DEF Checks!Ready
  <1>6. CASE Checks!Inject(r)
    BY <1>3, <1>4, <1>6, GoSound DEF Checks!Inject, Pcs
  <1>7. CASE Checks!UseKept(r)
    BY <1>3, <1>4, <1>5, <1>7, GoSound DEF Checks!UseKept, Pcs
  <1>8. CASE Checks!Find(r)
    BY <1>3, <1>4, <1>8, GoSound DEF Checks!Find, Pcs
  <1>9. CASE Checks!Construct(r)
    BY <1>3, <1>4, <1>9, GoSound DEF Checks!Construct, Pcs
  <1>10. CASE Checks!Circular(r)
    BY <1>10, RejectedSound DEF Checks!Circular
  <1>11. CASE Checks!Constructed(r)
    <2>1. pc[r] = "building" /\ Past(r)
      BY <1>11 DEF Checks!Constructed, Checks!Go, Past
    <2> QED BY <1>11, <2>1, GoSound DEF Checks!Constructed, Pcs
  <1>12. CASE Checks!ResolutionFails(r)
    BY <1>12, RejectedSound DEF Checks!ResolutionFails
  <1>13. CASE Checks!Resolved(r)
    <2>1. pc[r] \in {"given", "injecting"} /\ Past(r)
      BY <1>13 DEF Checks!Resolved, Checks!Go, Past
    <2> QED BY <1>5, <1>13, <2>1, GoSound DEF Checks!Resolved, Pcs
  <1>14. CASE Checks!BeginGuard(r)
    <2>1. pc[r] = "arrived" /\ ~Checks!Guarded(r)
      BY <1>14 DEF Checks!BeginGuard, Checks!Go
    <2> QED BY <1>14, <2>1, GoSound DEF Checks!BeginGuard, Pcs
  <1>15. CASE Checks!LoggerFails(r)
    <2>1. pc[r] = "logging" /\ ~Checks!Guarded(r)
      BY <1>2, <1>15 DEF Checks!LoggerFails, Sound
    <2> QED BY <1>15, <2>1, EndSound DEF Checks!LoggerFails
  <1>16. CASE Checks!Allow(r)
    <2>1. pc[r] = "judging" /\ pc'[r] = "arrived" /\ pc' = [pc EXCEPT ![r] = pc'[r]] /\ pc'[r] \in Pcs
      BY <1>16, GoIs DEF Checks!Allow, Pcs
    <2>2. /\ auth' = [auth EXCEPT ![r] = Append(auth[r], Checks!Guard(r))]
          /\ UNCHANGED <<handler, input, set, outcome>>
      BY <1>16 DEF Checks!Allow
    <2>3. ~Checks!Guarded(r) /\ set[r] = {} /\ outcome[r] = "none"
      BY <1>2, <2>1 DEF Sound
    <2>4. Checks!Guard(r) = handler.guards[Len(auth[r]) + 1]
      BY DEF Checks!Guard
    <2>5. auth[r] \in Seq(STRING) /\ Len(auth[r]) < Len(handler.guards)
      BY <1>1, <1>2, <2>3 DEF Sound, Checks!Guarded
    <2>6. Checks!Guard(r) \in STRING
      BY <1>1, <1>2, <2>4, <2>5
    <2>7. auth'[r] = Append(auth[r], Checks!Guard(r))
      BY <1>2, <2>2
    <2>8. /\ auth'[r] \in Seq(STRING) /\ Len(auth'[r]) = Len(auth[r]) + 1
          /\ \A i \in 1..Len(auth[r]) : auth'[r][i] = auth[r][i]
          /\ auth'[r][Len(auth[r]) + 1] = Checks!Guard(r)
      BY <2>5, <2>6, <2>7
    <2>9. \A i \in 1..Len(auth'[r]) : auth'[r][i] = handler.guards[i]
      BY <1>2, <2>4, <2>8 DEF Sound
    <2>10. Len(auth'[r]) <= Len(handler.guards)
      BY <1>1, <1>2, <2>5, <2>8
    <2>11. Sound(r)'
      BY <2>1, <2>2, <2>3, <2>8, <2>9, <2>10 DEF Sound, Past
    <2>12. Others(r)
      BY <1>2, <2>1, <2>2 DEF Others
    <2> QED BY <2>11, <2>12
  <1>17. CASE Checks!Deny(r)
    <2>1. pc[r] = "judging" /\ \E status \in {401, 403, 500} : Checks!End(r, Checks!MapGuardResult(status))
      BY <1>17 DEF Checks!Deny
    <2>2. PICK status \in {401, 403, 500} : Checks!End(r, Checks!MapGuardResult(status))
      BY <2>1
    <2>3. Checks!MapGuardResult(status) # "handled"
      BY DEF Checks!MapGuardResult
    <2>4. ~Checks!Guarded(r)
      BY <1>2, <2>1 DEF Sound
    <2> QED BY <2>2, <2>3, <2>4, EndSound
  <1>18. CASE Checks!HandlerFails(r)
    <2>1. pc[r] = "handling" /\ Checks!End(r, Checks!Caught("Error"))
      BY <1>18 DEF Checks!HandlerFails
    <2>2. Checks!Caught("Error") \in {"500", "dropped", "failure", "thrown"}
      BY <1>1 DEF Checks!Caught, Types
    <2> QED BY <2>1, <2>2, EndSound
  <1>19. CASE Checks!Run(r)
    BY <1>19, EndSound DEF Checks!Run
  <1>20. CASE Checks!Check(r)
    <2> DEFINE done == Checks!Validate(handler.layers, handler.type, input[r])
    <2>1. /\ Checks!Guarded(r) /\ pc[r] = "arrived"
          /\ set' = [set EXCEPT ![r] = done.set]
          /\ UNCHANGED <<handler, input, auth>>
          /\ \/ /\ done.error = "none" /\ pc' = [pc EXCEPT ![r] = "checked"]
                /\ outcome' = outcome
             \/ /\ done.error # "none" /\ pc' = [pc EXCEPT ![r] = "ended"]
                /\ outcome' = [outcome EXCEPT ![r] = Checks!Caught(done.error)]
      BY <1>20 DEF Checks!Check
    <2>2. outcome[r] = "none"
      BY <1>2, <2>1 DEF Sound
    <2>3. set'[r] = done.set /\ auth'[r] = auth[r]
      BY <1>2, <2>1
    <2>4. CASE done.error = "none" /\ pc' = [pc EXCEPT ![r] = "checked"] /\ outcome' = outcome
      <3>1. AllParsed(handler.layers, handler.type, done.set, input[r])
        BY <1>1, <2>4, ValidateParses
      <3>2. pc'[r] = "checked" /\ Others(r)
        BY <1>2, <2>1, <2>4 DEF Others, ChecksInv, Pcs
      <3> HIDE DEF done
      <3>3. AllParsed(handler.layers, handler.type, set[r], input[r])'
        BY <2>1, <2>3, <3>1 DEF AllParsed, Taken
      <3>4. Sound(r)'
        BY <1>2, <2>1, <2>2, <2>4, <3>2, <3>3 DEF Sound, Checks!Guarded, Past
      <3> QED BY <3>2, <3>4
    <2>5. CASE /\ done.error # "none" /\ pc' = [pc EXCEPT ![r] = "ended"]
               /\ outcome' = [outcome EXCEPT ![r] = Checks!Caught(done.error)]
      <3>1. Checks!Caught(done.error) \in {"400", "500", "dropped", "failure", "thrown"}
        BY <1>1 DEF Checks!Caught, Types
      <3> HIDE DEF done
      <3>2. /\ pc'[r] = "ended" /\ outcome'[r] = Checks!Caught(done.error)
            /\ Others(r)
        BY <1>2, <2>1, <2>5 DEF Others, ChecksInv, Pcs
      <3>3. Sound(r)'
        BY <1>2, <2>1, <3>1, <3>2 DEF Sound, Checks!Guarded, Past
      <3> QED BY <3>2, <3>3
    <2> QED BY <2>1, <2>4, <2>5
  <1> QED BY <1>6, <1>7, <1>8, <1>9, <1>10, <1>11, <1>12, <1>13, <1>14, <1>15, <1>16,
             <1>17, <1>18, <1>19, <1>20 DEF Checks!Step

(* Objects once made stay, and a class is left by the request that         *)
(* constructed it only: then the other requests have what they had.        *)
LEMMA OthersKeep ==
  ASSUME HandlersTyped, ChecksInv, NEW r \in Request, Others(r),
         \A c \in Checks!Classes : built[c] = 1 => built'[c] = 1,
         \A c \in constructing : c \in constructing' \/ (pc[r] = "building" /\ c = Checks!Class(r))
  PROVE  \A q \in Request \ {r} : Sound(q)' /\ Objected(q)'
  <1> SUFFICES ASSUME NEW q \in Request \ {r} PROVE Sound(q)' /\ Objected(q)'
    OBVIOUS
  <1>1. /\ auth'[q] = auth[q] /\ set'[q] = set[q] /\ outcome'[q] = outcome[q]
        /\ pc'[q] = pc[q] /\ handler' = handler /\ input' = input
    BY DEF Others, ChecksInv
  <1>2. Sound(q) /\ Objected(q) /\ (Checks!IsClass(q) => Checks!Class(q) \in Checks!Classes)
    BY Typing
  <1>3. Sound(q)'
    BY <1>1, <1>2 DEF Sound, AllParsed, Taken, Checks!Guarded, Past
  <1>4. (Checks!IsClass(q)' <=> Checks!IsClass(q)) /\ Checks!Class(q)' = Checks!Class(q)
    BY <1>1 DEF Checks!IsClass, Checks!Class, Checks!Guarded, Checks!Guard
  <1>5. Checks!Reached(q)' <=> Checks!Reached(q)
    BY <1>1 DEF Checks!Reached
  <1>6. pc[q] = "building" => Checks!Class(q) \in constructing'
    BY <1>2 DEF Objected, OneObject, ChecksInv
  <1>7. "controller" \in Checks!Classes /\ ClassGuards \subseteq Checks!Classes
    BY DEF Checks!Classes, Checks!Controller
  <1>8. Objected(q)'
    BY <1>1, <1>2, <1>4, <1>5, <1>6, <1>7 DEF Objected
  <1> QED BY <1>3, <1>8

(* A request's class is the same after a step that leaves its guards.      *)
LEMMA SameClass ==
  ASSUME ChecksInv, NEW r \in Request, Others(r), auth' = auth, NEW q \in Request
  PROVE  /\ Checks!IsClass(q)' <=> Checks!IsClass(q)
         /\ Checks!Class(q)' = Checks!Class(q) /\ (Checks!Guarded(q)' <=> Checks!Guarded(q))
  BY DEF Others, Checks!IsClass, Checks!Class, Checks!Guarded, Checks!Guard

(* A step that leaves the objects alone.                                   *)
LEMMA ObjectsRest ==
  ASSUME HandlersTyped, ChecksInv, NEW r \in Request, Others(r), UNCHANGED <<kept, constructing, built>>,
         pc'[r] # "building", auth' = auth
  PROVE  OneObject'
  <1>1. \A q \in Request : Checks!Class(q)' = Checks!Class(q)
    BY SameClass
  <1>2. \A q \in Request : pc'[q] = "building" => q # r /\ pc[q] = "building"
    BY DEF Others, ChecksInv
  <1>3. OneObject
    BY DEF ChecksInv
  <1> QED BY <1>1, <1>2, <1>3 DEF OneObject

(* What an end does to the objects: nothing, but for a class that was under*)
(* construction.                                                           *)
LEMMA EndedObjected ==
  ASSUME HandlersTyped, ChecksInv, NEW r \in Request, Others(r), auth' = auth,
         pc'[r] = "ended", outcome'[r] = "handled" => pc[r] = "handling",
         built' = built, outcome[r] = "none"
  PROVE  Objected(r)'
  <1>1. Objected(r)
    BY Typing
  <1>2. handler' = handler
    BY DEF Others
  <1> QED BY <1>1, <1>2 DEF Objected, Checks!Reached

(* A step keeps `OneObject` and what it says of the request that takes it. *)
LEMMA ObjectsNext ==
  ASSUME HandlersTyped, ChecksInv, NEW r \in Request, Checks!Step(r), Others(r)
  PROVE  /\ OneObject' /\ Objected(r)'
         /\ \A c \in Checks!Classes : built[c] = 1 => built'[c] = 1
         /\ \A c \in constructing : c \in constructing' \/ (pc[r] = "building" /\ c = Checks!Class(r))
  <1> DEFINE Keeps ==
        /\ \A c \in Checks!Classes : built[c] = 1 => built'[c] = 1
        /\ \A c \in constructing : c \in constructing' \/ (pc[r] = "building" /\ c = Checks!Class(r))
  <1>1. /\ Sound(r) /\ Objected(r) /\ OneObject
        /\ Checks!IsClass(r) => Checks!Class(r) \in Checks!Classes
    BY Typing DEF ChecksInv
  <1>2. handler' = handler
    BY DEF Others
  <1>3. ASSUME UNCHANGED <<kept, constructing, built>>, auth' = auth, pc'[r] # "building"
        PROVE  OneObject' /\ Keeps
    <2>1. OneObject'
      BY <1>3, ObjectsRest
    <2> QED BY <1>3, <2>1
  <1>4. auth' = auth =>
          /\ Checks!IsClass(r)' <=> Checks!IsClass(r)
          /\ Checks!Class(r)' = Checks!Class(r) /\ (Checks!Guarded(r)' <=> Checks!Guarded(r))
    BY SameClass
  <1>5. Checks!Guarded(r) /\ Checks!IsClass(r) => Checks!Class(r) = "controller"
    BY DEF Checks!Class, Checks!Controller
  <1>6. Checks!Guarded(r) => (Checks!IsClass(r) <=> handler.form # "function")
    BY DEF Checks!IsClass
  <1>7. outcome[r] # "none" => pc[r] = "ended"
    BY <1>1 DEF Sound
  <1>8. ASSUME auth' = auth, outcome' = outcome, pc[r] # "ended",
               \A c \in Checks!Classes : built[c] = 1 => built'[c] = 1,
               pc'[r] \notin {"injecting", "building", "given", "ended"},
               pc'[r] = "judging" /\ Checks!IsClass(r) => built'[Checks!Class(r)] = 1,
               pc'[r] = "handling" => Checks!Guarded(r),
               pc'[r] = "handling" /\ Checks!IsClass(r) => built'[Checks!Class(r)] = 1
        PROVE  Objected(r)'
    <2>1. \A i \in 1..Len(auth[r]) : auth[r][i] \in ClassGuards => built'[auth[r][i]] = 1
      BY <1>1, <1>8 DEF Objected, Checks!Classes
    <2>2. outcome'[r] = "none"
      BY <1>7, <1>8
    <2> QED BY <1>2, <1>4, <1>5, <1>6, <1>8, <2>1, <2>2 DEF Objected, Checks!Reached
  <1>9. /\ Checks!Ready(r) \in {"judging", "handling"}
        /\ Checks!Ready(r) = "handling" => Checks!Guarded(r)
    BY DEF Checks!Ready
  <1>10. ASSUME NEW from, NEW to \in {"injecting", "building", "given"}, Checks!Go(r, from, to),
                auth' = auth, outcome' = outcome, pc[r] # "ended",
                \A c \in Checks!Classes : built[c] = 1 => built'[c] = 1,
                to = "injecting" => ~Checks!IsClass(r),
                to = "building" => Checks!IsClass(r) /\ Checks!Class(r) \in constructing',
                to = "given" => Checks!IsClass(r) /\ built'[Checks!Class(r)] = 1
         PROVE  Objected(r)'
    <2>1. pc'[r] = to
      BY <1>10, GoIs DEF Pcs
    <2>2. \A i \in 1..Len(auth[r]) : auth[r][i] \in ClassGuards => built'[auth[r][i]] = 1
      BY <1>1, <1>10 DEF Objected, Checks!Classes
    <2>3. outcome'[r] = "none"
      BY <1>7, <1>10
    <2> QED BY <1>4, <1>10, <2>1, <2>2, <2>3 DEF Objected, Checks!Reached
  <1>11. Checks!Asks(r) => pc[r] # "ended" /\ pc[r] # "building"
    BY DEF Checks!Asks
  <1>12. CASE Checks!Inject(r)
    <2>1. /\ Checks!Go(r, {"logging", "checked"}, "injecting") /\ ~Checks!IsClass(r)
          /\ UNCHANGED <<auth, outcome, kept, constructing, built>>
      BY <1>12 DEF Checks!Inject, Checks!objects
    <2>2. pc'[r] = "injecting"
      BY <2>1, GoIs DEF Pcs
    <2>3. Objected(r)'
      BY <1>10, <1>11, <1>12, <2>1 DEF Checks!Inject
    <2> QED BY <1>3, <2>1, <2>2, <2>3
  <1>13. CASE Checks!UseKept(r)
    <2>1. /\ Checks!Go(r, {"logging", "checked"}, Checks!Ready(r)) /\ Checks!IsClass(r)
          /\ UNCHANGED <<auth, outcome, kept, constructing, built>>
          /\ Checks!Class(r) \in kept /\ Checks!Asks(r)
      BY <1>13 DEF Checks!UseKept, Checks!objects
    <2>2. pc'[r] = Checks!Ready(r)
      BY <1>9, <2>1, GoIs DEF Pcs
    <2>3. built[Checks!Class(r)] = 1
      BY <1>1, <2>1 DEF OneObject
    <2>4. Objected(r)'
      BY <1>8, <1>9, <1>11, <2>1, <2>2, <2>3
    <2> QED BY <1>3, <1>9, <2>1, <2>2, <2>4
  <1>14. CASE Checks!Find(r)
    <2>1. /\ Checks!Go(r, {"logging", "checked"}, "given") /\ Checks!IsClass(r) /\ Checks!Asks(r)
          /\ UNCHANGED <<auth, outcome, kept, constructing, built>>
          /\ built[Checks!Class(r)] > 0
      BY <1>14 DEF Checks!Find, Checks!objects
    <2>2. pc'[r] = "given"
      BY <2>1, GoIs DEF Pcs
    <2>3. built[Checks!Class(r)] = 1
      BY <1>1, <2>1 DEF OneObject
    <2>4. Objected(r)'
      BY <1>10, <1>11, <2>1, <2>3
    <2> QED BY <1>3, <2>1, <2>2, <2>4
  <1>15. CASE Checks!Construct(r)
    <2>1. /\ Checks!Go(r, {"logging", "checked"}, "building") /\ Checks!IsClass(r) /\ Checks!Asks(r)
          /\ UNCHANGED <<auth, outcome, kept, built>>
          /\ built[Checks!Class(r)] = 0 /\ Checks!Class(r) \notin constructing
          /\ constructing' = constructing \cup {Checks!Class(r)}
      BY <1>15 DEF Checks!Construct
    <2>2. Objected(r)'
      BY <1>10, <1>11, <2>1
    <2>3. \A q \in Request : Checks!Class(q)' = Checks!Class(q)
      BY <2>1, SameClass
    <2>4. \A q \in Request \ {r} : pc'[q] = "building" =>
             pc[q] = "building" /\ Checks!Class(q) \in constructing
      <3>1. ASSUME NEW q \in Request \ {r}, pc'[q] = "building" PROVE pc[q] = "building"
        BY <3>1 DEF Others, ChecksInv
      <3>2. ASSUME NEW q \in Request, pc[q] = "building" PROVE Checks!Class(q) \in constructing
        <4>1. Objected(q)
          BY DEF ChecksInv
        <4> QED BY <3>2, <4>1 DEF Objected
      <3> QED BY <3>1, <3>2
    <2>5. ASSUME NEW p \in Request, NEW q \in Request, pc'[p] = "building", pc'[q] = "building",
                 Checks!Class(p)' = Checks!Class(q)'
          PROVE  p = q
      BY <1>1, <2>1, <2>3, <2>4, <2>5 DEF OneObject
    <2>6. OneObject'
      BY <1>1, <2>1, <2>5 DEF OneObject
    <2> QED BY <2>1, <2>2, <2>6
  <1>16. CASE Checks!Circular(r)
    <2>1. Checks!Rejected(r) /\ UNCHANGED <<kept, constructing, built>> /\ Checks!Asks(r)
      BY <1>16 DEF Checks!Circular, Checks!objects
    <2>2. auth' = auth /\ pc'[r] = "ended" /\ outcome'[r] # "handled"
      BY <2>1, RejectedSound
    <2>3. Objected(r)'
      BY <1>7, <1>11, <2>1, <2>2, EndedObjected
    <2> QED BY <1>3, <2>1, <2>2, <2>3
  <1>17. CASE Checks!Constructed(r)
    <2>1. /\ Checks!Go(r, {"building"}, "given")
          /\ UNCHANGED <<auth, outcome, kept>>
          /\ constructing' = constructing \ {Checks!Class(r)}
          /\ built' = [built EXCEPT ![Checks!Class(r)] = built[Checks!Class(r)] + 1]
      BY <1>17 DEF Checks!Constructed
    <2>2. pc'[r] = "given" /\ pc[r] = "building"
      BY <2>1, GoIs DEF Pcs
    <2>3. Checks!IsClass(r) /\ Checks!Class(r) \in constructing /\ Checks!Class(r) \in Checks!Classes
      BY <1>1, <2>2 DEF Objected
    <2>4. built[Checks!Class(r)] = 0 /\ built'[Checks!Class(r)] = 1
      BY <1>1, <2>1, <2>3 DEF OneObject
    <2>5. /\ built' \in [Checks!Classes -> {0, 1}]
          /\ \A c \in Checks!Classes : built[c] = 1 => built'[c] = 1
          /\ \A c \in Checks!Classes : c # Checks!Class(r) => built'[c] = built[c]
      BY <1>1, <2>1, <2>3, <2>4 DEF OneObject
    <2>6. Objected(r)'
      BY <1>10, <2>1, <2>2, <2>3, <2>4, <2>5
    <2>7. \A q \in Request : Checks!Class(q)' = Checks!Class(q)
      BY <2>1, SameClass
    <2>8. \A q \in Request : pc'[q] = "building" => q # r /\ pc[q] = "building"
      BY <2>2 DEF Others, ChecksInv
    <2>9. \A p, q \in Request :
            pc'[p] = "building" /\ pc'[q] = "building" /\ Checks!Class(p)' = Checks!Class(q)' => p = q
      BY <1>1, <2>7, <2>8 DEF OneObject
    <2>10. OneObject'
      BY <1>1, <2>1, <2>5, <2>9 DEF OneObject
    <2> QED BY <2>1, <2>2, <2>5, <2>6, <2>10
  <1>18. CASE Checks!ResolutionFails(r)
    <2>1. /\ Checks!Rejected(r) /\ UNCHANGED <<kept, built>>
          /\ pc[r] \in {"building", "injecting"}
          /\ constructing' = IF pc[r] = "building" THEN constructing \ {Checks!Class(r)} ELSE constructing
      BY <1>18 DEF Checks!ResolutionFails
    <2>2. auth' = auth /\ pc'[r] = "ended" /\ outcome'[r] # "handled"
      BY <2>1, RejectedSound
    <2>3. Objected(r)'
      BY <1>7, <2>1, <2>2, EndedObjected
    <2>4. \A q \in Request : Checks!Class(q)' = Checks!Class(q)
      BY <2>2, SameClass
    <2>5. \A q \in Request : pc'[q] = "building" => q # r /\ pc[q] = "building"
      BY <2>2 DEF Others, ChecksInv
    <2>6. \A p, q \in Request :
            pc'[p] = "building" /\ pc'[q] = "building" /\ Checks!Class(p)' = Checks!Class(q)' => p = q
      BY <1>1, <2>4, <2>5 DEF OneObject
    <2>7. OneObject'
      BY <1>1, <2>1, <2>6 DEF OneObject
    <2> QED BY <2>1, <2>3, <2>7
  <1>19. CASE Checks!Resolved(r)
    <2>1. /\ Checks!Go(r, {"given", "injecting"}, Checks!Ready(r))
          /\ UNCHANGED <<auth, outcome, constructing, built>>
          /\ kept' = IF pc[r] = "given" THEN kept \cup {Checks!Class(r)} ELSE kept
      BY <1>19 DEF Checks!Resolved
    <2>2. pc'[r] = Checks!Ready(r) /\ pc[r] \in {"given", "injecting"}
      BY <1>9, <2>1, GoIs DEF Pcs
    <2>3. Checks!IsClass(r) => pc[r] = "given" /\ built[Checks!Class(r)] = 1
      BY <1>1, <2>2 DEF Objected
    <2>4. Objected(r)'
      BY <1>8, <1>9, <2>1, <2>2, <2>3
    <2>5. pc[r] = "given" => built[Checks!Class(r)] = 1 /\ Checks!Class(r) \in Checks!Classes
      BY <1>1 DEF Objected
    <2>6. \A q \in Request : Checks!Class(q)' = Checks!Class(q)
      BY <2>1, SameClass
    <2>7. \A q \in Request : pc'[q] = "building" => q # r /\ pc[q] = "building"
      BY <1>9, <2>2 DEF Others, ChecksInv
    <2>8. \A p, q \in Request :
            pc'[p] = "building" /\ pc'[q] = "building" /\ Checks!Class(p)' = Checks!Class(q)' => p = q
      BY <1>1, <2>6, <2>7 DEF OneObject
    <2>9. OneObject'
      BY <1>1, <2>1, <2>5, <2>8 DEF OneObject
    <2> QED BY <2>1, <2>4, <2>9
  <1>20. CASE Checks!BeginGuard(r)
    <2>1. /\ Checks!Go(r, {"arrived"}, "logging")
          /\ UNCHANGED <<auth, outcome, kept, constructing, built>>
      BY <1>20 DEF Checks!BeginGuard, Checks!objects
    <2>2. pc'[r] = "logging" /\ pc[r] = "arrived"
      BY <2>1, GoIs DEF Pcs
    <2>3. Objected(r)'
      BY <1>8, <2>1, <2>2
    <2> QED BY <1>3, <2>1, <2>2, <2>3
  <1>21. CASE Checks!LoggerFails(r)
    <2>1. /\ Checks!End(r, "rejection") /\ UNCHANGED <<kept, constructing, built>>
          /\ pc[r] = "logging"
      BY <1>21 DEF Checks!LoggerFails, Checks!objects
    <2>2. auth' = auth /\ pc'[r] = "ended" /\ outcome'[r] # "handled"
      BY <2>1, EndIs
    <2>3. Objected(r)'
      BY <1>7, <2>1, <2>2, EndedObjected
    <2> QED BY <1>3, <2>1, <2>2, <2>3
  <1>22. CASE Checks!Allow(r)
    <2>1. /\ Checks!Go(r, {"judging"}, "arrived")
          /\ auth' = [auth EXCEPT ![r] = Append(auth[r], Checks!Guard(r))]
          /\ UNCHANGED <<outcome, kept, constructing, built>>
      BY <1>22 DEF Checks!Allow, Checks!objects
    <2>2. pc'[r] = "arrived" /\ pc[r] = "judging"
      BY <2>1, GoIs DEF Pcs
    <2>3. ~Checks!Guarded(r) /\ auth[r] \in Seq(STRING) /\ DOMAIN auth = Request
      BY <1>1, <2>2 DEF Sound, ChecksInv
    <2>4. Checks!Guard(r) \in ClassGuards => built[Checks!Guard(r)] = 1
      BY <1>1, <2>2, <2>3 DEF Objected, Checks!IsClass, Checks!Class
    <2>5. auth'[r] = Append(auth[r], Checks!Guard(r))
      BY <2>1, <2>3
    <2>6. /\ Len(auth[r]) \in Nat /\ Len(auth'[r]) = Len(auth[r]) + 1
          /\ \A i \in 1..Len(auth[r]) : auth'[r][i] = auth[r][i]
          /\ auth'[r][Len(auth[r]) + 1] = Checks!Guard(r)
      BY <2>3, <2>5
    <2>7. ASSUME NEW i \in 1..Len(auth'[r]), auth'[r][i] \in ClassGuards PROVE built[auth'[r][i]] = 1
      BY <1>1, <2>4, <2>6, <2>7 DEF Objected
    <2>8. outcome'[r] = "none"
      BY <1>7, <2>1, <2>2
    <2>9. Objected(r)'
      BY <2>1, <2>2, <2>7, <2>8 DEF Objected, Checks!Reached
    <2>10. ASSUME NEW q \in Request, pc'[q] = "building"
           PROVE  pc[q] = "building" /\ Checks!Class(q)' = Checks!Class(q)
      <3>1. q # r /\ auth'[q] = auth[q] /\ pc'[q] = pc[q]
        BY <2>2, <2>10 DEF Others, ChecksInv
      <3> QED BY <1>2, <2>10, <3>1 DEF Checks!Class, Checks!Guarded, Checks!Guard
    <2>11. \A p, q \in Request :
             pc'[p] = "building" /\ pc'[q] = "building" /\ Checks!Class(p)' = Checks!Class(q)' => p = q
      BY <1>1, <2>10 DEF OneObject
    <2>12. OneObject'
      BY <1>1, <2>1, <2>11 DEF OneObject
    <2> QED BY <2>1, <2>9, <2>12
  <1>23. CASE Checks!Deny(r)
    <2>1. /\ pc[r] = "judging" /\ UNCHANGED <<kept, constructing, built>>
          /\ \E status \in {401, 403, 500} : Checks!End(r, Checks!MapGuardResult(status))
      BY <1>23 DEF Checks!Deny, Checks!objects
    <2>2. PICK status \in {401, 403, 500} : Checks!End(r, Checks!MapGuardResult(status))
      BY <2>1
    <2>3. auth' = auth /\ pc'[r] = "ended" /\ outcome'[r] # "handled"
      BY <2>2, EndIs DEF Checks!MapGuardResult
    <2>4. Objected(r)'
      BY <1>7, <2>1, <2>3, EndedObjected
    <2> QED BY <1>3, <2>1, <2>3, <2>4
  <1>24. CASE Checks!Check(r)
    <2>1. /\ UNCHANGED <<auth, kept, constructing, built>> /\ pc[r] = "arrived"
          /\ \/ pc' = [pc EXCEPT ![r] = "checked"] /\ outcome' = outcome
             \/ /\ pc' = [pc EXCEPT ![r] = "ended"]
                /\ \E e : outcome' = [outcome EXCEPT ![r] = Checks!Caught(e)]
      BY <1>24 DEF Checks!Check, Checks!objects
    <2>2. DOMAIN pc = Request /\ DOMAIN outcome = Request
      BY DEF ChecksInv
    <2>3. CASE pc' = [pc EXCEPT ![r] = "checked"] /\ outcome' = outcome
      <3>1. pc'[r] = "checked"
        BY <2>2, <2>3
      <3>2. Objected(r)'
        BY <1>8, <2>1, <2>3, <3>1
      <3> QED BY <1>3, <2>1, <3>1, <3>2
    <2>4. CASE /\ pc' = [pc EXCEPT ![r] = "ended"]
               /\ \E e : outcome' = [outcome EXCEPT ![r] = Checks!Caught(e)]
      <3>1. PICK e : outcome' = [outcome EXCEPT ![r] = Checks!Caught(e)]
        BY <2>4
      <3>2. handler.type \in Types
        BY Typing
      <3>3. Checks!Caught(e) # "handled"
        BY <3>2 DEF Checks!Caught, Types
      <3>4. pc'[r] = "ended" /\ outcome'[r] # "handled"
        BY <2>2, <2>4, <3>1, <3>3
      <3>5. Objected(r)'
        BY <1>7, <2>1, <3>4, EndedObjected
      <3> QED BY <1>3, <2>1, <3>4, <3>5
    <2> QED BY <2>1, <2>3, <2>4
  <1>25. CASE Checks!HandlerFails(r) \/ Checks!Run(r)
    <2>1. /\ pc[r] = "handling" /\ UNCHANGED <<kept, constructing, built>>
          /\ Checks!End(r, Checks!Caught("Error")) \/ Checks!End(r, "handled")
      BY <1>25 DEF Checks!HandlerFails, Checks!Run, Checks!objects
    <2>2. auth' = auth /\ pc'[r] = "ended"
      BY <2>1, EndIs
    <2>3. Objected(r)'
      BY <1>7, <2>1, <2>2, EndedObjected
    <2> QED BY <1>3, <2>1, <2>2, <2>3
  <1> QED BY <1>12, <1>13, <1>14, <1>15, <1>16, <1>17, <1>18, <1>19, <1>20, <1>21, <1>22,
             <1>23, <1>24, <1>25 DEF Checks!Step

(* `ChecksInv` holds at first, and every step keeps it.                    *)
LEMMA ChecksStep == HandlersTyped /\ ChecksInv /\ [Checks!Next]_Checks!vars => ChecksInv'
  <1> SUFFICES ASSUME HandlersTyped, ChecksInv, [Checks!Next]_Checks!vars PROVE ChecksInv'
    OBVIOUS
  <1>1. CASE UNCHANGED Checks!vars
    <2>1. /\ handler' = handler /\ input' = input /\ pc' = pc /\ auth' = auth /\ set' = set
          /\ outcome' = outcome /\ kept' = kept /\ constructing' = constructing /\ built' = built
      BY <1>1 DEF Checks!vars, Checks!request, Checks!objects
    <2>2. \A r \in Request : Sound(r)' <=> Sound(r)
      BY <2>1 DEF Sound, AllParsed, Taken, Past, Checks!Guarded
    <2>3. \A r \in Request : Objected(r)' <=> Objected(r)
      BY <2>1 DEF Objected, Checks!Guarded, Checks!IsClass, Checks!Class, Checks!Guard, Checks!Reached
    <2>4. \A r \in Request : Checks!Class(r)' = Checks!Class(r)
      BY <2>1 DEF Checks!Class, Checks!Guard, Checks!Guarded
    <2>5. OneObject'
      BY <2>1, <2>4 DEF OneObject, ChecksInv
    <2>6. (\A r \in Request : Sound(r))'
      BY <2>2 DEF ChecksInv
    <2>7. (\A r \in Request : Objected(r))'
      BY <2>3 DEF ChecksInv
    <2>8. /\ (handler \in Handlers)' /\ (input \in [Request -> Input(handler.type)])'
          /\ pc' \in [Request -> Pcs]
          /\ DOMAIN auth' = Request /\ DOMAIN set' = Request /\ DOMAIN outcome' = Request
      BY <2>1 DEF ChecksInv
    <2> QED BY <2>5, <2>6, <2>7, <2>8 DEF ChecksInv
  <1>2. CASE Checks!Next
    <2>1. PICK r \in Request : Checks!Step(r)
      BY <1>2 DEF Checks!Next
    <2>2. Others(r) /\ Sound(r)'
      BY <2>1, ChecksNext
    <2>3. /\ OneObject' /\ Objected(r)'
          /\ \A c \in Checks!Classes : built[c] = 1 => built'[c] = 1
          /\ \A c \in constructing : c \in constructing' \/ (pc[r] = "building" /\ c = Checks!Class(r))
      BY <2>1, <2>2, ObjectsNext
    <2>4. \A q \in Request \ {r} : Sound(q)' /\ Objected(q)'
      BY <2>2, <2>3, OthersKeep
    <2>5. (\A q \in Request : Sound(q))'
      BY <2>2, <2>4
    <2>6. (\A q \in Request : Objected(q))'
      BY <2>3, <2>4
    <2>7. /\ (handler \in Handlers)' /\ (input \in [Request -> Input(handler.type)])'
          /\ pc' \in [Request -> Pcs]
          /\ DOMAIN auth' = Request /\ DOMAIN set' = Request /\ DOMAIN outcome' = Request
      BY <2>2 DEF Others, ChecksInv
    <2> QED BY <2>3, <2>5, <2>6, <2>7 DEF ChecksInv
  <1> QED BY <1>1, <1>2

(* What was parsed or accepted is what a handler may read.                 *)
LEMMA TakenIsRead ==
  ASSUME HandlersTyped, ChecksInv, NEW r \in Request, NEW part,
         part \in Checks!PartsOf(handler.type),
         Taken(handler.type, part, set[r], input[r]) \/ Checks!Absent(part, input[r][part])
  PROVE  Checks!ReadsChecked(r, part)
  <1> DEFINE raw == Checks!ReadsRaw(handler.type, handler.form)
             read == Checks!Read(handler.type, handler.form, part, set[r], input[r])
  <1>1. handler \in Handlers /\ handler.type \in Types /\ input[r] \in Input(handler.type)
    BY Typing DEF ChecksInv
  <1>2. raw => handler.type \in {"http", "consumer", "schedule"}
    BY <1>1 DEF HandlersTyped, Checks!ReadsRaw
  <1>3. CASE Checks!Absent(part, input[r][part])
    BY <1>3 DEF Checks!ReadsChecked
  <1>4. CASE Taken(handler.type, part, set[r], input[r]) /\ ~raw
    <2>1. read = "parsed"
      BY <1>4 DEF Checks!Read, Taken
    <2> QED BY <2>1 DEF Checks!ReadsChecked
  <1>5. CASE Taken(handler.type, part, set[r], input[r]) /\ raw
    <2>1. read = input[r][part]
      BY <1>5 DEF Checks!Read
    <2>2. handler.type = "http" => read = "good"
      BY <1>5, <2>1 DEF Taken
    <2>3. handler.type = "schedule" => read = "good"
      <3>1. handler.type = "schedule" => part = "scheduleInput"
        BY <1>1, PartsAre
      <3>2. handler.type = "schedule" => input[r]["scheduleInput"] \in {"good", "bad"}
        BY <1>1 DEF HandlersTyped
      <3> QED BY <1>5, <2>1, <3>1, <3>2 DEF Taken
    <2>4. raw /\ (read = "good" \/ handler.type = "consumer")
      BY <1>2, <1>5, <2>2, <2>3
    <2> QED BY <2>4 DEF Checks!ReadsChecked
  <1> QED BY <1>3, <1>4, <1>5

(* What the invariant says of a request that reached its handler.          *)
LEMMA ChecksImply == HandlersTyped /\ ChecksInv => Checks!HandledAreChecked
  <1> SUFFICES ASSUME HandlersTyped, ChecksInv PROVE Checks!HandledAreChecked
    OBVIOUS
  <1>1. ASSUME NEW r \in Request, Checks!Reached(r)
        PROVE  /\ auth[r] = handler.guards
               /\ \A i \in DOMAIN auth[r] : auth[r][i] \in ClassGuards => built[auth[r][i]] = 1
               /\ handler.form # "function" => built[Checks!Controller] = 1
               /\ \A i \in Checks!OwnLayers : \A part \in handler.layers[i] : Checks!ReadsChecked(r, part)
    <2>1. Sound(r) /\ Objected(r) /\ handler.guards \in Seq(STRING)
      BY Typing
    <2>2. /\ auth[r] \in Seq(STRING) /\ Len(auth[r]) = Len(handler.guards)
          /\ \A i \in 1..Len(auth[r]) : auth[r][i] = handler.guards[i]
          /\ AllParsed(handler.layers, handler.type, set[r], input[r])
      BY <1>1, <2>1 DEF Sound, Past, Checks!Reached, Checks!Guarded
    <2>3. \A s, t \in Seq(STRING) : Len(s) = Len(t) /\ (\A i \in 1..Len(s) : s[i] = t[i]) => s = t
      OBVIOUS
    <2>4. auth[r] = handler.guards
      BY <2>1, <2>2, <2>3
    <2>5. DOMAIN auth[r] = 1..Len(auth[r])
      BY <2>2
    <2>6. \A i \in DOMAIN auth[r] : auth[r][i] \in ClassGuards => built[auth[r][i]] = 1
      BY <2>1, <2>5 DEF Objected
    <2>7. handler.form # "function" => built[Checks!Controller] = 1
      BY <1>1, <2>1 DEF Objected, Checks!Controller
    <2>8. ASSUME NEW i \in Checks!OwnLayers, NEW part \in handler.layers[i]
          PROVE  Checks!ReadsChecked(r, part)
      <3>1. i \in DOMAIN handler.layers /\ handler.layers[i] \subseteq Checks!PartsOf(handler.type)
        BY DEF Checks!OwnLayers
      <3>2. part \in Checks!PartsOf(handler.type)
        BY <3>1
      <3>3. Taken(handler.type, part, set[r], input[r]) \/ Checks!Absent(part, input[r][part])
        BY <2>2, <3>1 DEF AllParsed
      <3> QED BY <3>2, <3>3, TakenIsRead
    <2> QED BY <2>4, <2>6, <2>7, <2>8
  <1>2. \A r \in Request : outcome[r] \in {"forbidden", "unauthorised", "rejection"} => set[r] = {}
    BY DEF ChecksInv, Sound
  <1>3. \A c \in Checks!Classes : built[c] <= 1
    BY DEF ChecksInv, OneObject
  <1> QED BY <1>1, <1>2, <1>3 DEF Checks!HandledAreChecked

(* A request reaches its handler only past every guard, each judging on the*)
(* one object of its class, and what the handler reads of a part that a    *)
(* schema of its layers is for was parsed or, where the code hands over    *)
(* what arrived, accepted: for any overlapping requests, handlers, guards, *)
(* layers and inputs.                                                      *)
THEOREM HandledAreCheckedCorrect ==
  ASSUME HandlersTyped PROVE Checks!Spec => []Checks!HandledAreChecked
  <1>1. Checks!Init => ChecksInv
    BY ChecksInit
  <1>2. ChecksInv /\ [Checks!Next]_Checks!vars => ChecksInv'
    BY ChecksStep
  <1>3. ChecksInv => Checks!HandledAreChecked
    BY ChecksImply
  <1> QED BY <1>1, <1>2, <1>3, PTL DEF Checks!Spec
=============================================================================
