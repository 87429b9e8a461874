--------------------------- MODULE ValidationLayer ---------------------------
(***************************************************************************)
(* validate(schemas) of packages/core/src/layers/validate.ts: a layer for  *)
(* one handler type that parses parts of what the handler will read.  A    *)
(* part is named after its schema and is "good", "bad" (rejected by the    *)
(* schema), "text" (no JSON), "binary" or "none"; for a consumer, a        *)
(* sequence of these.                                                      *)
(***************************************************************************)
EXTENDS Naturals, Sequences

HttpParts == <<"body", "params", "query", "headers">>
PartsOf(type) ==
    CASE type = "http" -> {HttpParts[i] : i \in DOMAIN HttpParts}
      [] type = "websocket" -> {"wsMessageBody"}
      [] type = "consumer" -> {"consumerMessage"}
      [] type = "schedule" -> {"scheduleInput"}
      [] type = "custom" -> {"customPayload"}

\* Schemas of several types make a layer of the first of these.
Modes == <<"consumer", "schedule", "custom", "websocket">>
InferMode(schemas) ==
    LET has == {i \in DOMAIN Modes : PartsOf(Modes[i]) \cap schemas # {}}
    IN  IF has = {} THEN "http" ELSE Modes[CHOOSE i \in has : \A j \in has : i <= j]

Supports(schemas, type) == type = InferMode(schemas)

Passed(parsed) == [error |-> "none", set |-> parsed]
Failed(error, parsed) == [error |-> error, set |-> parsed]

\* A part that is left as it is: an HTTP body that is not text, a WebSocket message
\* without a JSON body.
Absent(part, value) ==
    \/ part = "body" /\ value \in {"none", "binary"}
    \/ part = "wsMessageBody" /\ value \in {"none", "binary"}

\* validateHttp: in order, up to the first part that fails.
ValidateHttp(schemas, carried) ==
    LET present == {i \in DOMAIN HttpParts :
                       /\ HttpParts[i] \in schemas
                       /\ ~Absent(HttpParts[i], carried[HttpParts[i]])}
        bad == {i \in present : carried[HttpParts[i]] # "good"}
        parsed == {HttpParts[i] : i \in {j \in present : \A k \in bad : j < k}}
    IN  IF bad # {} THEN Failed("HttpException", parsed) ELSE Passed(parsed)

\* validateConsumer never throws: what parses is kept, the rest are failures.
ValidateConsumer == Passed({"consumerMessage"})

\* validateWebSocket, validateSchedule, validateCustom: what parse() throws is thrown.
ValidateOne(part, value) ==
    IF Absent(part, value) THEN Passed({})
    ELSE IF value = "bad" THEN Failed("Error", {}) ELSE Passed({part})

\* handle: what the layer throws or adds to the metadata before it calls next().
Handle(schemas, carried) ==
    CASE InferMode(schemas) = "http" -> ValidateHttp(schemas, carried)
      [] InferMode(schemas) = "consumer" -> ValidateConsumer
      [] OTHER -> LET part == CHOOSE p \in PartsOf(InferMode(schemas)) : TRUE
                  IN  ValidateOne(part, carried[part])

\* The layers of a handler of a type, one after the other up to the first that throws.
Validate(layers, type, carried) ==
    LET own == {i \in DOMAIN layers : Supports(layers[i], type)}
        done == [i \in own |-> Handle(layers[i], carried)]
        bad == {i \in own : done[i].error # "none"}
        first == CHOOSE i \in bad : \A j \in bad : i <= j
    IN  [error |-> IF bad = {} THEN "none" ELSE done[first].error,
         set |-> UNION {done[i].set : i \in {j \in own : bad = {} \/ j <= first}}]

\* How a handler comes to what it reads: a function's arguments ("function"), the
\* parameter for the part ("class") or the one for the whole request ("event").
Forms == {"class", "event", "function"}

\* These are given what arrived, whether it was parsed or not: @Req(), @EventInput()
\* and @ScheduleEventInput(), and every schedule function, whose first argument is
\* context.event.
ReadsRaw(type, form) == form = "event" \/ (form = "function" /\ type = "schedule")

\* What the handler reads of a part: the parsed value if there is one (a schema whose
\* value is undefined is not told from none).
Read(type, form, part, parsed, carried) ==
    IF part \in parsed /\ ~ReadsRaw(type, form) THEN "parsed" ELSE carried[part]
=============================================================================
