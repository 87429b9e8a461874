------------------------------- MODULE Runtime -------------------------------
(***************************************************************************)
(* Starting an application in the Celerity runtime                         *)
(* (packages/core/src/bootstrap/runtime-orchestrator.ts, runtime-entry.ts, *)
(* bootstrap.ts): the module graph is built and validated, the scanners    *)
(* fill the handler registry, and for each handler of the blueprint a      *)
(* callback is looked up and given to the runtime, which then runs.        *)
(***************************************************************************)
EXTENDS ModuleGraph

CONSTANTS
  Methods,       \* class -> its decorated methods, as [kind, method, path, name, fn]
  ControllerOf,  \* class -> the kinds whose controller decorator it has
  GuardName,     \* guard -> the name it is declared with, or "none"
  ModuleExport,  \* handler id -> the exports a module reference may mean, in
                 \* the order they are tried, as [kind, fn]
  LastSegment,   \* handler id of a consumer or schedule -> what follows its last dot
  Sender         \* the token of the WebSocketSender

(* isRuntimeProvidedToken knows the sender's token.                        *)
ASSUME RuntimeAssumption == Sender \in RuntimeToken

(* A routing key is a method and a path.  A path is a sequence of segments:*)
(* "*" stands for {name}, "+" for {name+}, anything else for itself; for   *)
(* websocket and custom it is the route or the name.  Consumers and        *)
(* schedules are declared with a source, which is their path, empty when   *)
(* there is none, and registered under a tag made from it.                 *)
(* A function handler without a route has the method "none".               *)

Sourced == {"consumer", "schedule"}

(* The key a method or a function is registered under.                     *)
MethodTag(h) == IF h.kind \in Sourced THEN h.path \o <<h.name>> ELSE h.path
FunctionTag(h) ==
  IF h.kind \notin Sourced \/ (h.kind = "schedule" /\ h.path # <<>>) THEN h.path
  ELSE <<IF h.id = "none" THEN "default" ELSE h.id>>

Scanners == <<"http", "guard", "websocket", "consumer", "schedule", "custom">>
CrossCutting == {"schedule", "custom"}

VARIABLES
  scanner,       \* index of the scanner at work
  handlers,      \* the registry's handlers in the order they were registered
  guardTable,    \* guard name -> the guard registered under it
  bound,         \* how many handlers of the blueprint were looked up
  callbacks      \* the callbacks given to the runtime

scanVars == <<scanner, handlers, guardTable>>
bindVars == <<bound, callbacks>>
vars == <<graphVars, scanVars, bindVars>>

GuardNames == {GuardName[g] : g \in DOMAIN GuardName} \ {"none"}

RuntimeInit ==
  /\ Init
  /\ scanner = 1
  /\ handlers = <<>>
  /\ guardTable = [n \in GuardNames |-> "none"]
  /\ bound = 0
  /\ callbacks = <<>>

Bootstrap == GraphNext /\ UNCHANGED <<scanVars, bindVars>>

-----------------------------------------------------------------------------
(* The scanners.                                                           *)

StartScan ==
  /\ phase = "valid"
  /\ phase' = "scan"
  /\ at' = 1
  /\ UNCHANGED <<app, walks, resolving, graph, registered, member, work, visible,
                 diagnostics, scanVars, bindVars>>

scanned == <<app, walks, resolving, graph, registered, work, visible, diagnostics>>

Kind == Scanners[scanner]
Scanning(k) == phase = "scan" /\ Kind = k
Controllers == app.controllers[Node]

(* Seeded fault: only classes with a controller decorator are scanned.     *)
ScansDecorated(c) == Kind \in ControllerOf[c]

(* Schedules and custom handlers are looked for in every controller.       *)
Scans(c) == Kind \in CrossCutting \cup ControllerOf[c]

(* The elements of s with an index in I, in their order.                   *)
Nth(I, k) == CHOOSE i \in I : Cardinality({j \in I : j < i}) = k - 1
Only(s, I) == [k \in 1..Cardinality(I) |-> s[Nth(I, k)]]

(* The methods of class c that the scanner registers, in node m.           *)
MethodsOf(c, m) ==
  LET mine == Only(Methods[c], {i \in DOMAIN Methods[c] : Scans(c) /\ Methods[c][i].kind = Kind})
  IN [i \in DOMAIN mine |->
        [kind |-> Kind, method |-> mine[i].method, path |-> MethodTag(mine[i]), id |-> "none",
         fn |-> mine[i].fn, controller |-> c, module |-> m]]
FunctionsOf(m) ==
  LET mine == Only(app.functions[m], {i \in DOMAIN app.functions[m] : app.functions[m][i].kind = Kind})
  IN [i \in DOMAIN mine |->
        [kind |-> Kind, method |-> mine[i].method, path |-> FunctionTag(mine[i]), id |-> mine[i].id,
         fn |-> mine[i].fn, controller |-> "none", module |-> m]]

NextNode ==
  /\ member' = 1
  /\ IF at < Len(graph) THEN at' = at + 1 /\ UNCHANGED <<scanner, phase>>
     ELSE IF scanner < Len(Scanners)
          THEN at' = 1 /\ scanner' = scanner + 1 /\ UNCHANGED phase
          ELSE UNCHANGED <<at, scanner>> /\ phase' = "bind"

ScanController ==
  /\ phase = "scan" /\ Kind # "guard"
  /\ member <= Len(Controllers)
  /\ handlers' = handlers \o MethodsOf(Controllers[member], Node)
  /\ member' = member + 1
  /\ UNCHANGED <<scanned, phase, at, scanner, guardTable, bindVars>>

ScanFunctions ==
  /\ phase = "scan" /\ Kind # "guard"
  /\ member > Len(Controllers)
  /\ handlers' = handlers \o FunctionsOf(Node)
  /\ NextNode
  /\ UNCHANGED <<scanned, guardTable, bindVars>>

(* registerGuard: the last guard of a name is the one found.               *)
Named(m, n) == {i \in DOMAIN app.guards[m] : GuardName[app.guards[m][i]] = n}
ScanGuards ==
  /\ Scanning("guard")
  /\ guardTable' = [n \in GuardNames |->
       IF Named(Node, n) = {} THEN guardTable[n]
       ELSE app.guards[Node][CHOOSE i \in Named(Node, n) : \A j \in Named(Node, n) : j <= i]]
  /\ NextNode
  /\ UNCHANGED <<scanned, handlers, bindVars>>

-----------------------------------------------------------------------------
(* HandlerRegistry's lookups.  They return an index in `handlers`, or 0.   *)

(* matchRoute: the segments before a wildcard, or all, match one to one.   *)
MatchRoute(p, a) ==
  LET fits(i) == p[i] = "*" \/ (i \in DOMAIN a /\ p[i] = a[i])
  IN \/ \E w \in DOMAIN p : /\ p[w] = "+" /\ \A i \in 1..(w - 1) : p[i] # "+" /\ fits(i)
                            /\ Len(a) >= Len(p)
     \/ /\ \A i \in DOMAIN p : p[i] # "+" /\ fits(i)
        /\ Len(p) = Len(a)

First(I) == IF I = {} THEN 0 ELSE CHOOSE i \in I : \A j \in I : i <= j
Last(I) == IF I = {} THEN 0 ELSE CHOOSE i \in I : \A j \in I : j <= i

(* getHandler: for HTTP the first handler whose pattern matches, for the   *)
(* other kinds the last one registered under the key.                      *)
GetHandler(k, method, path) ==
  IF k = "http"
  THEN First({i \in DOMAIN handlers : /\ handlers[i].kind = "http"
                                      /\ handlers[i].method = method
                                      /\ MatchRoute(handlers[i].path, path)})
  ELSE Last({i \in DOMAIN handlers : handlers[i].kind = k /\ handlers[i].path = path})

(* getHandlerById: one table for all kinds; the last handler with the id   *)
(* is found, if it is of the kind asked for.                               *)
GetHandlerById(k, id) ==
  LET i == Last({i \in DOMAIN handlers : handlers[i].id = id})
  IN IF i # 0 /\ id # "none" /\ handlers[i].kind = k THEN i ELSE 0

-----------------------------------------------------------------------------
(* The orchestrator's register*Handlers, over the handlers of the blueprint*)
(* in the order startRuntime goes through them.                            *)

Def == app.blueprint[bound + 1]
Binding == phase = "bind" /\ bound < Len(app.blueprint)
bindFrame == <<graphVars, scanVars>>

Give(handler, fn) ==
  /\ callbacks' = Append(callbacks, [def |-> bound + 1, handler |-> handler, fn |-> fn])
  /\ bound' = bound + 1
  /\ UNCHANGED bindFrame

(* The source of a consumer or a schedule in the blueprint is its name; the*)
(* method is the last segment of the handler's id.                         *)
LookupKey(d) == IF d.kind \in Sourced THEN d.path \o <<LastSegment[d.id]>> ELSE d.path

ByKey == GetHandler(Def.kind, Def.method, LookupKey(Def))
ById == GetHandlerById(Def.kind, Def.id)

GuardOf(n) == IF n \in GuardNames THEN guardTable[n] ELSE "none"

BindGuard ==
  /\ Binding /\ Def.kind = "guard"
  /\ GuardOf(Def.id) # "none"
  /\ Give(0, GuardOf(Def.id))

BindByKey ==
  /\ Binding /\ Def.kind # "guard"
  /\ ByKey # 0
  /\ Give(ByKey, handlers[ByKey].fn)

BindById ==
  /\ Binding /\ Def.kind # "guard"
  /\ ByKey = 0 /\ ById # 0
  /\ Give(ById, handlers[ById].fn)

(* resolveHandlerByModuleRef: an export that is a definition of another    *)
(* kind is passed over; a function the registry knows is found there, any  *)
(* other is wrapped.                                                       *)
Exports == IF Def.id \in DOMAIN ModuleExport THEN ModuleExport[Def.id] ELSE <<>>
Usable == {i \in DOMAIN Exports : Exports[i].kind \in {"plain", Def.kind}}
Export == Exports[First(Usable)]
InRegistry == First({i \in DOMAIN handlers : handlers[i].kind = Def.kind
                                             /\ handlers[i].fn = Export.fn})
NeedsModule ==
  /\ Binding /\ Def.kind # "guard"
  /\ ByKey = 0 /\ ById = 0

BindByModule ==
  /\ NeedsModule
  /\ Usable # {}
  /\ Give(InRegistry, Export.fn)

BindNone ==
  /\ \/ NeedsModule /\ Usable = {}
     \/ Binding /\ Def.kind = "guard" /\ GuardOf(Def.id) = "none"
  /\ bound' = bound + 1
  /\ UNCHANGED <<callbacks, bindFrame>>

(* The WebSocketSender is registered before the runtime runs.              *)
Run ==
  /\ phase = "bind" /\ bound = Len(app.blueprint)
  /\ phase' = "running"
  /\ registered' = IF \E i \in DOMAIN app.blueprint : app.blueprint[i].kind = "websocket"
                   THEN [registered EXCEPT ![Sender] = [NotRegistered EXCEPT !.by = Root]]
                   ELSE registered
  /\ UNCHANGED <<app, walks, resolving, graph, at, member, work, visible, diagnostics,
                 scanVars, bindVars>>

-----------------------------------------------------------------------------
Scan == StartScan \/ ScanController \/ ScanFunctions \/ ScanGuards
Bind == BindGuard \/ BindByKey \/ BindById \/ BindByModule \/ BindNone
Next == Bootstrap \/ Scan \/ Bind \/ Run

Spec == RuntimeInit /\ [][Next]_vars

(* Starting up is one async call: nothing it awaits waits for ever.        *)
FairSpec == Spec /\ WF_vars(Next)

-----------------------------------------------------------------------------
(* Properties.                                                             *)

(* Start-up ends, for every application: cyclic imports and classes that   *)
(* adopt each other included (checkDependencies, module-graph.ts:283).     *)
StartEnds == <>(phase \in {"circular", "invalid", "running"})

(* The functions an application declares for d: under the key d is looked  *)
(* up by, or with its id when the functions of no other kind have it.      *)
Answers(h, tag, d) ==
  /\ h.kind = d.kind
  /\ IF d.kind = "http" THEN h.method = d.method /\ MatchRoute(tag, d.path) ELSE tag = LookupKey(d)
OneKind(d) ==
  \A n \in Visited : \A g \in RangeOf(app.functions[n]) : g.id = d.id => g.kind = d.kind
MethodsFor(d, c) ==
  {h.fn : h \in {h \in RangeOf(Methods[c]) :
     d.kind \in CrossCutting \cup ControllerOf[c] /\ Answers(h, MethodTag(h), d)}}
FunctionsFor(d, m) ==
  {h.fn : h \in {h \in RangeOf(app.functions[m]) :
     \/ Answers(h, FunctionTag(h), d)
     \/ h.kind = d.kind /\ h.id = d.id /\ d.id # "none" /\ OneKind(d)}}
GuardsFor(d, m) == {g \in RangeOf(app.guards[m]) : d.kind = "guard" /\ GuardName[g] = d.id}
DeclaredFor(d) ==
  UNION {FunctionsFor(d, m) \cup GuardsFor(d, m)
         \cup UNION {MethodsFor(d, c) : c \in RangeOf(app.controllers[m])} : m \in Visited}

(* A handler of the blueprint (runtime-orchestrator.test.ts:93) for which  *)
(* modules of the application, wherever in the graph, declare functions    *)
(* under the key it is looked up by gets a callback, and of one of these:  *)
(* no scan forgets a module, a class or a kind, and no lookup returns what *)
(* was declared for something else.  Consumer and schedule methods without *)
(* a source are declared under another key: SourcelessIsBound.             *)
DeclaredIsBound ==
  phase = "running" => \A i \in DOMAIN app.blueprint :
    LET fns == DeclaredFor(app.blueprint[i]) IN
    fns # {} => \E b \in RangeOf(callbacks) : b.def = i /\ b.fn \in fns

(* "The handler tag ... must match the key the orchestrator constructs"    *)
(* (scanners/consumer.ts:80): a consumer or schedule whose handler names a *)
(* method declared for its source, or for no source in particular          *)
(* (@Consumer(), @ScheduleHandler()), gets a callback of such a method.    *)
SourcelessIsBound ==
  phase = "running" => \A i \in DOMAIN app.blueprint :
    LET d == app.blueprint[i]
        named == {h \in UNION {RangeOf(Methods[c]) :
                                  c \in UNION {RangeOf(app.controllers[m]) : m \in Visited}} :
                    h.kind = d.kind /\ h.path \in {<<>>, d.path} /\ h.name = LastSegment[d.id]}
    IN d.kind \in Sourced /\ named # {} =>
         \E b \in RangeOf(callbacks) : b.def = i /\ b.fn \in {h.fn : h \in named}

(* "get handler callbacks for each blueprint route" (runtime-entry.ts:95): *)
(* a route that some handler was declared with gets such a handler's       *)
(* callback.                                                               *)
RouteGetsItsHandler ==
  \A b \in RangeOf(callbacks) :
    LET d == app.blueprint[b.def] IN
    d.kind = "http" /\ (\E h \in RangeOf(handlers) :
                          h.kind = "http" /\ h.method = d.method /\ h.path = d.path)
      => b.handler # 0 /\ handlers[b.handler].path = d.path
=============================================================================
