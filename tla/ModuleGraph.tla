----------------------------- MODULE ModuleGraph -----------------------------
(***************************************************************************)
(* The module graph of an application                                      *)
(* (packages/core/src/bootstrap/module-graph.ts): the depth-first walk over*)
(* the imports, the registration of what the modules provide in the        *)
(* container, and the validation of every dependency against the export    *)
(* boundaries.  All of it is synchronous; the nondeterminism is the        *)
(* application.                                                            *)
(***************************************************************************)
EXTENDS Integers, Sequences, FiniteSets

CONSTANTS
  Module,        \* the classes that may be modules; one without @Module()
                 \* metadata is a module with empty lists
  Root,          \* the root module
  Token,         \* the injection tokens
  ClassToken,    \* the tokens that are classes
  RuntimeToken,  \* the tokens isRuntimeProvidedToken recognises
  GuardDefinition, \* the guards that are functions, which have no token
  ClassDeps,     \* class -> sequence of its constructor dependency tokens
  App            \* the applications to consider: what the modules' metadata say

Declared(a) ==
  /\ a.imports \in [Module -> Seq(Module)]
  /\ a.providers \in [Module -> Seq([provide: Token, useClass: ClassToken \cup {"none"},
                                       inject: Seq(Token)])]
  /\ a.controllers \in [Module -> Seq(ClassToken)]
  /\ a.guards \in [Module -> Seq(ClassToken \cup GuardDefinition)]
  /\ a.exports \in [Module -> SUBSET Token]

(* What TypeScript's types say of @Module() metadata.                      *)
ASSUME GraphAssumption ==
  /\ Root \in Module
  /\ ClassToken \subseteq Token
  /\ RuntimeToken \subseteq Token \ ClassToken
  /\ "none" \notin Token \cup Module
  /\ GuardDefinition \cap Token = {}
  /\ ClassDeps \in [ClassToken -> Seq(Token)]
  /\ \A a \in App : Declared(a)

VARIABLES
  app,           \* the application being bootstrapped
  phase,         \* what bootstrap is doing, or how it ended
  walks,         \* the calls of walk in progress, innermost first
  resolving,     \* the modules being walked: the import cycle detector
  graph,         \* the modules in the order they were put in the Map
  registered,    \* the container's providers: token -> provider, NotRegistered
  at,            \* index in graph of the node a loop is at
  member,        \* index of the provider or controller of the node it is at
  work,          \* checks in progress: a consumer and the tokens left to check
  visible,       \* the tokens visible to the module being validated
  diagnostics    \* what validation has found

graphVars == <<app, phase, walks, resolving, graph, registered, at, member, work, visible,
               diagnostics>>

RangeOf(s) == {s[i] : i \in DOMAIN s}
Top == Head(walks)
Visited == RangeOf(graph)

NotRegistered == [useClass |-> "none", inject |-> <<>>, by |-> "none"]
ClassProvider(c, m) == [useClass |-> c, inject |-> <<>>, by |-> m]
Registered(t) == registered[t].by # "none"

(* getProviderDependencyTokens.                                            *)
DependencyTokens(p) == IF p.useClass # "none" THEN ClassDeps[p.useClass] ELSE p.inject

-----------------------------------------------------------------------------
(* buildModuleGraph.                                                       *)

(* A call of walk, and the import of the module it is at.                  *)
Call(m) == [module |-> m, next |-> 1]

Init ==
  /\ app \in App
  /\ phase = "walk"
  /\ walks = <<Call(Root)>>
  /\ resolving = {Root}
  /\ graph = <<>>
  /\ registered = [t \in Token |-> NotRegistered]
  /\ at = 1
  /\ member = 1
  /\ work = <<>>
  /\ visible = {}
  /\ diagnostics = {}

loops == <<registered, at, member, work, visible, diagnostics>>

MoreImports == phase = "walk" /\ walks # <<>> /\ Top.next <= Len(app.imports[Top.module])
NextImport == app.imports[Top.module][Top.next]
Advanced == <<[Top EXCEPT !.next = @ + 1]>> \o Tail(walks)

(* Seeded fault: a module being walked counts as visited.                  *)
SeenOrResolving(m) == m \in Visited \cup resolving

Seen(m) == m \in Visited

WalkSeen ==
  /\ MoreImports
  /\ Seen(NextImport)
  /\ walks' = Advanced
  /\ UNCHANGED <<app, phase, resolving, graph, loops>>

WalkCircular ==
  /\ MoreImports
  /\ NextImport \in resolving \ Visited
  /\ phase' = "circular"
  /\ UNCHANGED <<app, walks, resolving, graph, loops>>

(* Seeded fault: the module's imports are walked after it is recorded.     *)
WalkDownRecorded ==
  /\ MoreImports
  /\ NextImport \notin resolving \cup Visited
  /\ walks' = <<Call(NextImport)>> \o Advanced
  /\ graph' = Append(graph, NextImport)
  /\ UNCHANGED <<app, phase, resolving, loops>>

WalkDown ==
  /\ MoreImports
  /\ NextImport \notin resolving \cup Visited
  /\ walks' = <<Call(NextImport)>> \o Advanced
  /\ resolving' = resolving \cup {NextImport}
  /\ UNCHANGED <<app, phase, graph, loops>>

(* The module's imports are all in the graph; so is the module now.        *)
WalkDone ==
  /\ phase = "walk" /\ walks # <<>>
  /\ Top.next > Len(app.imports[Top.module])
  /\ resolving' = resolving \ {Top.module}
  /\ graph' = Append(graph, Top.module)
  /\ walks' = Tail(walks)
  /\ phase' = IF Tail(walks) = <<>> THEN "register" ELSE phase
  /\ UNCHANGED <<app, loops>>

-----------------------------------------------------------------------------
(* registerModuleGraph: providers replace what is registered, controllers  *)
(* and class guards do not.                                                *)

Node == graph[at]
Providers == app.providers[Node]
OwnClasses(m) ==
  RangeOf(app.controllers[m]) \cup (RangeOf(app.guards[m]) \cap ClassToken)
OwnTokens(m) == {app.providers[m][i].provide : i \in DOMAIN app.providers[m]} \cup OwnClasses(m)

Registering == phase = "register" /\ at <= Len(graph)
registerFrame == <<app, walks, resolving, graph, work, visible, diagnostics>>

(* Seeded fault: a provider registered before is kept.                     *)
Keeping(p) ==
  IF Registered(p.provide) THEN registered
  ELSE [registered EXCEPT ![p.provide] =
          [useClass |-> p.useClass, inject |-> p.inject, by |-> Node]]

Replacing(p) ==
  [registered EXCEPT ![p.provide] = [useClass |-> p.useClass, inject |-> p.inject, by |-> Node]]

RegisterProvider ==
  /\ Registering
  /\ member <= Len(Providers)
  /\ registered' = Replacing(Providers[member])
  /\ member' = member + 1
  /\ UNCHANGED <<registerFrame, phase, at>>

NewClasses(m) == {c \in OwnClasses(m) : ~Registered(c)}

RegisterClasses ==
  /\ Registering
  /\ member > Len(Providers)
  /\ registered' = [t \in Token |-> IF t \in NewClasses(Node) THEN ClassProvider(t, Node)
                                    ELSE registered[t]]
  /\ member' = 1
  /\ IF at < Len(graph) THEN at' = at + 1 /\ phase' = phase
                        ELSE at' = 1 /\ phase' = "validate"
  /\ UNCHANGED registerFrame

-----------------------------------------------------------------------------
(* validateModuleGraph and checkDependencies.  One node is checked at a    *)
(* time; `work` is the call stack of checkDependencies and the consumers of*)
(* the node still to check.                                                *)

Check(consumer, deps) == [consumer |-> consumer, deps |-> deps]
Consumers(m) ==
  [i \in DOMAIN app.providers[m] |->
     Check(app.providers[m][i].provide, DependencyTokens(app.providers[m][i]))]
  \o [i \in DOMAIN app.controllers[m] |->
        Check(app.controllers[m][i], ClassDeps[app.controllers[m][i]])]
  \o [i \in DOMAIN app.guards[m] |->
        Check(app.guards[m][i], IF app.guards[m][i] \in ClassToken
                                THEN ClassDeps[app.guards[m][i]] ELSE <<>>)]

frame == <<app, walks, resolving, graph, member>>

Exported(m) == UNION {app.exports[n] : n \in RangeOf(app.imports[m])}

Diagnostic(type, consumer, token) ==
  [type |-> type, consumer |-> consumer, token |-> token, module |-> Node]

(* Seeded fault: only what an importer can see must be owned.              *)
NoBadExports == {}

BadExports ==
  {Diagnostic("invalid_export", "none", t) : t \in app.exports[Node] \ OwnTokens(Node)}

EnterNode ==
  /\ phase = "validate"
  /\ at <= Len(graph)
  /\ diagnostics' = diagnostics \cup BadExports
  /\ visible' = OwnTokens(Node) \cup Exported(Node)
  /\ work' = Consumers(Node)
  /\ phase' = "check"
  /\ UNCHANGED <<frame, registered, at>>

Checking == phase = "check" /\ work # <<>> /\ Head(work).deps # <<>>
Dep == Head(Head(work).deps)
Checked == <<[Head(work) EXCEPT !.deps = Tail(@)]>> \o Tail(work)
Owners(t) == {i \in DOMAIN graph : t \in OwnTokens(graph[i])}
Hidden == Checking /\ Dep \notin visible

CheckVisible ==
  /\ Checking
  /\ Dep \in visible
  /\ work' = Checked
  /\ UNCHANGED <<frame, phase, registered, at, visible, diagnostics>>

Report(type) ==
  /\ diagnostics' = diagnostics \cup {Diagnostic(type, Head(work).consumer, Dep)}
  /\ work' = Checked
  /\ UNCHANGED <<frame, phase, registered, at, visible>>

(* findTokenOwner found a module of the graph.                             *)
CheckOwned ==
  /\ Hidden
  /\ Owners(Dep) # {}
  /\ Report("export_violation")

(* Seeded fault: the dependencies of an adopted class are not checked.     *)
AdoptedShallow == Checked

AdoptedChecks == <<Check(Dep, ClassDeps[Dep])>> \o Checked

(* Seeded fault: the class is not made visible before its dependencies are *)
(* checked, in place of its consumer's.                                    *)
CheckAdoptUnseen ==
  /\ Hidden
  /\ Owners(Dep) = {} /\ Dep \in ClassToken
  /\ work' = <<Check(Dep, ClassDeps[Dep])>> \o Tail(work)
  /\ UNCHANGED <<frame, phase, registered, at, visible, diagnostics>>

(* A class nobody owns is registered, visible to this module only, and its *)
(* own dependencies are checked before the next token.                     *)
CheckAdopt ==
  /\ Hidden
  /\ Owners(Dep) = {} /\ Dep \in ClassToken
  /\ registered' = IF Registered(Dep) THEN registered
                   ELSE [registered EXCEPT ![Dep] = ClassProvider(Dep, Node)]
  /\ visible' = visible \cup {Dep}
  /\ work' = AdoptedChecks
  /\ UNCHANGED <<frame, phase, at, diagnostics>>

CheckRuntime ==
  /\ Hidden
  /\ Owners(Dep) = {} /\ Dep \in RuntimeToken
  /\ work' = Checked
  /\ UNCHANGED <<frame, phase, registered, at, visible, diagnostics>>

CheckMissing ==
  /\ Hidden
  /\ Owners(Dep) = {} /\ Dep \notin ClassToken \cup RuntimeToken
  /\ Report("missing_dependency")

CheckReturn ==
  /\ phase = "check" /\ work # <<>> /\ Head(work).deps = <<>>
  /\ work' = Tail(work)
  /\ UNCHANGED <<frame, phase, registered, at, visible, diagnostics>>

Verdict == IF diagnostics = {} THEN "valid" ELSE "invalid"

LeaveNode ==
  /\ phase = "check" /\ work = <<>>
  /\ at' = at + 1
  /\ phase' = IF at < Len(graph) THEN "validate" ELSE Verdict
  /\ visible' = {}
  /\ UNCHANGED <<frame, registered, work, diagnostics>>

-----------------------------------------------------------------------------
Walk == WalkSeen \/ WalkCircular \/ WalkDown \/ WalkDone
Validate ==
  \/ EnterNode \/ CheckVisible \/ CheckOwned \/ CheckAdopt \/ CheckRuntime
  \/ CheckMissing \/ CheckReturn \/ LeaveNode

GraphNext == Walk \/ RegisterProvider \/ RegisterClasses \/ Validate
-----------------------------------------------------------------------------
(* Properties.                                                             *)

Graphed == phase \notin {"walk", "circular"}
Accepted == Graphed /\ phase \notin {"register", "validate", "check", "invalid"}

(* Every part of the state has its shape.                                  *)
GraphTypeOK ==
  /\ Declared(app)
  /\ walks \in Seq([module: Module, next: Nat \ {0}])
  /\ resolving \subseteq Module
  /\ graph \in Seq(Module)
  /\ registered \in [Token -> [useClass: ClassToken \cup {"none"}, inject: Seq(Token),
                               by: Module \cup {"none"}]]
  /\ at \in Nat \ {0}
  /\ member \in Nat \ {0}
  /\ visible \subseteq Token
  /\ work \in Seq([consumer: Token \cup GuardDefinition, deps: Seq(Token)])
  /\ diagnostics \subseteq [type: {"invalid_export", "export_violation", "missing_dependency"},
                            consumer: Token \cup GuardDefinition \cup {"none"},
                            token: Token, module: Module]

(* The walk (module-graph.ts:44) puts every module in the Map once, after  *)
(* all the modules it imports, however the imports share modules and where-*)
(* ever a cycle is found: registration and scanning go in this order.      *)
ImportsFirst ==
  /\ \A i, j \in DOMAIN graph : graph[i] = graph[j] => i = j
  /\ \A i \in DOMAIN graph : \A n \in RangeOf(app.imports[graph[i]]) :
       \E j \in 1..(i - 1) : graph[j] = n

(* The modules m imports, by some path: the least set that has its imports *)
(* and theirs.                                                             *)
Imported(M) == UNION {RangeOf(app.imports[m]) : m \in M}
ImportClosed(m, S) == RangeOf(app.imports[m]) \cup Imported(S) \subseteq S
ImportedBy(m) == {n \in Module : \A S \in SUBSET Module : ImportClosed(m, S) => n \in S}

(* "Detects circular module imports and deduplicates visited modules"      *)
(* (module-graph.ts:38): the walk fails exactly when a module reachable    *)
(* from the root imports itself by some path, and otherwise finds every    *)
(* reachable module and no other.                                          *)
WalkExact ==
  LET reachable == {Root} \cup ImportedBy(Root)
      cyclic == \E m \in reachable : m \in ImportedBy(m)
  IN /\ phase = "circular" => cyclic
     /\ Graphed => ~cyclic /\ Visited = reachable

(* A module's provider for a token replaces those of the modules it        *)
(* imports, by whatever path, and never the other way round                *)
(* (registerModuleGraph, module-graph.ts:144).                             *)
ImporterOverrides ==
  Graphed /\ phase # "register" =>
    \A m \in Visited : \A i \in DOMAIN app.providers[m] :
      registered[app.providers[m][i].provide].by \notin ImportedBy(m)

VisibleTo(m) == OwnTokens(m) \cup Exported(m)
Unowned(T) == {t \in T : Owners(t) = {}}
Uses(m) == UNION {RangeOf(Consumers(m)[i].deps) : i \in DOMAIN Consumers(m)}
DepsOf(S) == UNION {RangeOf(ClassDeps[c]) : c \in S}

(* The classes m adopts: of those nobody owns and m cannot see, the least  *)
(* set that has what its consumers and the adopted classes need.           *)
Orphans(m) == Unowned(ClassToken) \ VisibleTo(m)
Adopted(m) ==
  LET orphans == Orphans(m)
      uses == Uses(m)
      closed(S) == (uses \cup DepsOf(S)) \cap orphans \subseteq S
  IN {c \in orphans : \A S \in SUBSET orphans : closed(S) => c \in S}
Needs(m) == Uses(m) \cup DepsOf(Adopted(m))

(* What validateModuleGraph promises (module-graph.ts:192): an application *)
(* is accepted exactly when its modules export only what they own, and each*)
(* token a module's consumers need, through the classes it adopts, is      *)
(* visible to it or, owned by no module, a class or the runtime's.  In     *)
(* particular the order in which nodes and dependencies are checked, and   *)
(* what earlier checks adopted, make no difference.                        *)
ValidationExact ==
  Graphed /\ phase \notin {"register", "validate", "check"} =>
    (Accepted <=>
      \A m \in Visited :
        /\ app.exports[m] \subseteq OwnTokens(m)
        /\ Needs(m) \ (VisibleTo(m) \cup Adopted(m)) \subseteq Unowned(RuntimeToken))

(* In an accepted application no registered provider leads the container to*)
(* a token without one (container.ts:113): whatever is registered, by the  *)
(* last module to provide it or by adoption, only needs tokens that are    *)
(* registered or that the runtime registers.  The tokens that function     *)
(* handlers, function guards and layers inject are not validated.          *)
Resolvable ==
  Accepted => \A t \in Token : Registered(t) =>
    \A d \in RangeOf(DependencyTokens(registered[t])) : Registered(d) \/ d \in RuntimeToken
=============================================================================
