---------------------------- MODULE RuntimeProofs ----------------------------
(***************************************************************************)
(* Proofs about the start of an application, whatever its size: the type   *)
(* invariant of the module graph, that imports come first, when the walk   *)
(* and the validation fail, which module's provider a token gets, that an  *)
(* accepted application can be resolved, that the blueprint's handlers get *)
(* the callbacks the application declares, and which handler a route gets. *)
(***************************************************************************)
EXTENDS Runtime, FiniteSetTheorems, WellFoundedInduction, TLAPS

Phases == {"walk", "circular", "register", "validate", "check", "valid", "invalid",
           "scan", "bind", "running"}

(* What the phases say of the loops' variables and of the verdict.         *)
PhaseInv ==
  /\ phase \in Phases
  /\ phase = "walk" => at = 1 /\ member = 1 /\ \A t \in Token : ~Registered(t)
  /\ phase \in {"register", "validate", "check"} => at <= Len(graph)
  /\ phase \in {"valid", "scan", "bind", "running"} => diagnostics = {}

(* The walk: each call w[k] in progress is of a module of its own, not yet *)
(* in the graph's modules V, and the imports it has passed are in the      *)
(* graph, but for the one whose call is the next in the stack.             *)
Calls(w, R, V, imports) ==
  /\ w # <<>>
  /\ \A k \in 1..Len(w) : w[k].module \in R /\ w[k].module \notin V
  /\ \A j, k \in 1..Len(w) : w[j].module = w[k].module => j = k
  /\ \A k \in 1..Len(w) :
       /\ w[k].next <= Len(imports[w[k].module]) + 1
       /\ \A i \in 1..(w[k].next - 1) :
            \/ imports[w[k].module][i] \in V
            \/ /\ k > 1 /\ i = w[k].next - 1
               /\ imports[w[k].module][i] = w[k - 1].module

WalkInv == phase = "walk" => Calls(walks, resolving, Visited, app.imports)

-----------------------------------------------------------------------------
(* Sequences.                                                              *)

(* What <<x>> \o s is.                                                     *)
LEMMA Pushed ==
  ASSUME NEW S, NEW s \in Seq(S), NEW x \in S
  PROVE  /\ <<x>> \o s \in Seq(S)
         /\ Len(<<x>> \o s) = Len(s) + 1
         /\ (<<x>> \o s)[1] = x
         /\ \A i \in 1..Len(s) : (<<x>> \o s)[i + 1] = s[i]
         /\ \A i \in 2..(Len(s) + 1) : (<<x>> \o s)[i] = s[i - 1]
  OBVIOUS

(* What replacing the first element of a sequence makes of it.             *)
LEMMA Replaced ==
  ASSUME NEW S, NEW s \in Seq(S), s # <<>>, NEW x \in S
  PROVE  /\ <<x>> \o Tail(s) \in Seq(S)
         /\ Len(<<x>> \o Tail(s)) = Len(s)
         /\ (<<x>> \o Tail(s))[1] = x
         /\ \A i \in 2..Len(s) : (<<x>> \o Tail(s))[i] = s[i]
  OBVIOUS

(* What is left of a sequence without its first element.                   *)
LEMMA Dropped ==
  ASSUME NEW S, NEW s \in Seq(S), s # <<>>
  PROVE  /\ Head(s) \in S /\ Head(s) = s[1] /\ Len(s) \in Nat \ {0}
         /\ Tail(s) \in Seq(S) /\ Len(Tail(s)) = Len(s) - 1
         /\ \A i \in 1..Len(Tail(s)) : Tail(s)[i] = s[i + 1]
  OBVIOUS

(* The range of a sequence, by its indices.                                *)
LEMMA InRange ==
  ASSUME NEW S, NEW s \in Seq(S)
  PROVE  /\ RangeOf(s) \subseteq S
         /\ DOMAIN s = 1..Len(s) /\ Len(s) \in Nat
         /\ \A i \in 1..Len(s) : s[i] \in RangeOf(s) /\ s[i] \in S
         /\ \A x \in RangeOf(s) : \E i \in 1..Len(s) : s[i] = x
  BY DEF RangeOf

(* The range of a sequence that has grown.                                 *)
LEMMA RangeAppend ==
  ASSUME NEW S, NEW s \in Seq(S), NEW x \in S
  PROVE  /\ RangeOf(Append(s, x)) = RangeOf(s) \cup {x}
         /\ Append(s, x) \in Seq(S) /\ Len(Append(s, x)) = Len(s) + 1
         /\ Append(s, x)[Len(s) + 1] = x
         /\ \A i \in 1..Len(s) : Append(s, x)[i] = s[i]
  <1>1. /\ Append(s, x) \in Seq(S) /\ Len(Append(s, x)) = Len(s) + 1
        /\ Append(s, x)[Len(s) + 1] = x
        /\ \A i \in 1..Len(s) : Append(s, x)[i] = s[i]
    OBVIOUS
  <1>2. DOMAIN s = 1..Len(s) /\ DOMAIN Append(s, x) = 1..(Len(s) + 1) /\ Len(s) \in Nat
    BY <1>1
  <1>3. ASSUME NEW y PROVE y \in RangeOf(Append(s, x)) <=> y \in RangeOf(s) \cup {x}
    BY <1>1, <1>2 DEF RangeOf
  <1> QED BY <1>1, <1>3

(* A function on 1..n is a sequence of length n.                           *)
LEMMA FunctionIsSeq ==
  ASSUME NEW S, NEW n \in Nat, NEW f \in [1..n -> S]
  PROVE  f \in Seq(S) /\ Len(f) = n
  OBVIOUS

Joined(a, b, c) == a \o b \o c
Within(s, t) == \A i \in 1..Len(s) : \E j \in 1..Len(t) : t[j] = s[i]

(* Where the elements of three sequences are in their concatenation.       *)
LEMMA Concat3 ==
  ASSUME NEW S, NEW a \in Seq(S), NEW b \in Seq(S), NEW c \in Seq(S)
  PROVE  /\ Joined(a, b, c) \in Seq(S)
         /\ Within(a, Joined(a, b, c))
         /\ Within(b, Joined(a, b, c))
         /\ Within(c, Joined(a, b, c))
  <1>1. /\ a \o b \o c \in Seq(S)
        /\ Len(a \o b \o c) = Len(a) + Len(b) + Len(c)
        /\ Len(a) \in Nat /\ Len(b) \in Nat /\ Len(c) \in Nat
    OBVIOUS
  <1>2. /\ \A i \in 1..Len(a) : (a \o b \o c)[i] = a[i]
        /\ \A i \in 1..Len(b) : (a \o b \o c)[Len(a) + i] = b[i]
        /\ \A i \in 1..Len(c) : (a \o b \o c)[Len(a) + Len(b) + i] = c[i]
    BY <1>1
  <1>3. /\ \A i \in 1..Len(a) : i \in 1..(Len(a) + Len(b) + Len(c))
        /\ \A i \in 1..Len(b) : Len(a) + i \in 1..(Len(a) + Len(b) + Len(c))
        /\ \A i \in 1..Len(c) : Len(a) + Len(b) + i \in 1..(Len(a) + Len(b) + Len(c))
    BY <1>1
  <1> QED BY <1>1, <1>2, <1>3 DEF Joined, Within

-----------------------------------------------------------------------------
(* The module graph's own type invariant, made available piece by piece.   *)

Provider == [provide: Token, useClass: ClassToken \cup {"none"}, inject: Seq(Token)]

(* The metadata of an application is well typed.                           *)
LEMMA AppTypes ==
  ASSUME Declared(app), NEW m \in Module
  PROVE  /\ app.imports[m] \in Seq(Module)
         /\ app.providers[m] \in Seq(Provider)
         /\ app.controllers[m] \in Seq(ClassToken)
         /\ app.guards[m] \in Seq(ClassToken \cup GuardDefinition)
         /\ app.exports[m] \subseteq Token
  BY DEF Declared, Provider

(* What a module owns are tokens, and its own classes classes.             *)
LEMMA OwnTyped ==
  ASSUME Declared(app), NEW m \in Module
  PROVE  OwnTokens(m) \subseteq Token /\ OwnClasses(m) \subseteq ClassToken
  <1>1. app.providers[m] \in Seq(Provider) /\ app.controllers[m] \in Seq(ClassToken)
    BY AppTypes
  <1>2. OwnClasses(m) \subseteq ClassToken
    <2>1. RangeOf(app.controllers[m]) \subseteq ClassToken
      BY <1>1, InRange
    <2> QED BY <2>1 DEF OwnClasses
  <1>3. \A i \in DOMAIN app.providers[m] : app.providers[m][i] \in Provider
    BY <1>1
  <1> QED BY <1>2, <1>3, GraphAssumption DEF OwnTokens, Provider

(* What a node checks: its providers' dependencies and its own classes'.   *)
LEMMA ConsumersHave ==
  ASSUME Declared(app), NEW m \in Module
  PROVE  /\ Consumers(m) \in Seq([consumer: Token \cup GuardDefinition, deps: Seq(Token)])
         /\ \A i \in 1..Len(app.providers[m]) : \E j \in 1..Len(Consumers(m)) :
              Consumers(m)[j].deps = DependencyTokens(app.providers[m][i])
         /\ \A c \in OwnClasses(m) : \E j \in 1..Len(Consumers(m)) :
              Consumers(m)[j].deps = ClassDeps[c]
  <1> DEFINE R == [consumer: Token \cup GuardDefinition, deps: Seq(Token)]
             p == app.providers[m]
             c == app.controllers[m]
             g == app.guards[m]
  <1>1. /\ p \in Seq(Provider)
        /\ c \in Seq(ClassToken)
        /\ g \in Seq(ClassToken \cup GuardDefinition)
    BY AppTypes
  <1> DEFINE GuardDeps(d) == IF d \in ClassToken THEN ClassDeps[d] ELSE <<>>
             P == [i \in DOMAIN p |-> Check(p[i].provide, DependencyTokens(p[i]))]
             C == [i \in DOMAIN c |-> Check(c[i], ClassDeps[c[i]])]
             G == [i \in DOMAIN g |-> Check(g[i], GuardDeps(g[i]))]
  <1>2. /\ ClassToken \subseteq Token
        /\ ClassDeps \in [ClassToken -> Seq(Token)]
    BY GraphAssumption
  <1>3. /\ DOMAIN p = 1..Len(p) /\ Len(p) \in Nat
        /\ DOMAIN c = 1..Len(c) /\ Len(c) \in Nat
        /\ DOMAIN g = 1..Len(g) /\ Len(g) \in Nat
    BY <1>1
  <1>4. /\ \A i \in 1..Len(p) : /\ p[i].provide \in Token
                                /\ p[i].useClass \in ClassToken \cup {"none"}
                                /\ p[i].inject \in Seq(Token)
        /\ \A i \in 1..Len(c) : c[i] \in ClassToken
        /\ \A i \in 1..Len(g) : g[i] \in ClassToken \cup GuardDefinition
    <2> HIDE DEF p, c, g
    <2>1. \A i \in 1..Len(p) : p[i] \in Provider
      BY <1>1
    <2>2. \A i \in 1..Len(c) : c[i] \in ClassToken
      BY <1>1
    <2>3. \A i \in 1..Len(g) : g[i] \in ClassToken \cup GuardDefinition
      BY <1>1
    <2> QED BY <2>1, <2>2, <2>3 DEF Provider
  <1>5. Consumers(m) = P \o C \o G
    BY DEF Consumers
  <1> HIDE DEF p, c, g
  <1>6. P \in Seq(R) /\ Len(P) = Len(p)
        /\ \A i \in 1..Len(p) : P[i].deps = DependencyTokens(p[i])
    <2>1. \A i \in 1..Len(p) : DependencyTokens(p[i]) \in Seq(Token)
      BY <1>2, <1>4 DEF DependencyTokens
    <2>2. P \in [1..Len(p) -> R]
      BY <1>3, <1>4, <2>1 DEF Check
    <2> QED BY <1>3, <2>2, FunctionIsSeq DEF Check
  <1>7. C \in Seq(R) /\ Len(C) = Len(c)
        /\ \A i \in 1..Len(c) : C[i].deps = ClassDeps[c[i]]
    <2>1. C \in [1..Len(c) -> R]
      BY <1>2, <1>3, <1>4 DEF Check
    <2> QED BY <1>3, <2>1, FunctionIsSeq DEF Check
  <1>8. G \in Seq(R) /\ Len(G) = Len(g)
        /\ \A i \in 1..Len(g) : G[i].deps = GuardDeps(g[i])
    <2>1. <<>> \in Seq(Token)
      OBVIOUS
    <2>2. \A i \in 1..Len(g) : g[i] \in Token \cup GuardDefinition /\ GuardDeps(g[i]) \in Seq(Token)
      BY <1>2, <1>4, <2>1
    <2> HIDE DEF GuardDeps
    <2>3. G \in [1..Len(g) -> R]
      BY <1>3, <2>2 DEF Check
    <2> QED BY <1>3, <2>3, FunctionIsSeq DEF Check
  <1> HIDE DEF P, C, G, R
  <1>9. /\ Consumers(m) \in Seq(R)
        /\ \A i \in 1..Len(P) : \E j \in 1..Len(Consumers(m)) : Consumers(m)[j] = P[i]
        /\ \A i \in 1..Len(C) : \E j \in 1..Len(Consumers(m)) : Consumers(m)[j] = C[i]
        /\ \A i \in 1..Len(G) : \E j \in 1..Len(Consumers(m)) : Consumers(m)[j] = G[i]
    <2>1. P \in Seq(R) /\ C \in Seq(R) /\ G \in Seq(R)
      BY <1>6, <1>7, <1>8
    <2>2. Consumers(m) = Joined(P, C, G)
      BY <1>5 DEF Joined
    <2>3. /\ Joined(P, C, G) \in Seq(R)
          /\ Within(P, Joined(P, C, G))
          /\ Within(C, Joined(P, C, G))
          /\ Within(G, Joined(P, C, G))
      BY <2>1, Concat3
    <2> QED BY <2>2, <2>3 DEF Within
  <1>10. \A i \in 1..Len(p) : \E j \in 1..Len(Consumers(m)) :
           Consumers(m)[j].deps = DependencyTokens(p[i])
    BY <1>6, <1>9
  <1>11. ASSUME NEW k \in OwnClasses(m)
         PROVE  \E j \in 1..Len(Consumers(m)) : Consumers(m)[j].deps = ClassDeps[k]
    <2>1. \/ \E i \in 1..Len(c) : c[i] = k
          \/ k \in ClassToken /\ \E i \in 1..Len(g) : g[i] = k
      BY <1>3 DEF OwnClasses, RangeOf, c, g
    <2>2. CASE \E i \in 1..Len(c) : c[i] = k
      BY <1>7, <1>9, <2>2
    <2>3. CASE k \in ClassToken /\ \E i \in 1..Len(g) : g[i] = k
      BY <1>8, <1>9, <2>3
    <2> QED BY <2>1, <2>2, <2>3
  <1> QED BY <1>9, <1>10, <1>11 DEF R, p

-----------------------------------------------------------------------------
(* After validation nothing of the graph changes but the loops' indices and*)
(* the provider of the sender.                                             *)
Later == Scan \/ Bind \/ Run \/ UNCHANGED vars

(* The provider Run registers has no dependencies.                         *)
WithSender == [registered EXCEPT ![Sender] = [NotRegistered EXCEPT !.by = Root]]

LEMMA LaterSteps ==
  ASSUME Later, at \in Nat \ {0}, member \in Nat \ {0}
  PROVE  /\ UNCHANGED <<app, walks, resolving, graph, work, visible, diagnostics>>
         /\ at' \in Nat \ {0} /\ member' \in Nat \ {0}
         /\ registered' = registered \/ registered' = WithSender
         /\ \/ phase \in {"valid", "scan", "bind"} /\ phase' \in {"scan", "bind", "running"}
            \/ UNCHANGED <<phase, at, member, registered>>
  <1>1. CASE StartScan
    BY <1>1 DEF StartScan
  <1>2. CASE ScanController
    BY <1>2 DEF ScanController, scanned
  <1>3. CASE ScanFunctions
    BY <1>3 DEF ScanFunctions, NextNode, scanned
  <1>4. CASE ScanGuards
    BY <1>4 DEF ScanGuards, NextNode, scanned, Scanning
  <1>5. CASE Bind
    <2>1. UNCHANGED graphVars
      BY <1>5 DEF Bind, BindGuard, BindByKey, BindById, BindByModule, BindNone, Give, bindFrame
    <2> QED BY <2>1 DEF graphVars
  <1>6. CASE Run
    BY <1>6 DEF Run, WithSender
  <1>7. CASE UNCHANGED vars
    BY <1>7 DEF vars, graphVars
  <1> QED BY <1>1, <1>2, <1>3, <1>4, <1>5, <1>6, <1>7 DEF Later, Scan

(* The steps of the module graph, and the others.                          *)
LEMMA Steps ==
  ASSUME [Next]_vars
  PROVE  \/ WalkSeen \/ WalkCircular \/ WalkDown \/ WalkDone
         \/ RegisterProvider \/ RegisterClasses
         \/ EnterNode \/ CheckVisible \/ CheckOwned \/ CheckAdopt \/ CheckRuntime
         \/ CheckMissing \/ CheckReturn \/ LeaveNode
         \/ Later
  BY DEF Next, Bootstrap, GraphNext, Walk, Validate, Later

-----------------------------------------------------------------------------
(* Types.                                                                  *)

Frame == [module: Module, next: Nat \ {0}]
Provided == [useClass: ClassToken \cup {"none"}, inject: Seq(Token), by: Module \cup {"none"}]
Pending == [consumer: Token \cup GuardDefinition, deps: Seq(Token)]
Finding == [type: {"invalid_export", "export_violation", "missing_dependency"},
            consumer: Token \cup GuardDefinition \cup {"none"}, token: Token, module: Module]

(* The top of the stack of calls of walk, and what is below it.            *)
LEMMA TopFrame ==
  ASSUME GraphTypeOK, walks # <<>>
  PROVE  /\ Top = walks[1] /\ Len(walks) \in Nat \ {0}
         /\ Top.module \in Module /\ Top.next \in Nat \ {0}
         /\ Advanced \in Seq(Frame) /\ Len(Advanced) = Len(walks)
         /\ Advanced[1] = [module |-> Top.module, next |-> Top.next + 1]
         /\ \A k \in 2..Len(walks) : Advanced[k] = walks[k]
         /\ app.imports[Top.module] \in Seq(Module)
         /\ MoreImports => NextImport \in Module
  <1>1. walks \in Seq(Frame) /\ Declared(app)
    BY DEF GraphTypeOK, Frame
  <1>2. Top = walks[1] /\ Top \in Frame /\ Len(walks) \in Nat \ {0}
    BY <1>1, Dropped DEF Top
  <1>3. Top.module \in Module /\ Top.next \in Nat \ {0}
    BY <1>2 DEF Frame
  <1>4. [Top EXCEPT !.next = @ + 1] = [module |-> Top.module, next |-> Top.next + 1]
    BY <1>2 DEF Frame
  <1>5. [module |-> Top.module, next |-> Top.next + 1] \in Frame
    BY <1>3 DEF Frame
  <1>6. /\ Advanced \in Seq(Frame) /\ Len(Advanced) = Len(walks)
        /\ Advanced[1] = [module |-> Top.module, next |-> Top.next + 1]
        /\ \A k \in 2..Len(walks) : Advanced[k] = walks[k]
    BY <1>1, <1>4, <1>5, Replaced DEF Advanced
  <1>7. app.imports[Top.module] \in Seq(Module)
    BY <1>1, <1>3, AppTypes
  <1>8. MoreImports => NextImport \in Module
    BY <1>3, <1>7 DEF MoreImports, NextImport
  <1> QED BY <1>2, <1>3, <1>6, <1>7, <1>8

(* The stack of checks, and the token at its head.                         *)
LEMMA TopCheck ==
  ASSUME GraphTypeOK, Checking
  PROVE  /\ Head(work).consumer \in Token \cup GuardDefinition
         /\ Dep \in Token
         /\ Checked \in Seq(Pending) /\ Len(Checked) = Len(work) /\ Len(work) \in Nat \ {0}
         /\ Checked[1].deps = Tail(work[1].deps)
         /\ \A k \in 2..Len(work) : Checked[k] = work[k]
         /\ work[1].deps \in Seq(Token) /\ work[1].deps # <<>> /\ Dep = Head(work[1].deps)
  <1>1. work \in Seq(Pending) /\ work # <<>> /\ Head(work).deps # <<>>
    BY DEF GraphTypeOK, Pending, Checking
  <1>2. Head(work) \in Pending /\ Head(work) = work[1] /\ Len(work) \in Nat \ {0}
    BY <1>1, Dropped
  <1>3. Head(work).consumer \in Token \cup GuardDefinition /\ Head(work).deps \in Seq(Token)
    BY <1>2 DEF Pending
  <1>4. Dep \in Token /\ Tail(Head(work).deps) \in Seq(Token)
    BY <1>1, <1>3, Dropped DEF Dep
  <1>5. [Head(work) EXCEPT !.deps = Tail(@)] =
          [consumer |-> Head(work).consumer, deps |-> Tail(Head(work).deps)]
    <2>1. ASSUME NEW r \in Pending, NEW d
          PROVE  [r EXCEPT !.deps = d] = [consumer |-> r.consumer, deps |-> d]
      BY DEF Pending
    <2> QED BY <1>2, <2>1
  <1>6. [consumer |-> Head(work).consumer, deps |-> Tail(Head(work).deps)] \in Pending
    BY <1>3, <1>4 DEF Pending
  <1>7. /\ Checked \in Seq(Pending) /\ Len(Checked) = Len(work)
        /\ Checked[1] = [consumer |-> Head(work).consumer, deps |-> Tail(Head(work).deps)]
        /\ \A k \in 2..Len(work) : Checked[k] = work[k]
    BY <1>1, <1>5, <1>6, Replaced DEF Checked
  <1> QED BY <1>1, <1>2, <1>3, <1>4, <1>7 DEF Dep

(* The node a loop is at is a module of the graph.                         *)
LEMMA NodeTyped ==
  ASSUME GraphTypeOK, PhaseInv, phase \in {"register", "validate", "check"}
  PROVE  /\ at \in 1..Len(graph) /\ Len(graph) \in Nat
         /\ Node \in Module /\ Node \in Visited
         /\ Providers \in Seq(Provider)
  <1>1. graph \in Seq(Module) /\ at \in Nat \ {0} /\ at <= Len(graph) /\ Declared(app)
    BY DEF GraphTypeOK, PhaseInv
  <1>2. at \in 1..Len(graph) /\ Len(graph) \in Nat
    BY <1>1
  <1>3. Node \in Module /\ Node \in Visited
    BY <1>1, <1>2, InRange DEF Node, Visited
  <1> QED BY <1>1, <1>2, <1>3, AppTypes DEF Providers

(* Every step keeps the types.                                             *)
LEMMA TypeStep ==
  ASSUME GraphTypeOK, PhaseInv, [Next]_vars
  PROVE  GraphTypeOK'
  <1> USE DEF Frame, Provided, Pending, Finding
  <1>0. /\ Declared(app) /\ walks \in Seq(Frame) /\ resolving \subseteq Module
        /\ graph \in Seq(Module) /\ registered \in [Token -> Provided]
        /\ at \in Nat \ {0} /\ member \in Nat \ {0} /\ visible \subseteq Token
        /\ work \in Seq(Pending) /\ diagnostics \subseteq Finding
    BY DEF GraphTypeOK
  <1> HIDE DEF Frame, Provided, Pending, Finding
  <1>a. app' = app => Declared(app)'
    BY <1>0 DEF Declared
  <1> SUFFICES /\ Declared(app)' /\ walks' \in Seq(Frame) /\ resolving' \subseteq Module
               /\ graph' \in Seq(Module) /\ registered' \in [Token -> Provided]
               /\ at' \in Nat \ {0} /\ member' \in Nat \ {0} /\ visible' \subseteq Token
               /\ work' \in Seq(Pending) /\ diagnostics' \subseteq Finding
    BY DEF GraphTypeOK, Frame, Provided, Pending, Finding
  <1>1. CASE WalkSeen
    <2>1. walks' \in Seq(Frame)
      BY <1>1, TopFrame DEF WalkSeen, MoreImports
    <2> QED BY <1>0, <1>a, <1>1, <2>1 DEF WalkSeen, loops
  <1>2. CASE WalkCircular
    BY <1>0, <1>a, <1>2 DEF WalkCircular, loops
  <1>3. CASE WalkDown
    <2>1. NextImport \in Module /\ Advanced \in Seq(Frame)
      BY <1>3, TopFrame DEF WalkDown, MoreImports
    <2>2. Call(NextImport) \in Frame
      BY <2>1 DEF Call, Frame
    <2>3. walks' \in Seq(Frame)
      BY <1>3, <2>1, <2>2, Pushed DEF WalkDown
    <2> QED BY <1>0, <1>a, <1>3, <2>1, <2>3 DEF WalkDown, loops
  <1>4. CASE WalkDone
    <2>1. Top.module \in Module
      BY <1>4, TopFrame DEF WalkDone
    <2>2. graph' \in Seq(Module)
      BY <1>0, <1>4, <2>1, RangeAppend DEF WalkDone
    <2>3. walks' \in Seq(Frame)
      BY <1>0, <1>4, Dropped DEF WalkDone
    <2> QED BY <1>0, <1>a, <1>4, <2>2, <2>3 DEF WalkDone, loops
  <1>5. CASE RegisterProvider
    <2>1. Node \in Module /\ Providers[member] \in Provider
      BY <1>0, <1>5, NodeTyped DEF RegisterProvider, Registering
    <2>2. ASSUME NEW p \in Provider
          PROVE  Replacing(p) \in [Token -> Provided]
      <3>1. [useClass |-> p.useClass, inject |-> p.inject, by |-> Node] \in Provided
        BY <2>1 DEF Provider, Provided
      <3> QED BY <1>0, <3>1 DEF Replacing
    <2>3. registered' \in [Token -> Provided]
      BY <1>5, <2>1, <2>2 DEF RegisterProvider
    <2> QED BY <1>0, <1>a, <1>5, <2>3 DEF RegisterProvider, registerFrame
  <1>6. CASE RegisterClasses
    <2>1. Node \in Module
      BY <1>6, NodeTyped DEF RegisterClasses, Registering
    <2>2. \A t \in NewClasses(Node) : t \in ClassToken
      <3>1. RangeOf(app.controllers[Node]) \subseteq ClassToken
        BY <1>0, <2>1, AppTypes, InRange
      <3> QED BY <3>1 DEF NewClasses, OwnClasses
    <2>3. \A t \in ClassToken : ClassProvider(t, Node) \in Provided
      <3>1. <<>> \in Seq(Token)
        OBVIOUS
      <3> QED BY <2>1, <3>1 DEF ClassProvider, Provided
    <2>4. registered' \in [Token -> Provided]
      BY <1>0, <1>6, <2>2, <2>3 DEF RegisterClasses
    <2>5. at' \in Nat \ {0}
      BY <1>0, <1>6 DEF RegisterClasses
    <2> QED BY <1>0, <1>a, <1>6, <2>4, <2>5 DEF RegisterClasses, registerFrame
  <1>7. CASE EnterNode
    <2>1. Node \in Module
      BY <1>7, NodeTyped DEF EnterNode
    <2>2. BadExports \subseteq Finding
      <3>1. app.exports[Node] \subseteq Token
        BY <1>0, <2>1, AppTypes
      <3> QED BY <2>1, <3>1 DEF BadExports, Diagnostic, Finding
    <2>3. OwnTokens(Node) \subseteq Token
      BY <1>0, <2>1, OwnTyped
    <2>4. Exported(Node) \subseteq Token
      <3>1. RangeOf(app.imports[Node]) \subseteq Module
        BY <1>0, <2>1, AppTypes, InRange
      <3>2. \A n \in RangeOf(app.imports[Node]) : app.exports[n] \subseteq Token
        BY <1>0, <3>1, AppTypes
      <3> QED BY <3>2 DEF Exported
    <2>5. work' \in Seq(Pending)
      BY <1>0, <1>7, <2>1, ConsumersHave DEF EnterNode, Pending
    <2> QED BY <1>0, <1>a, <1>7, <2>2, <2>3, <2>4, <2>5 DEF EnterNode, frame
  <1>8. CASE CheckVisible
    BY <1>0, <1>a, <1>8, TopCheck DEF CheckVisible, frame
  <1>9. ASSUME NEW type \in {"invalid_export", "export_violation", "missing_dependency"},
               Checking, Report(type)
        PROVE  /\ Declared(app)' /\ walks' \in Seq(Frame) /\ resolving' \subseteq Module
               /\ graph' \in Seq(Module) /\ registered' \in [Token -> Provided]
               /\ at' \in Nat \ {0} /\ member' \in Nat \ {0} /\ visible' \subseteq Token
               /\ work' \in Seq(Pending) /\ diagnostics' \subseteq Finding
    <2>1. Node \in Module
      BY <1>9, NodeTyped DEF Checking
    <2>2. Diagnostic(type, Head(work).consumer, Dep) \in Finding
      BY <1>9, <2>1, TopCheck DEF Diagnostic, Finding
    <2> QED BY <1>0, <1>a, <1>9, <2>2, TopCheck DEF Report, frame
  <1>10. CASE CheckOwned
    BY <1>9, <1>10 DEF CheckOwned, Hidden
  <1>11. CASE CheckMissing
    BY <1>9, <1>11 DEF CheckMissing, Hidden
  <1>12. CASE CheckAdopt
    <2>1. Node \in Module /\ Dep \in ClassToken /\ Dep \in Token
      BY <1>12, NodeTyped, TopCheck DEF CheckAdopt, Hidden, Checking
    <2>2. ClassDeps[Dep] \in Seq(Token)
      BY <2>1, GraphAssumption
    <2>3. Check(Dep, ClassDeps[Dep]) \in Pending /\ ClassProvider(Dep, Node) \in Provided
      <3>1. <<>> \in Seq(Token)
        OBVIOUS
      <3> QED BY <2>1, <2>2, <3>1 DEF Check, ClassProvider, Pending, Provided
    <2>4. work' \in Seq(Pending)
      <3>1. Checked \in Seq(Pending)
        BY <1>12, TopCheck DEF CheckAdopt, Hidden
      <3> QED BY <1>12, <2>3, <3>1, Pushed DEF CheckAdopt, AdoptedChecks
    <2>5. registered' \in [Token -> Provided]
      BY <1>0, <1>12, <2>3 DEF CheckAdopt
    <2> QED BY <1>0, <1>a, <1>12, <2>1, <2>4, <2>5 DEF CheckAdopt, frame
  <1>13. CASE CheckRuntime
    BY <1>0, <1>a, <1>13, TopCheck DEF CheckRuntime, Hidden, frame
  <1>14. CASE CheckReturn
    BY <1>0, <1>a, <1>14, Dropped DEF CheckReturn, frame
  <1>15. CASE LeaveNode
    BY <1>0, <1>a, <1>15 DEF LeaveNode, frame
  <1>16. CASE Later
    <2>1. registered' \in [Token -> Provided]
      <3>1. [NotRegistered EXCEPT !.by = Root] \in Provided
        <4>1. <<>> \in Seq(Token) /\ Root \in Module
          BY GraphAssumption
        <4> QED BY <4>1 DEF NotRegistered, Provided
      <3> QED BY <1>0, <1>16, <3>1, LaterSteps DEF WithSender
    <2> QED BY <1>0, <1>a, <1>16, <2>1, LaterSteps
  <1> QED BY <1>1, <1>2, <1>3, <1>4, <1>5, <1>6, <1>7, <1>8, <1>10, <1>11, <1>12, <1>13,
             <1>14, <1>15, <1>16, Steps

-----------------------------------------------------------------------------
(* Phases and the walk.                                                    *)

(* Every step keeps PhaseInv.                                              *)
LEMMA PhaseStep ==
  ASSUME GraphTypeOK, PhaseInv, WalkInv, [Next]_vars
  PROVE  PhaseInv'
  <1>0. /\ at \in Nat \ {0} /\ member \in Nat \ {0} /\ graph \in Seq(Module)
    BY DEF GraphTypeOK
  <1> USE DEF PhaseInv, Phases
  <1>1. CASE WalkSeen \/ WalkCircular \/ WalkDown
    BY <1>1 DEF WalkSeen, WalkCircular, WalkDown, MoreImports, loops, Registered
  <1>2. CASE WalkDone
    <2>1. Len(graph') \in Nat \ {0}
      <3>1. Top.module \in Module
        BY <1>2, TopFrame DEF WalkDone
      <3> QED BY <1>0, <1>2, <3>1, RangeAppend DEF WalkDone
    <2> QED BY <1>2, <2>1 DEF WalkDone, loops, Registered
  <1>3. CASE RegisterProvider
    BY <1>3 DEF RegisterProvider, Registering, registerFrame
  <1>4. CASE RegisterClasses
    <2>1. Len(graph) \in Nat
      BY <1>0
    <2> QED BY <1>0, <1>4, <2>1 DEF RegisterClasses, Registering, registerFrame
  <1>5. CASE EnterNode
    BY <1>5 DEF EnterNode, frame
  <1>6. CASE CheckVisible \/ CheckAdopt \/ CheckRuntime \/ CheckReturn
    BY <1>6 DEF CheckVisible, CheckAdopt, CheckRuntime, CheckReturn, Hidden, Checking, frame
  <1>7. CASE CheckOwned \/ CheckMissing
    BY <1>7 DEF CheckOwned, CheckMissing, Report, Hidden, Checking, frame
  <1>8. CASE LeaveNode
    <2>1. Len(graph) \in Nat
      BY <1>0
    <2> QED BY <1>0, <1>8, <2>1 DEF LeaveNode, Verdict, frame
  <1>9. CASE Later
    <2>1. CASE UNCHANGED <<phase, at, member, registered>>
      BY <1>0, <1>9, <2>1, LaterSteps DEF Registered
    <2>2. CASE phase \in {"valid", "scan", "bind"} /\ phase' \in {"scan", "bind", "running"}
      BY <1>0, <1>9, <2>2, LaterSteps
    <2> QED BY <1>0, <1>9, <2>1, <2>2, LaterSteps
  <1> QED BY <1>1, <1>2, <1>3, <1>4, <1>5, <1>6, <1>7, <1>8, <1>9, Steps

(* Only the walk changes the calls of walk and the graph.                  *)
LEMMA WalkFrame ==
  ASSUME GraphTypeOK, PhaseInv, [Next]_vars, ~(WalkSeen \/ WalkDown \/ WalkDone)
  PROVE  /\ UNCHANGED <<app, walks, resolving, graph>>
         /\ phase' = "walk" => phase = "walk"
  <1> USE DEF PhaseInv, Phases
  <1>0. at \in Nat \ {0} /\ member \in Nat \ {0}
    BY DEF GraphTypeOK
  <1>1. CASE WalkCircular
    BY <1>1 DEF WalkCircular
  <1>2. CASE RegisterProvider \/ RegisterClasses
    BY <1>2 DEF RegisterProvider, RegisterClasses, Registering, registerFrame
  <1>3. CASE EnterNode \/ CheckVisible \/ CheckAdopt \/ CheckRuntime \/ CheckReturn
    BY <1>3 DEF EnterNode, CheckVisible, CheckAdopt, CheckRuntime, CheckReturn, Hidden,
                Checking, frame
  <1>4. CASE CheckOwned \/ CheckMissing
    BY <1>4 DEF CheckOwned, CheckMissing, Report, Hidden, Checking, frame
  <1>5. CASE LeaveNode
    BY <1>5 DEF LeaveNode, Verdict, frame
  <1>6. CASE Later
    BY <1>0, <1>6, LaterSteps
  <1> QED BY <1>1, <1>2, <1>3, <1>4, <1>5, <1>6, Steps

(* The part of ImportsFirst that is about the order.                       *)
Ordered ==
  \A i \in 1..Len(graph) : \A n \in RangeOf(app.imports[graph[i]]) :
    \E j \in 1..(i - 1) : graph[j] = n
Distinct == \A i, j \in 1..Len(graph) : graph[i] = graph[j] => i = j

LEMMA ImportsFirstIs ==
  ASSUME GraphTypeOK
  PROVE  ImportsFirst <=> Distinct /\ Ordered
  <1>1. DOMAIN graph = 1..Len(graph)
    BY DEF GraphTypeOK
  <1> QED BY <1>1 DEF ImportsFirst, Distinct, Ordered

(* Every step keeps what WalkInv says of the calls, and the order.         *)
LEMMA WalkStep ==
  ASSUME GraphTypeOK, PhaseInv, WalkInv, Distinct, Ordered, [Next]_vars
  PROVE  WalkInv' /\ Distinct' /\ Ordered'
  <1>0. /\ graph \in Seq(Module) /\ walks \in Seq(Frame)
        /\ DOMAIN graph = 1..Len(graph) /\ Len(graph) \in Nat
        /\ \A k \in 1..Len(walks) : walks[k].module \in Module /\ walks[k].next \in Nat \ {0}
    <2>1. graph \in Seq(Module) /\ walks \in Seq(Frame)
      BY DEF GraphTypeOK, Frame
    <2>2. \A k \in 1..Len(walks) : walks[k] \in Frame
      BY <2>1
    <2> QED BY <2>1, <2>2 DEF Frame
  <1>1. CASE WalkSeen
    <2> DEFINE w == Advanced
    <2>1. /\ w[1] = [module |-> Top.module, next |-> Top.next + 1]
          /\ \A k \in 2..Len(walks) : w[k] = walks[k]
          /\ Len(w) = Len(walks) /\ Len(walks) \in Nat \ {0} /\ Top = walks[1]
          /\ w \in Seq(Frame)
      BY <1>1, TopFrame DEF WalkSeen, MoreImports
    <2>2. /\ walks' = w /\ UNCHANGED <<app, phase, resolving, graph>> /\ phase = "walk"
          /\ Top.next <= Len(app.imports[Top.module]) /\ NextImport \in Visited
      BY <1>1 DEF WalkSeen, MoreImports, Seen
    <2> HIDE DEF w
    <2>3. Calls(walks, resolving, Visited, app.imports)
      BY <2>2 DEF WalkInv
    <2>4. \A k \in 1..Len(w) : w[k].module = walks[k].module
      BY <2>1
    <2>5. Len(app.imports[Top.module]) \in Nat
      BY <2>1, TopFrame
    <2>6. Calls(w, resolving, Visited, app.imports)
      <3>1. /\ w # <<>>
            /\ \A k \in 1..Len(w) : w[k].module \in resolving /\ w[k].module \notin Visited
            /\ \A j, k \in 1..Len(w) : w[j].module = w[k].module => j = k
        BY <2>1, <2>3, <2>4 DEF Calls
      <3>2. /\ w[1].next <= Len(app.imports[w[1].module]) + 1
            /\ \A i \in 1..(w[1].next - 1) : app.imports[w[1].module][i] \in Visited
        BY SMTT(30), <1>0, <2>1, <2>2, <2>3, <2>5 DEF Calls, NextImport
      <3>3. ASSUME NEW k \in 2..Len(w)
            PROVE  /\ w[k].next <= Len(app.imports[w[k].module]) + 1
                   /\ \A i \in 1..(w[k].next - 1) :
                        \/ app.imports[w[k].module][i] \in Visited
                        \/ /\ k > 1 /\ i = w[k].next - 1
                           /\ app.imports[w[k].module][i] = w[k - 1].module
        <4>1. w[k] = walks[k] /\ k \in 1..Len(walks) /\ k - 1 \in 1..Len(w)
          BY <2>1
        <4>2. w[k - 1].module = walks[k - 1].module
          BY <2>4, <4>1
        <4> QED BY <2>3, <4>1, <4>2 DEF Calls
      <3>4. \A k \in 1..Len(w) : k = 1 \/ k \in 2..Len(w)
        BY <2>1
      <3> QED BY <3>1, <3>2, <3>3, <3>4 DEF Calls
    <2> QED BY <2>2, <2>6 DEF WalkInv, Distinct, Ordered, Visited, RangeOf
  <1>2. CASE WalkDown
    <2> DEFINE a == Advanced
               w == <<Call(NextImport)>> \o a
               R == resolving \cup {NextImport}
    <2>1. /\ a[1] = [module |-> Top.module, next |-> Top.next + 1]
          /\ \A k \in 2..Len(walks) : a[k] = walks[k]
          /\ Len(a) = Len(walks) /\ Len(walks) \in Nat \ {0} /\ Top = walks[1]
          /\ a \in Seq(Frame) /\ NextImport \in Module
          /\ app.imports[NextImport] \in Seq(Module)
          /\ app.imports[Top.module] \in Seq(Module)
      <3>1. walks # <<>> /\ MoreImports /\ Declared(app)
        BY <1>2 DEF WalkDown, MoreImports, GraphTypeOK
      <3>2. NextImport \in Module
        BY <3>1, TopFrame
      <3> QED BY <3>1, <3>2, TopFrame, AppTypes
    <2>2. /\ walks' = w /\ UNCHANGED <<app, phase, graph>> /\ phase = "walk" /\ resolving' = R
          /\ Top.next <= Len(app.imports[Top.module])
          /\ NextImport \notin Visited /\ NextImport \notin resolving
          /\ NextImport = app.imports[Top.module][Top.next]
      BY <1>2 DEF WalkDown, MoreImports, NextImport
    <2>3. Calls(walks, resolving, Visited, app.imports)
      BY <2>2 DEF WalkInv
    <2>4. /\ Len(w) = Len(walks) + 1 /\ w[1] = Call(NextImport)
          /\ \A k \in 2..(Len(walks) + 1) : w[k] = a[k - 1]
      <3>1. Call(NextImport) \in Frame
        BY <2>1 DEF Call, Frame
      <3> HIDE DEF a
      <3> QED BY <2>1, <3>1, Pushed
    <2> HIDE DEF w, a
    <2>5. \A k \in 2..(Len(walks) + 1) : w[k].module = walks[k - 1].module
      <3>1. \A k \in 1..Len(walks) : a[k].module = walks[k].module
        BY <2>1
      <3> QED BY <2>1, <2>4, <3>1
    <2>6. w[1].module = NextImport /\ w[1].next = 1
      BY <2>4 DEF Call
    <2>7. Calls(w, R, Visited, app.imports)
      <3>1. \A k \in 1..Len(w) : k = 1 \/ (k \in 2..(Len(walks) + 1) /\ k - 1 \in 1..Len(walks))
        BY <2>1, <2>4
      <3>2. w # <<>> /\ \A k \in 1..Len(w) : w[k].module \in R /\ w[k].module \notin Visited
        <4>1. w # <<>>
          BY <2>1, <2>4
        <4>2. ASSUME NEW k \in 1..Len(w), k # 1
              PROVE  w[k].module \in resolving /\ w[k].module \notin Visited
          <5>1. PICK h \in 1..Len(walks) : h = k - 1 /\ k \in 2..(Len(walks) + 1)
            BY <3>1, <4>2
          <5>2. w[k].module = walks[h].module
            BY <2>5, <5>1
          <5> QED BY <2>3, <5>2 DEF Calls
        <4> QED BY <2>2, <2>6, <4>1, <4>2
      <3>3. ASSUME NEW j \in 1..Len(w), NEW k \in 1..Len(w), w[j].module = w[k].module
            PROVE  j = k
        <4>1. CASE j = 1 /\ k # 1
          BY SMTT(30), <2>2, <2>3, <2>5, <2>6, <3>1, <3>3, <4>1 DEF Calls
        <4>2. CASE j # 1 /\ k = 1
          BY <2>2, <2>3, <2>5, <2>6, <3>1, <3>3, <4>2 DEF Calls
        <4>3. CASE j # 1 /\ k # 1
          <5>1. j - 1 = k - 1
            BY SMTT(30), <2>3, <2>5, <3>1, <3>3, <4>3 DEF Calls
          <5> QED BY <5>1
        <4> QED BY <4>1, <4>2, <4>3
      <3>4. /\ w[1].next <= Len(app.imports[w[1].module]) + 1
            /\ 1..(w[1].next - 1) = {}
        BY <2>1, <2>6
      <3>5. /\ w[2].next <= Len(app.imports[w[2].module]) + 1
            /\ \A i \in 1..(w[2].next - 1) :
                 \/ app.imports[w[2].module][i] \in Visited
                 \/ i = w[2].next - 1 /\ app.imports[w[2].module][i] = w[1].module
        <4>1. w[2].module = Top.module /\ w[2].next = Top.next + 1
          BY <2>1, <2>4
        <4>2. Top.next \in Nat \ {0} /\ Len(app.imports[Top.module]) \in Nat
          BY <1>0, <2>1
        <4>3. \A i \in 1..(Top.next - 1) : app.imports[Top.module][i] \in Visited
          BY <2>1, <2>3, <4>2 DEF Calls
        <4> QED BY <2>2, <2>6, <4>1, <4>2, <4>3
      <3>6. ASSUME NEW k \in 3..Len(w)
            PROVE  /\ w[k].next <= Len(app.imports[w[k].module]) + 1
                   /\ \A i \in 1..(w[k].next - 1) :
                        \/ app.imports[w[k].module][i] \in Visited
                        \/ /\ i = w[k].next - 1
                           /\ app.imports[w[k].module][i] = w[k - 1].module
        <4>1. k - 1 \in 2..Len(walks) /\ k \in 2..(Len(walks) + 1) /\ k - 1 \in 2..(Len(walks) + 1)
          BY <2>1, <2>4
        <4>2. PICK h \in 2..Len(walks) : h = k - 1 /\ h \in 1..Len(walks)
          BY <4>1
        <4>3. w[k] = walks[h] /\ w[k - 1].module = walks[h - 1].module
          BY <2>1, <2>4, <2>5, <4>1, <4>2
        <4>4. /\ walks[h].next <= Len(app.imports[walks[h].module]) + 1
              /\ \A i \in 1..(walks[h].next - 1) :
                   \/ app.imports[walks[h].module][i] \in Visited
                   \/ /\ i = walks[h].next - 1
                      /\ app.imports[walks[h].module][i] = walks[h - 1].module
          BY <2>3, <4>2 DEF Calls
        <4> QED BY <4>3, <4>4
      <3>7. \A k \in 1..Len(w) : k = 1 \/ k = 2 \/ k \in 3..Len(w)
        BY <2>1, <2>4
      <3> HIDE DEF R
      <3>8. ASSUME NEW k \in 1..Len(w)
            PROVE  /\ w[k].next <= Len(app.imports[w[k].module]) + 1
                   /\ \A i \in 1..(w[k].next - 1) :
                        \/ app.imports[w[k].module][i] \in Visited
                        \/ /\ k > 1 /\ i = w[k].next - 1
                           /\ app.imports[w[k].module][i] = w[k - 1].module
        <4>1. CASE k = 1
          BY <3>4, <4>1
        <4>2. CASE k = 2
          BY <3>5, <4>2
        <4>3. CASE k \in 3..Len(w)
          BY <3>6, <4>3
        <4> QED BY <3>7, <4>1, <4>2, <4>3
      <3> QED BY <3>2, <3>3, <3>8 DEF Calls
    <2> QED BY <2>2, <2>7 DEF WalkInv, Distinct, Ordered, Visited, RangeOf
  <1>3. CASE WalkDone
    <2> DEFINE m == Top.module
               w == Tail(walks)
               g == Append(graph, m)
               R == resolving \ {m}
    <2>1. /\ Len(walks) \in Nat \ {0} /\ Top = walks[1] /\ m \in Module /\ Top.next \in Nat \ {0}
          /\ app.imports[m] \in Seq(Module) /\ walks # <<>>
      BY <1>3, TopFrame DEF WalkDone
    <2>2. /\ walks' = w /\ graph' = g /\ resolving' = R /\ app' = app /\ phase = "walk"
          /\ Top.next > Len(app.imports[m])
          /\ phase' = "walk" => w # <<>>
      BY <1>3 DEF WalkDone
    <2>3. Calls(walks, resolving, Visited, app.imports)
      BY <2>2 DEF WalkInv
    <2>4. /\ w \in Seq(Frame) /\ Len(w) = Len(walks) - 1
          /\ \A k \in 1..Len(w) : w[k] = walks[k + 1]
      BY <1>0, <2>1, Dropped
    <2>5. /\ RangeOf(g) = Visited \cup {m} /\ g \in Seq(Module) /\ Len(g) = Len(graph) + 1
          /\ g[Len(graph) + 1] = m
          /\ \A i \in 1..Len(graph) : g[i] = graph[i]
      BY <1>0, <2>1, RangeAppend DEF Visited
    <2> HIDE DEF w, g, m
    <2>6. m \in resolving /\ m \notin Visited /\ walks[1].module = m
      BY <2>1, <2>3 DEF Calls, m
    <2>7. \A n \in RangeOf(app.imports[m]) : n \in Visited
      <3>1. \A i \in 1..(Top.next - 1) : app.imports[m][i] \in Visited
        BY <2>1, <2>3, <2>6 DEF Calls
      <3>2. \A i \in 1..Len(app.imports[m]) : i \in 1..(Top.next - 1)
        BY <2>1, <2>2
      <3> QED BY <2>1, <3>1, <3>2, InRange
    <2>8. Distinct'
      <3>1. \A i \in 1..Len(graph) : graph[i] # m
        BY <1>0, <2>6, InRange DEF Visited
      <3>2. \A i \in 1..Len(g) : i \in 1..Len(graph) \/ i = Len(graph) + 1
        BY <1>0, <2>5
      <3>3. ASSUME NEW i \in 1..Len(g), NEW j \in 1..Len(g), g[i] = g[j] PROVE i = j
        <4>1. CASE i \in 1..Len(graph) /\ j \in 1..Len(graph)
          BY <2>5, <3>3, <4>1 DEF Distinct
        <4>2. CASE i = Len(graph) + 1 \/ j = Len(graph) + 1
          BY <2>5, <3>1, <3>2, <3>3, <4>2
        <4> QED BY <3>2, <4>1, <4>2
      <3> QED BY <2>2, <3>3 DEF Distinct
    <2>9. Ordered'
      <3>1. ASSUME NEW n \in RangeOf(app.imports[m]) PROVE \E j \in 1..Len(graph) : g[j] = n
        BY <1>0, <2>5, <2>7, InRange DEF Visited
      <3>2. ASSUME NEW i \in 1..Len(graph), NEW n \in RangeOf(app.imports[g[i]])
            PROVE  \E j \in 1..(i - 1) : g[j] = n
        <4>1. PICK j \in 1..(i - 1) : graph[j] = n
          BY <2>5 DEF Ordered
        <4> QED BY <1>0, <2>5, <4>1
      <3>3. \A i \in 1..Len(g) : i \in 1..Len(graph) \/ i = Len(graph) + 1
        BY <1>0, <2>5
      <3>4. Len(graph) + 1 - 1 = Len(graph)
        BY <1>0
      <3>5. ASSUME NEW i \in 1..Len(g), NEW n \in RangeOf(app.imports[g[i]])
            PROVE  \E j \in 1..(i - 1) : g[j] = n
        <4>1. CASE i \in 1..Len(graph)
          BY <3>2, <4>1
        <4>2. CASE i = Len(graph) + 1
          BY <2>5, <3>1, <3>4, <4>2
        <4> QED BY <3>3, <4>1, <4>2
      <3>6. Ordered' <=> \A i \in 1..Len(graph') : \A n \in RangeOf(app'.imports[graph'[i]]) :
                          \E j \in 1..(i - 1) : graph'[j] = n
        BY DEF Ordered
      <3>7. graph' = g /\ app' = app
        BY <2>2
      <3> QED BY <3>5, <3>6, <3>7
    <2>10. ASSUME w # <<>> PROVE Calls(w, R, RangeOf(g), app.imports)
      <3>1. \A k \in 1..Len(w) : k + 1 \in 2..Len(walks) /\ k + 1 \in 1..Len(walks)
        BY <2>1, <2>4
      <3>2. ASSUME NEW k \in 1..Len(w)
            PROVE  /\ w[k].module # m /\ w[k].module \in resolving
                   /\ w[k].module \notin Visited
        <4>1. PICK h \in 2..Len(walks) : h = k + 1 /\ h \in 1..Len(walks)
          BY <3>1
        <4>2. w[k].module = walks[h].module /\ h # 1 /\ 1 \in 1..Len(walks)
          BY <2>1, <2>4, <4>1
        <4> QED BY <2>3, <2>6, <4>1, <4>2 DEF Calls
      <3>3. \A k \in 1..Len(w) : w[k].module \in R /\ w[k].module \notin RangeOf(g)
        BY <2>5, <3>2
      <3>4. ASSUME NEW j \in 1..Len(w), NEW k \in 1..Len(w), w[j].module = w[k].module
            PROVE  j = k
        <4>1. j + 1 = k + 1
          BY SMTT(30), <2>3, <2>4, <3>1, <3>4 DEF Calls
        <4> QED BY <4>1
      <3>5. ASSUME NEW k \in 1..Len(w)
            PROVE  /\ w[k].next <= Len(app.imports[w[k].module]) + 1
                   /\ \A i \in 1..(w[k].next - 1) :
                        \/ app.imports[w[k].module][i] \in RangeOf(g)
                        \/ /\ k > 1 /\ i = w[k].next - 1
                           /\ app.imports[w[k].module][i] = w[k - 1].module
        <4>1. w[k] = walks[k + 1] /\ k + 1 \in 1..Len(walks) /\ (k + 1) - 1 = k
          BY <2>4, <3>1
        <4>2. /\ w[k].next <= Len(app.imports[w[k].module]) + 1
              /\ \A i \in 1..(w[k].next - 1) :
                   \/ app.imports[w[k].module][i] \in Visited
                   \/ i = w[k].next - 1 /\ app.imports[w[k].module][i] = walks[k].module
          <5>1. PICK h \in 1..Len(walks) : h = k + 1 /\ w[k] = walks[h] /\ h - 1 = k
            BY <4>1
          <5> QED BY <2>3, <5>1 DEF Calls
        <4>3. CASE k = 1
          BY <2>5, <2>6, <4>2, <4>3
        <4>4. CASE k > 1
          <5>1. k - 1 \in 1..Len(w) /\ (k - 1) + 1 = k
            BY <4>4
          <5>2. w[k - 1] = walks[k]
            BY <2>4, <5>1
          <5> QED BY <2>5, <4>2, <4>4, <5>2
        <4> QED BY <4>3, <4>4
      <3> HIDE DEF R
      <3> QED BY <2>10, <3>3, <3>4, <3>5 DEF Calls
    <2> QED BY <2>2, <2>8, <2>9, <2>10 DEF WalkInv, Visited
  <1>4. CASE ~(WalkSeen \/ WalkDown \/ WalkDone)
    <2>1. UNCHANGED <<app, walks, resolving, graph>> /\ (phase' = "walk" => phase = "walk")
      BY <1>4, WalkFrame
    <2> QED BY <2>1 DEF WalkInv, Distinct, Ordered, Visited, RangeOf
  <1> QED BY <1>1, <1>2, <1>3, <1>4

-----------------------------------------------------------------------------
(* The inductive invariant of the walk and the types.                      *)
IInv == GraphTypeOK /\ PhaseInv /\ WalkInv /\ Distinct /\ Ordered

LEMMA InitIInv == RuntimeInit => IInv
  <1> SUFFICES ASSUME RuntimeInit PROVE IInv
    OBVIOUS
  <1> USE GraphAssumption
  <1>0. Init
    BY DEF RuntimeInit
  <1>1. /\ walks = <<[module |-> Root, next |-> 1]>> /\ resolving = {Root} /\ graph = <<>>
        /\ phase = "walk" /\ at = 1 /\ member = 1 /\ work = <<>> /\ Root \in Module
        /\ visible = {} /\ diagnostics = {} /\ Declared(app)
        /\ registered = [t \in Token |-> NotRegistered]
    BY <1>0 DEF Init, Call
  <1>2. GraphTypeOK
    <2>1. walks \in Seq([module: Module, next: Nat \ {0}])
      BY <1>1
    <2>2. NotRegistered \in Provided
      <3>1. <<>> \in Seq(Token)
        OBVIOUS
      <3> QED BY <3>1 DEF NotRegistered, Provided
    <2> QED BY <1>1, <2>1, <2>2 DEF GraphTypeOK, Provided
  <1>3. PhaseInv
    BY <1>1 DEF PhaseInv, Phases, Registered, NotRegistered
  <1>4. WalkInv
    <2>1. Len(walks) = 1 /\ walks[1].module = Root /\ walks[1].next = 1 /\ walks # <<>>
      BY <1>1
    <2>2. Len(app.imports[Root]) \in Nat
      BY <1>1, AppTypes
    <2>3. Visited = {}
      BY <1>1 DEF Visited, RangeOf
    <2> QED BY <1>1, <2>1, <2>2, <2>3 DEF WalkInv, Calls
  <1>5. Distinct /\ Ordered
    BY <1>1 DEF Distinct, Ordered
  <1> QED BY <1>2, <1>3, <1>4, <1>5 DEF IInv

LEMMA IInvStep == IInv /\ [Next]_vars => IInv'
  BY TypeStep, PhaseStep, WalkStep DEF IInv

(* The parts of the state keep their shapes, through the whole start.      *)
THEOREM GraphTypeCorrect == Spec => []GraphTypeOK
  <1>1. IInv => GraphTypeOK
    BY DEF IInv
  <1> QED BY <1>1, InitIInv, IInvStep, PTL DEF Spec

(* Every module is put in the Map once, after all the modules it imports.  *)
THEOREM OrderCorrect == Spec => []ImportsFirst
  <1>1. IInv => ImportsFirst
    BY ImportsFirstIs DEF IInv
  <1> QED BY <1>1, InitIInv, IInvStep, PTL DEF Spec

-----------------------------------------------------------------------------
(* What is registered can be resolved.                                     *)

RegSet == {t \in Token : Registered(t)}

(* Every token a registered node owns has a provider.                      *)
OwnInv ==
  /\ phase = "register" =>
       /\ \A j \in 1..(at - 1) : OwnTokens(graph[j]) \subseteq RegSet
       /\ \A i \in 1..Len(Providers) : i < member => Providers[i].provide \in RegSet
  /\ phase \in {"validate", "check"} =>
       \A j \in 1..Len(graph) : OwnTokens(graph[j]) \subseteq RegSet

(* The checks in progress are of the node being validated.                 *)
WorkInv == phase # "check" => work = <<>>

(* The validated nodes export only what they own.                          *)
Entered(j) ==
  \/ phase = "validate" /\ j < at
  \/ phase = "check" /\ j <= at
ExpInv ==
  diagnostics = {} => \A j \in 1..Len(graph) :
    Entered(j) => app.exports[graph[j]] \subseteq OwnTokens(graph[j])

(* So what a node sees has a provider.                                     *)
VisInv == phase = "check" /\ diagnostics = {} => visible \subseteq RegSet

(* What a provider depends on will be checked, when its node is or by the  *)
(* checks in progress, unless it can be resolved.                          *)
Pend(d, w) == \E k \in 1..Len(w) : d \in RangeOf(w[k].deps)
Fine(d) == d \in RegSet \/ d \in RuntimeToken \/ Pend(d, work)
Consumes(m, deps) == \E j \in 1..Len(Consumers(m)) : Consumers(m)[j].deps = deps
Ahead(i) ==
  \/ phase = "register"
  \/ phase = "validate" /\ i >= at
  \/ phase = "check" /\ i > at
Awaited(p) ==
  Consumes(p.by, DependencyTokens(p)) /\ \E i \in 1..Len(graph) : graph[i] = p.by /\ Ahead(i)
Settled(p) == Awaited(p) \/ \A d \in RangeOf(DependencyTokens(p)) : Fine(d)
DepsInv == diagnostics = {} => \A t \in RegSet : Settled(registered[t])

ResInv == OwnInv /\ WorkInv /\ ExpInv /\ VisInv /\ DepsInv

-----------------------------------------------------------------------------
(* What does not change, and what only grows.                              *)

Checks ==
  CheckVisible \/ CheckOwned \/ CheckAdopt \/ CheckRuntime \/ CheckMissing \/ CheckReturn

(* A check is of the node being validated.                                 *)
LEMMA CheckFrame ==
  ASSUME Checks
  PROVE  /\ UNCHANGED <<app, graph, phase, at>> /\ phase = "check"
         /\ diagnostics' = {} => diagnostics = {} /\ ~CheckOwned /\ ~CheckMissing
  <1>1. CASE CheckOwned \/ CheckMissing
    BY <1>1 DEF CheckOwned, CheckMissing, Report, Hidden, Checking, frame
  <1>2. CASE CheckVisible \/ CheckAdopt \/ CheckRuntime \/ CheckReturn
    <2>1. /\ UNCHANGED <<app, graph, phase, at>> /\ phase = "check"
          /\ diagnostics' = diagnostics
      BY <1>2 DEF CheckVisible, CheckAdopt, CheckRuntime, CheckReturn, Hidden, Checking, frame
    <2>2. CASE CheckOwned \/ CheckMissing
      BY <1>1, <2>2
    <2> QED BY <2>1, <2>2
  <1> QED BY <1>1, <1>2 DEF Checks

(* What is read of an application stays what it is.                        *)
LEMMA SameMeaning ==
  ASSUME app' = app, NEW m
  PROVE  /\ OwnTokens(m)' = OwnTokens(m) /\ Consumers(m)' = Consumers(m)
         /\ \A deps : Consumes(m, deps)' <=> Consumes(m, deps)
  BY DEF OwnTokens, OwnClasses, Consumers, Check, DependencyTokens, Consumes

(* The other steps of the graph leave it as it is.                         *)
Walking == WalkSeen \/ WalkCircular \/ WalkDown \/ WalkDone
LEMMA WalkingFrame ==
  ASSUME Walking
  PROVE  /\ phase = "walk" /\ phase' \in {"walk", "circular", "register"}
         /\ UNCHANGED <<app, registered, at, member, work, visible, diagnostics>>
  BY DEF Walking, WalkSeen, WalkCircular, WalkDown, WalkDone, MoreImports, loops

LEMMA Cases ==
  ASSUME [Next]_vars
  PROVE  \/ Walking \/ RegisterProvider \/ RegisterClasses \/ EnterNode \/ Checks
         \/ LeaveNode \/ Later
  BY Steps DEF Walking, Checks

(* A token that has a provider keeps one, and the application stays.       *)
LEMMA RegGrows ==
  ASSUME GraphTypeOK, PhaseInv, [Next]_vars
  PROVE  app' = app /\ RegSet \subseteq RegSet'
  <1> USE DEF RegSet, Registered
  <1>0. registered \in [Token -> Provided] /\ at \in Nat \ {0} /\ member \in Nat \ {0}
    BY DEF GraphTypeOK, Provided
  <1>1. CASE Walking
    BY <1>1, WalkingFrame
  <1>2. CASE RegisterProvider
    <2>1. Node # "none"
      BY <1>2, NodeTyped, GraphAssumption DEF RegisterProvider, Registering
    <2>2. \A p : RegSet \subseteq {t \in Token : Replacing(p)[t].by # "none"}
      BY <1>0, <2>1 DEF Replacing
    <2> QED BY <1>2, <2>2 DEF RegisterProvider, registerFrame
  <1>3. CASE RegisterClasses
    BY <1>0, <1>3 DEF RegisterClasses, registerFrame, NewClasses
  <1>4. CASE EnterNode \/ LeaveNode
    BY <1>4 DEF EnterNode, LeaveNode, frame
  <1>5. CASE CheckAdopt
    <2>1. Node # "none"
      BY <1>5, NodeTyped, GraphAssumption DEF CheckAdopt, Hidden, Checking
    <2> QED BY <1>0, <1>5, <2>1 DEF CheckAdopt, frame, ClassProvider
  <1>6. CASE Checks /\ ~CheckAdopt
    BY <1>6 DEF Checks, CheckVisible, CheckOwned, CheckRuntime, CheckMissing, CheckReturn,
                Report, frame
  <1>7. CASE Later
    <2>1. Root # "none"
      BY GraphAssumption
    <2>2. RegSet \subseteq {t \in Token : WithSender[t].by # "none"}
      BY <1>0, <2>1 DEF WithSender, NotRegistered
    <2> QED BY <1>0, <1>7, <2>2, LaterSteps
  <1> QED BY <1>1, <1>2, <1>3, <1>4, <1>5, <1>6, <1>7, Cases

-----------------------------------------------------------------------------
(* Each part of ResInv is kept.                                            *)

LEMMA OwnStep ==
  ASSUME GraphTypeOK, PhaseInv, OwnInv, [Next]_vars
  PROVE  OwnInv'
  <1>0. /\ at \in Nat \ {0} /\ member \in Nat \ {0} /\ graph \in Seq(Module)
        /\ registered \in [Token -> Provided] /\ Declared(app) /\ Len(graph) \in Nat
    BY DEF GraphTypeOK, Provided
  <1>a. app' = app /\ RegSet \subseteq RegSet'
    BY RegGrows
  <1>b. \A m : OwnTokens(m)' = OwnTokens(m)
    BY <1>a, SameMeaning
  <1>1. CASE Walking
    <2>1. at' = 1 /\ member' = 1 /\ phase' \notin {"validate", "check"}
      BY <1>1, WalkingFrame DEF PhaseInv
    <2> QED BY <2>1 DEF OwnInv
  <1>2. CASE RegisterProvider
    <2>1. /\ phase = "register" /\ UNCHANGED <<phase, at, graph>> /\ member' = member + 1
          /\ registered' = Replacing(Providers[member])
      BY <1>2 DEF RegisterProvider, Registering, registerFrame
    <2>2. /\ Node \in Module /\ Node # "none" /\ Providers \in Seq(Provider)
          /\ Providers[member] \in Provider
      <3>1. Node \in Module /\ Providers \in Seq(Provider)
        BY <2>1, NodeTyped
      <3>2. Providers[member] \in Provider
        BY <1>0, <1>2, <3>1 DEF RegisterProvider
      <3> QED BY <3>1, <3>2, GraphAssumption
    <2>3. Providers' = Providers
      BY <1>a, <2>1 DEF Providers, Node
    <2>4. Providers[member].provide \in RegSet'
      <3>1. ASSUME NEW p \in Provider
            PROVE  p.provide \in Token /\ Replacing(p)[p.provide].by # "none"
        BY <1>0, <2>2 DEF Provider, Replacing
      <3> QED BY <2>1, <2>2, <3>1 DEF RegSet, Registered
    <2>5. ASSUME NEW i \in 1..Len(Providers), i < member'
          PROVE  Providers[i].provide \in RegSet'
      <3>1. CASE i < member
        BY <1>a, <2>1, <3>1 DEF OwnInv
      <3>2. CASE i = member
        BY <2>4, <3>2
      <3>3. i < member \/ i = member
        BY <1>0, <2>1, <2>5
      <3> QED BY <3>1, <3>2, <3>3
    <2>6. \A j \in 1..(at - 1) : OwnTokens(graph[j]) \subseteq RegSet'
      BY <1>a, <2>1 DEF OwnInv
    <2> QED BY <1>b, <2>1, <2>3, <2>5, <2>6 DEF OwnInv
  <1>3. CASE RegisterClasses
    <2>1. /\ phase = "register" /\ graph' = graph /\ member' = 1 /\ member > Len(Providers)
          /\ registered' = [t \in Token |-> IF t \in NewClasses(Node) THEN ClassProvider(t, Node)
                                            ELSE registered[t]]
          /\ IF at < Len(graph) THEN at' = at + 1 /\ phase' = phase
                                ELSE at' = 1 /\ phase' = "validate"
      BY <1>3 DEF RegisterClasses, Registering, registerFrame
    <2>2. /\ Node \in Module /\ Node # "none" /\ Providers \in Seq(Provider) /\ at \in 1..Len(graph)
      BY <2>1, NodeTyped, GraphAssumption
    <2>3. \A i \in 1..Len(Providers) : Providers[i].provide \in RegSet'
      <3>1. \A i \in 1..Len(Providers) : i < member
        BY <1>0, <2>1, <2>2
      <3> QED BY <1>a, <2>1, <3>1 DEF OwnInv
    <2>4. OwnClasses(Node) \subseteq RegSet'
      <3>1. ASSUME NEW c \in OwnClasses(Node) PROVE c \in RegSet'
        <4>1. c \in Token
          BY <1>0, <2>2, OwnTyped, GraphAssumption
        <4>2. CASE Registered(c)
          BY <1>a, <4>1, <4>2 DEF RegSet
        <4>3. CASE ~Registered(c)
          BY <2>1, <2>2, <4>1, <4>3 DEF RegSet, Registered, NewClasses, ClassProvider
        <4> QED BY <4>2, <4>3
      <3> QED BY <3>1
    <2>5. OwnTokens(Node) \subseteq RegSet'
      <3>1. DOMAIN Providers = 1..Len(Providers) /\ Providers = app.providers[Node]
        BY <2>2 DEF Providers
      <3> QED BY <2>3, <2>4, <3>1 DEF OwnTokens
    <2>6. \A j \in 1..at : OwnTokens(graph[j]) \subseteq RegSet'
      <3>1. \A j \in 1..(at - 1) : OwnTokens(graph[j]) \subseteq RegSet'
        BY <1>a, <2>1 DEF OwnInv
      <3>2. \A j \in 1..at : j \in 1..(at - 1) \/ j = at
        BY <1>0
      <3> QED BY <2>5, <3>1, <3>2 DEF Node
    <2>7. CASE at < Len(graph)
      <3>1. at' = at + 1 /\ phase' = "register" /\ at' - 1 = at
        BY <1>0, <2>1, <2>7
      <3>2. \A i : ~(i \in Nat \ {0} /\ i < member')
        BY <2>1
      <3> QED BY <1>b, <2>1, <2>6, <3>1, <3>2 DEF OwnInv
    <2>8. CASE ~(at < Len(graph))
      <3>1. at = Len(graph) /\ phase' = "validate"
        BY <1>0, <2>1, <2>2, <2>8
      <3> QED BY <1>b, <2>1, <2>6, <3>1 DEF OwnInv
    <2> QED BY <2>7, <2>8
  <1>4. CASE EnterNode \/ Checks \/ LeaveNode
    <2>1. /\ phase \in {"validate", "check"} /\ phase' # "register" /\ graph' = graph
      <3>1. CASE Checks
        BY <3>1, CheckFrame
      <3>2. CASE EnterNode \/ LeaveNode
        BY <3>2 DEF EnterNode, LeaveNode, Verdict, frame
      <3> QED BY <1>4, <3>1, <3>2
    <2>2. \A j \in 1..Len(graph) : OwnTokens(graph[j]) \subseteq RegSet'
      BY <1>a, <2>1 DEF OwnInv
    <2> QED BY <1>b, <2>1, <2>2 DEF OwnInv
  <1>5. CASE Later
    <2>1. \/ phase' \in {"scan", "bind", "running"}
          \/ UNCHANGED <<phase, at, member, registered, graph>>
      BY <1>0, <1>5, LaterSteps
    <2>2. CASE phase' \in {"scan", "bind", "running"}
      BY <2>2 DEF OwnInv
    <2>3. CASE UNCHANGED <<phase, at, member, registered, graph>>
      <3>1. RegSet' = RegSet /\ Providers' = Providers
        BY <1>a, <2>3 DEF RegSet, Registered, Providers, Node
      <3> QED BY <1>b, <2>3, <3>1 DEF OwnInv
    <2> QED BY <2>1, <2>2, <2>3
  <1> QED BY <1>1, <1>2, <1>3, <1>4, <1>5, Cases

LEMMA WorkStep ==
  ASSUME GraphTypeOK, PhaseInv, WorkInv, [Next]_vars
  PROVE  WorkInv'
  <1>0. at \in Nat \ {0} /\ member \in Nat \ {0}
    BY DEF GraphTypeOK
  <1>1. CASE Walking
    BY <1>1, WalkingFrame DEF WorkInv
  <1>2. CASE RegisterProvider \/ RegisterClasses
    BY <1>2 DEF RegisterProvider, RegisterClasses, Registering, registerFrame, WorkInv
  <1>3. CASE EnterNode \/ LeaveNode
    BY <1>3 DEF EnterNode, LeaveNode, WorkInv
  <1>4. CASE Checks
    BY <1>4, CheckFrame DEF WorkInv
  <1>5. CASE Later
    BY <1>0, <1>5, LaterSteps DEF WorkInv
  <1> QED BY <1>1, <1>2, <1>3, <1>4, <1>5, Cases

LEMMA ExpStep ==
  ASSUME GraphTypeOK, PhaseInv, ExpInv, [Next]_vars
  PROVE  ExpInv'
  <1>0. /\ at \in Nat \ {0} /\ member \in Nat \ {0} /\ Len(graph) \in Nat
    BY DEF GraphTypeOK
  <1>a. app' = app
    BY RegGrows
  <1>b. \A m : OwnTokens(m)' = OwnTokens(m)
    BY <1>a, SameMeaning
  <1>1. CASE Walking
    BY <1>1, WalkingFrame DEF ExpInv, Entered
  <1>2. CASE RegisterProvider \/ RegisterClasses
    <2>1. phase' = "register" \/ (phase' = "validate" /\ at' = 1)
      BY <1>2 DEF RegisterProvider, RegisterClasses, Registering, registerFrame
    <2>2. \A j \in 1..Len(graph') : ~Entered(j)'
      BY <2>1 DEF Entered
    <2> QED BY <2>2 DEF ExpInv
  <1>3. CASE EnterNode
    <2>1. /\ phase = "validate" /\ phase' = "check" /\ at' = at /\ graph' = graph
          /\ diagnostics' = diagnostics \cup BadExports
      BY <1>3 DEF EnterNode, frame
    <2>2. ASSUME diagnostics' = {}, NEW j \in 1..Len(graph), j <= at
          PROVE  app.exports[graph[j]] \subseteq OwnTokens(graph[j])
      <3>1. CASE j < at
        BY <2>1, <2>2, <3>1 DEF ExpInv, Entered
      <3>2. CASE j = at
        <4>1. BadExports = {}
          BY <2>1, <2>2
        <4>2. app.exports[Node] \ OwnTokens(Node) = {}
          BY <4>1 DEF BadExports
        <4> QED BY <3>2, <4>2 DEF Node
      <3> QED BY <1>0, <2>2, <3>1, <3>2
    <2>3. \A j : Entered(j)' => j <= at
      BY <2>1 DEF Entered
    <2> QED BY <1>a, <1>b, <2>1, <2>2, <2>3 DEF ExpInv
  <1>4. CASE Checks
    <2>1. /\ UNCHANGED <<app, graph, phase, at>>
          /\ diagnostics' = {} => diagnostics = {}
      BY <1>4, CheckFrame
    <2>2. \A j : Entered(j)' <=> Entered(j)
      BY <2>1 DEF Entered
    <2> QED BY <1>b, <2>1, <2>2 DEF ExpInv
  <1>5. CASE LeaveNode
    <2>1. /\ phase = "check" /\ at' = at + 1 /\ graph' = graph /\ diagnostics' = diagnostics
          /\ phase' # "check"
      BY <1>5 DEF LeaveNode, Verdict, frame
    <2>2. \A j \in 1..Len(graph) : Entered(j)' => Entered(j)
      BY <1>0, <2>1 DEF Entered
    <2> QED BY <1>a, <1>b, <2>1, <2>2 DEF ExpInv
  <1>6. CASE Later
    <2>1. /\ UNCHANGED <<graph, diagnostics>>
          /\ phase' \in {"scan", "bind", "running"} \/ UNCHANGED <<phase, at>>
      BY <1>0, <1>6, LaterSteps
    <2>2. \A j : Entered(j)' => Entered(j)
      BY <2>1 DEF Entered
    <2> QED BY <1>a, <1>b, <2>1, <2>2 DEF ExpInv
  <1> QED BY <1>1, <1>2, <1>3, <1>4, <1>5, <1>6, Cases

LEMMA VisStep ==
  ASSUME GraphTypeOK, PhaseInv, Ordered, OwnInv, ExpInv, VisInv, [Next]_vars
  PROVE  VisInv'
  <1>0. /\ at \in Nat \ {0} /\ member \in Nat \ {0} /\ Len(graph) \in Nat
        /\ graph \in Seq(Module) /\ registered \in [Token -> Provided]
    BY DEF GraphTypeOK, Provided
  <1>a. RegSet \subseteq RegSet'
    BY RegGrows
  <1>1. CASE EnterNode
    <2>1. /\ phase = "validate" /\ visible' = OwnTokens(Node) \cup Exported(Node)
          /\ diagnostics' = {} => diagnostics = {}
      BY <1>1 DEF EnterNode
    <2>2. at \in 1..Len(graph)
      BY <2>1, NodeTyped
    <2>3. \A j \in 1..Len(graph) : OwnTokens(graph[j]) \subseteq RegSet
      BY <2>1 DEF OwnInv
    <2>4. ASSUME diagnostics = {}, NEW n \in RangeOf(app.imports[Node])
          PROVE  app.exports[n] \subseteq RegSet
      <3>1. PICK j \in 1..(at - 1) : graph[j] = n
        BY <2>2 DEF Ordered, Node
      <3>2. j \in 1..Len(graph) /\ j < at
        BY <1>0, <2>2
      <3>3. app.exports[graph[j]] \subseteq OwnTokens(graph[j])
        BY <2>1, <2>4, <3>2 DEF ExpInv, Entered
      <3> QED BY <2>3, <3>1, <3>2, <3>3
    <2>5. ASSUME diagnostics = {} PROVE Exported(Node) \subseteq RegSet
      BY <2>4, <2>5 DEF Exported
    <2>6. OwnTokens(Node) \subseteq RegSet
      BY <2>2, <2>3 DEF Node
    <2> QED BY <1>a, <2>1, <2>5, <2>6 DEF VisInv
  <1>2. CASE CheckAdopt
    <2>1. visible' = visible \cup {Dep} /\ phase = "check" /\ (diagnostics' = {} => diagnostics = {})
      BY <1>2, CheckFrame DEF CheckAdopt, Hidden, Checking, Checks
    <2>2. Dep \in RegSet'
      <3>1. Node # "none" /\ Dep \in Token
        BY <1>2, NodeTyped, TopCheck, GraphAssumption DEF CheckAdopt, Hidden, Checking
      <3> QED BY <1>0, <1>2, <3>1 DEF CheckAdopt, RegSet, Registered, ClassProvider
    <2> QED BY <1>a, <2>1, <2>2 DEF VisInv
  <1>3. CASE Checks /\ ~CheckAdopt
    <2>1. visible' = visible
      BY <1>3 DEF Checks, CheckVisible, CheckOwned, CheckRuntime, CheckMissing, CheckReturn, Report
    <2> QED BY <1>3, <1>a, <2>1, CheckFrame DEF VisInv
  <1>4. CASE LeaveNode
    BY <1>4 DEF LeaveNode, Verdict, VisInv
  <1>5. CASE Walking
    BY <1>5, WalkingFrame DEF VisInv
  <1>6. CASE RegisterProvider \/ RegisterClasses
    BY <1>6 DEF RegisterProvider, RegisterClasses, Registering, VisInv
  <1>7. CASE Later
    <2>1. /\ UNCHANGED <<visible, diagnostics>>
          /\ phase' \in {"scan", "bind", "running"} \/ UNCHANGED phase
      BY <1>0, <1>7, LaterSteps
    <2> QED BY <1>a, <2>1 DEF VisInv
  <1> QED BY <1>1, <1>2, <1>3, <1>4, <1>5, <1>6, <1>7, Cases

(* The elements of a sequence are its first and those of its tail.         *)
LEMMA RangeTail ==
  ASSUME NEW S, NEW s \in Seq(S), s # <<>>, NEW x \in RangeOf(s)
  PROVE  x = Head(s) \/ x \in RangeOf(Tail(s))
  <1>1. PICK i \in 1..Len(s) : s[i] = x
    BY InRange
  <1>2. CASE i = 1
    BY <1>1, <1>2
  <1>3. CASE i # 1
    <2>1. PICK j \in 1..Len(Tail(s)) : j = i - 1 /\ Tail(s)[j] = s[i]
      BY <1>3
    <2>2. Tail(s) \in Seq(S)
      OBVIOUS
    <2> QED BY <1>1, <2>1, <2>2, InRange
  <1> QED BY <1>2, <1>3

(* A check takes one token from the checks in progress.                    *)
LEMMA PendChecked ==
  ASSUME GraphTypeOK, Checking, NEW d, Pend(d, work)
  PROVE  d = Dep \/ Pend(d, Checked)
  <1>1. PICK k \in 1..Len(work) : d \in RangeOf(work[k].deps)
    BY DEF Pend
  <1>2. /\ Len(Checked) = Len(work) /\ Len(work) \in Nat \ {0}
        /\ Checked[1].deps = Tail(work[1].deps)
        /\ \A j \in 2..Len(work) : Checked[j] = work[j]
        /\ work[1].deps \in Seq(Token) /\ work[1].deps # <<>> /\ Dep = Head(work[1].deps)
    BY TopCheck
  <1>3. CASE k = 1
    <2>1. d = Dep \/ d \in RangeOf(Checked[1].deps)
      BY <1>1, <1>2, <1>3, RangeTail
    <2> QED BY <1>2, <2>1 DEF Pend
  <1>4. CASE k # 1
    <2>1. k \in 2..Len(work)
      BY <1>4
    <2> QED BY <1>1, <1>2, <2>1 DEF Pend
  <1> QED BY <1>3, <1>4

(* Adoption adds the dependencies of the class to them.                    *)
LEMMA PendAdopted ==
  ASSUME GraphTypeOK, Checking, Dep \in ClassToken
  PROVE  /\ \A d \in RangeOf(ClassDeps[Dep]) : Pend(d, AdoptedChecks)
         /\ \A d : Pend(d, Checked) => Pend(d, AdoptedChecks)
  <1>1. Checked \in Seq(Pending) /\ Len(Checked) \in Nat
    BY TopCheck
  <1>2. Check(Dep, ClassDeps[Dep]) \in Pending
    BY TopCheck, GraphAssumption DEF Check, Pending
  <1>3. /\ Len(AdoptedChecks) = Len(Checked) + 1
        /\ AdoptedChecks[1] = Check(Dep, ClassDeps[Dep])
        /\ \A k \in 1..Len(Checked) : AdoptedChecks[k + 1] = Checked[k]
    BY <1>1, <1>2, Pushed DEF AdoptedChecks
  <1>4. ASSUME NEW d \in RangeOf(ClassDeps[Dep]) PROVE Pend(d, AdoptedChecks)
    <2>1. AdoptedChecks[1].deps = ClassDeps[Dep] /\ 1 \in 1..Len(AdoptedChecks)
      BY <1>1, <1>3 DEF Check
    <2> QED BY <2>1 DEF Pend
  <1>5. ASSUME NEW d, Pend(d, Checked) PROVE Pend(d, AdoptedChecks)
    <2>1. PICK k \in 1..Len(Checked) : d \in RangeOf(Checked[k].deps)
      BY <1>5 DEF Pend
    <2>2. PICK h \in 1..Len(AdoptedChecks) : h = k + 1 /\ AdoptedChecks[h] = Checked[k]
      BY <1>1, <1>3
    <2> QED BY <2>1, <2>2 DEF Pend
  <1> QED BY <1>4, <1>5

(* A token that is fine stays so through the checks.                       *)
LEMMA FineStep ==
  ASSUME GraphTypeOK, PhaseInv, VisInv, [Next]_vars, Checks, diagnostics' = {},
         NEW d, Fine(d)
  PROVE  Fine(d)'
  <1>a. RegSet \subseteq RegSet'
    BY RegGrows
  <1>b. phase = "check" /\ diagnostics = {} /\ ~CheckOwned /\ ~CheckMissing
    BY CheckFrame
  <1>1. Fine(d)' <=> d \in RegSet' \/ d \in RuntimeToken \/ Pend(d, work')
    BY DEF Fine, Pend
  <1>2. CASE d \in RegSet \/ d \in RuntimeToken
    BY <1>a, <1>1, <1>2
  <1>3. CASE Pend(d, work)
    <2>1. CASE CheckVisible
      <3>1. Checking /\ Dep \in visible /\ work' = Checked
        BY <2>1 DEF CheckVisible
      <3>2. Dep \in RegSet
        BY <1>b, <3>1 DEF VisInv
      <3> QED BY <1>a, <1>1, <1>3, <3>1, <3>2, PendChecked
    <2>2. CASE CheckAdopt
      <3>1. Checking /\ Dep \in ClassToken /\ work' = AdoptedChecks
        BY <2>2 DEF CheckAdopt, Hidden
      <3>2. Dep \in RegSet'
        <4>1. Node # "none" /\ Dep \in Token /\ registered \in [Token -> Provided]
          BY <1>b, <3>1, NodeTyped, TopCheck, GraphAssumption DEF GraphTypeOK, Provided
        <4> QED BY <2>2, <4>1 DEF CheckAdopt, RegSet, Registered, ClassProvider
      <3> QED BY <1>1, <1>3, <3>1, <3>2, PendChecked, PendAdopted
    <2>3. CASE CheckRuntime
      <3>1. Checking /\ Dep \in RuntimeToken /\ work' = Checked
        BY <2>3 DEF CheckRuntime, Hidden
      <3> QED BY <1>1, <1>3, <3>1, PendChecked
    <2>4. CASE CheckReturn
      <3>1. /\ work \in Seq(Pending) /\ work # <<>> /\ work[1].deps = <<>> /\ work' = Tail(work)
        BY <2>4 DEF CheckReturn, GraphTypeOK, Pending
      <3>2. PICK k \in 1..Len(work) : d \in RangeOf(work[k].deps)
        BY <1>3 DEF Pend
      <3>3. k # 1
        BY <3>1, <3>2 DEF RangeOf
      <3>4. PICK h \in 1..Len(work') : h = k - 1 /\ work'[h] = work[k]
        BY <3>1, <3>3, Dropped
      <3> QED BY <1>1, <3>2, <3>4 DEF Pend
    <2> QED BY <1>b, <2>1, <2>2, <2>3, <2>4 DEF Checks
  <1> QED BY <1>2, <1>3 DEF Fine

(* What is settled of a provider stays settled.                            *)
LEMMA SettledStep ==
  ASSUME GraphTypeOK, PhaseInv, VisInv, WorkInv, [Next]_vars, diagnostics' = {},
         ~Walking, NEW p, Settled(p)
  PROVE  Settled(p)'
  <1>0. /\ at \in Nat \ {0} /\ member \in Nat \ {0} /\ Len(graph) \in Nat
    BY DEF GraphTypeOK
  <1>a. app' = app /\ RegSet \subseteq RegSet'
    BY RegGrows
  <1>b. Consumes(p.by, DependencyTokens(p))' <=> Consumes(p.by, DependencyTokens(p))
    BY <1>a, SameMeaning DEF Consumes
  <1>c. ASSUME graph' = graph, \A i \in 1..Len(graph) : Ahead(i) => Ahead(i)', Awaited(p)
        PROVE  Settled(p)'
    BY <1>b, <1>c DEF Settled, Awaited
  <1>d. ASSUME \A d : Fine(d) => Fine(d)', ~Awaited(p)
        PROVE  Settled(p)'
    BY <1>d DEF Settled
  <1>e. \A d : Fine(d)' <=> d \in RegSet' \/ d \in RuntimeToken \/ Pend(d, work')
    BY DEF Fine, Pend
  <1>1. CASE RegisterProvider \/ RegisterClasses
    <2>1. /\ graph' = graph /\ work' = work
          /\ phase' = "register" \/ (phase' = "validate" /\ at' = 1)
      BY <1>1 DEF RegisterProvider, RegisterClasses, Registering, registerFrame
    <2>2. \A i \in 1..Len(graph) : Ahead(i)'
      BY <2>1 DEF Ahead
    <2>3. \A d : Fine(d) => Fine(d)'
      BY <1>a, <1>e, <2>1 DEF Fine
    <2> QED BY <1>c, <1>d, <2>1, <2>2, <2>3
  <1>2. CASE EnterNode
    <2>1. /\ phase = "validate" /\ phase' = "check" /\ at' = at /\ graph' = graph
          /\ work' = Consumers(Node) /\ work = <<>>
      BY <1>2 DEF EnterNode, frame, WorkInv
    <2>2. \A d : Fine(d) => Fine(d)'
      BY <1>a, <1>e, <2>1 DEF Fine, Pend
    <2>3. CASE Awaited(p)
      <3>1. PICK i \in 1..Len(graph) : graph[i] = p.by /\ Ahead(i)
        BY <2>3 DEF Awaited
      <3>2. CASE i > at
        <4>1. Ahead(i)'
          BY <2>1, <3>2 DEF Ahead
        <4> QED BY <1>b, <2>1, <2>3, <3>1, <4>1 DEF Settled, Awaited
      <3>3. CASE i = at
        <4>1. Consumes(Node, DependencyTokens(p))
          BY <2>3, <3>1, <3>3 DEF Awaited, Node
        <4>2. \A d \in RangeOf(DependencyTokens(p)) : Pend(d, work')
          BY <2>1, <4>1 DEF Consumes, Pend
        <4> QED BY <1>e, <4>2 DEF Settled
      <3>4. i >= at
        BY <2>1, <3>1 DEF Ahead
      <3> QED BY <1>0, <3>2, <3>3, <3>4
    <2> QED BY <1>d, <2>2, <2>3
  <1>3. CASE Checks
    <2>1. UNCHANGED <<graph, phase, at>>
      BY <1>3, CheckFrame
    <2>2. \A i \in 1..Len(graph) : Ahead(i) => Ahead(i)'
      BY <2>1 DEF Ahead
    <2>3. ASSUME NEW d, Fine(d) PROVE Fine(d)'
      BY <1>3, <2>3, FineStep
    <2> QED BY <1>c, <1>d, <2>1, <2>2, <2>3
  <1>4. CASE LeaveNode
    <2>1. /\ phase = "check" /\ at' = at + 1 /\ UNCHANGED <<graph, work>>
          /\ IF at < Len(graph) THEN phase' = "validate" ELSE at = Len(graph)
      BY <1>0, <1>4 DEF LeaveNode, frame, PhaseInv
    <2>2. \A i \in 1..Len(graph) : Ahead(i) => Ahead(i)'
      BY <1>0, <2>1 DEF Ahead
    <2>3. \A d : Fine(d) => Fine(d)'
      BY <1>a, <1>e, <2>1 DEF Fine
    <2> QED BY <1>c, <1>d, <2>1, <2>2, <2>3
  <1>5. CASE Later
    <2>1. /\ UNCHANGED <<graph, work>>
          /\ phase \in {"valid", "scan", "bind"} \/ UNCHANGED <<phase, at>>
      BY <1>0, <1>5, LaterSteps
    <2>2. \A i \in 1..Len(graph) : Ahead(i) => Ahead(i)'
      BY <2>1 DEF Ahead
    <2>3. \A d : Fine(d) => Fine(d)'
      BY <1>a, <1>e, <2>1 DEF Fine
    <2> QED BY <1>c, <1>d, <2>1, <2>2, <2>3
  <1> QED BY <1>1, <1>2, <1>3, <1>4, <1>5, Cases

LEMMA DepsStep ==
  ASSUME GraphTypeOK, PhaseInv, VisInv, WorkInv, DepsInv, [Next]_vars
  PROVE  DepsInv'
  <1>0. /\ at \in Nat \ {0} /\ member \in Nat \ {0} /\ Len(graph) \in Nat /\ Declared(app)
        /\ registered \in [Token -> Provided]
    BY DEF GraphTypeOK, Provided
  <1>a. app' = app /\ RegSet \subseteq RegSet'
    BY RegGrows
  <1>b. diagnostics' = {} => diagnostics = {}
    <2>1. CASE Walking
      BY <2>1, WalkingFrame
    <2>2. CASE RegisterProvider \/ RegisterClasses \/ EnterNode \/ LeaveNode
      BY <2>2 DEF RegisterProvider, RegisterClasses, EnterNode, LeaveNode, registerFrame
    <2>3. CASE Checks
      BY <2>3, CheckFrame
    <2>4. CASE Later
      BY <1>0, <2>4, LaterSteps
    <2> QED BY <2>1, <2>2, <2>3, <2>4, Cases
  <1>c. ASSUME NEW m PROVE \A deps : Consumes(m, deps)' <=> Consumes(m, deps)
    BY <1>a, SameMeaning
  <1>1. CASE Walking
    <2>1. RegSet' = {}
      BY <1>1, WalkingFrame DEF RegSet, Registered, PhaseInv
    <2> QED BY <2>1 DEF DepsInv
  <1>2. CASE ~Walking
    <2> SUFFICES ASSUME diagnostics' = {}, NEW t \in RegSet'
                 PROVE  Settled(registered[t])'
      BY DEF DepsInv
    <2>1. t \in Token /\ registered'[t].by # "none"
      BY DEF RegSet, Registered
    <2>2. ASSUME NEW p, Settled(p) PROVE Settled(p)'
      BY <1>2, <2>2, SettledStep
    <2>3. ASSUME registered'[t] = registered[t] PROVE Settled(registered[t])'
      <3>1. t \in RegSet
        BY <2>1, <2>3 DEF RegSet, Registered
      <3>2. Settled(registered[t])
        BY <1>b, <3>1 DEF DepsInv
      <3>3. PICK p : p = registered[t]
        OBVIOUS
      <3>4. Settled(p)'
        BY <2>2, <3>2, <3>3
      <3>5. registered'[t] = p
        BY <2>3, <3>3
      <3> QED BY <3>4, <3>5
    <2>4. CASE RegisterProvider
      <3>1. /\ phase' = "register" /\ UNCHANGED <<at, graph>> /\ phase = "register"
            /\ registered' = Replacing(Providers[member])
        BY <2>4 DEF RegisterProvider, Registering, registerFrame
      <3>2. /\ at \in 1..Len(graph) /\ Node \in Module /\ Providers \in Seq(Provider)
        BY <3>1, NodeTyped
      <3>3. PICK i \in 1..Len(Providers) : i = member
        BY <1>0, <2>4, <3>2 DEF RegisterProvider
      <3>4. PICK p : p = [useClass |-> Providers[i].useClass, inject |-> Providers[i].inject,
                          by |-> Node]
        OBVIOUS
      <3>5. DependencyTokens(p) = DependencyTokens(Providers[i]) /\ p.by = Node
        BY <3>4 DEF DependencyTokens
      <3>6. Consumes(Node, DependencyTokens(p))
        BY <1>0, <3>2, <3>5, ConsumersHave DEF Consumes, Providers
      <3>7. Settled(p)'
        <4>1. Ahead(at)' /\ at' \in 1..Len(graph') /\ graph'[at'] = p.by
          BY <3>1, <3>2, <3>5 DEF Ahead, Node
        <4>2. Consumes(p.by, DependencyTokens(p))'
          BY <1>c, <3>5, <3>6
        <4> QED BY <3>1, <3>2, <4>1, <4>2 DEF Settled, Awaited
      <3>8. registered'[t] = registered[t] \/ registered'[t] = p
        BY <1>0, <2>1, <3>1, <3>3, <3>4 DEF Replacing
      <3> QED BY <2>3, <3>7, <3>8
    <2>5. CASE RegisterClasses
      <3>1. /\ phase = "register" /\ graph' = graph
            /\ phase' = "register" \/ (phase' = "validate" /\ at' = 1)
            /\ registered' = [c \in Token |-> IF c \in NewClasses(Node) THEN ClassProvider(c, Node)
                                              ELSE registered[c]]
        BY <2>5 DEF RegisterClasses, Registering, registerFrame
      <3>2. at \in 1..Len(graph) /\ Node \in Module
        BY <3>1, NodeTyped
      <3>3. CASE t \in NewClasses(Node)
        <4>1. t \in OwnClasses(Node) /\ t # "none"
          BY <2>1, <3>3, GraphAssumption DEF NewClasses
        <4>2. PICK p : p = ClassProvider(t, Node)
          OBVIOUS
        <4>3. DependencyTokens(p) = ClassDeps[t] /\ p.by = Node
          BY <4>1, <4>2 DEF ClassProvider, DependencyTokens
        <4>4. Consumes(Node, DependencyTokens(p))
          BY <1>0, <3>2, <4>1, <4>3, ConsumersHave DEF Consumes
        <4>5. Settled(p)'
          <5>1. PICK i \in 1..Len(graph) : i = at /\ graph'[i] = p.by
            BY <3>1, <3>2, <4>3 DEF Node
          <5>2. Ahead(i)'
            BY <3>1 DEF Ahead
          <5>3. Consumes(p.by, DependencyTokens(p))'
            BY <1>c, <4>3, <4>4
          <5> QED BY <3>1, <5>1, <5>2, <5>3 DEF Settled, Awaited
        <4>6. registered'[t] = p
          BY <2>1, <3>1, <3>3, <4>2
        <4> QED BY <4>5, <4>6
      <3>4. CASE t \notin NewClasses(Node)
        BY <2>1, <2>3, <3>1, <3>4
      <3> QED BY <3>3, <3>4
    <2>6. CASE CheckAdopt
      <3>1. /\ Checking /\ Dep \in ClassToken /\ work' = AdoptedChecks
            /\ registered' = IF Registered(Dep) THEN registered
                             ELSE [registered EXCEPT ![Dep] = ClassProvider(Dep, Node)]
        BY <2>6 DEF CheckAdopt, Hidden
      <3>2. PICK p : p = ClassProvider(Dep, Node)
        OBVIOUS
      <3>3. DependencyTokens(p) = ClassDeps[Dep]
        BY <3>1, <3>2, GraphAssumption DEF ClassProvider, DependencyTokens
      <3>4. Settled(p)'
        <4>1. \A d \in RangeOf(DependencyTokens(p)) : Pend(d, work')
          BY <3>1, <3>3, PendAdopted
        <4>2. \A d : Pend(d, work') => Fine(d)'
          BY DEF Fine, Pend
        <4> QED BY <4>1, <4>2 DEF Settled
      <3>5. registered'[t] = registered[t] \/ registered'[t] = p
        BY <1>0, <2>1, <3>1, <3>2
      <3> QED BY <2>3, <3>4, <3>5
    <2>7. CASE EnterNode \/ LeaveNode \/ (Checks /\ ~CheckAdopt)
      <3>1. registered' = registered
        BY <2>7 DEF EnterNode, LeaveNode, Checks, CheckVisible, CheckOwned, CheckRuntime,
                    CheckMissing, CheckReturn, Report, frame
      <3> QED BY <2>3, <3>1
    <2>8. CASE Later
      <3>1. registered' = registered \/ registered' = WithSender
        BY <1>0, <2>8, LaterSteps
      <3>2. PICK p : p = [NotRegistered EXCEPT !.by = Root]
        OBVIOUS
      <3>3. RangeOf(DependencyTokens(p)) = {}
        <4>1. p.useClass = "none" /\ p.inject = <<>>
          BY <3>2 DEF NotRegistered
        <4>2. DependencyTokens(p) = <<>>
          BY <4>1 DEF DependencyTokens
        <4> QED BY <4>2 DEF RangeOf
      <3>4. Settled(p)'
        BY <3>3 DEF Settled
      <3>5. registered'[t] = registered[t] \/ registered'[t] = p
        BY <1>0, <2>1, <3>1, <3>2 DEF WithSender
      <3> QED BY <2>3, <3>4, <3>5
    <2> QED BY <1>2, <2>4, <2>5, <2>6, <2>7, <2>8, Cases DEF Checks
  <1> QED BY <1>1, <1>2

(* In an accepted application whatever is registered only needs tokens that*)
(* are registered or that the runtime registers.                           *)
THEOREM ResolvableCorrect == Spec => []Resolvable
  <1>1. RuntimeInit => ResInv
    <2> SUFFICES ASSUME RuntimeInit PROVE ResInv
      OBVIOUS
    <2>1. phase = "walk" /\ work = <<>> /\ registered = [t \in Token |-> NotRegistered]
      BY DEF RuntimeInit, Init
    <2>2. RegSet = {}
      BY <2>1 DEF RegSet, Registered, NotRegistered
    <2> QED BY <2>1, <2>2 DEF ResInv, OwnInv, WorkInv, ExpInv, Entered, VisInv, DepsInv
  <1>2. IInv /\ ResInv /\ [Next]_vars => ResInv'
    BY OwnStep, WorkStep, ExpStep, VisStep, DepsStep DEF IInv, ResInv
  <1>3. IInv /\ ResInv => Resolvable
    <2> SUFFICES ASSUME IInv, ResInv, Accepted, NEW t \in Token, Registered(t),
                        NEW d \in RangeOf(DependencyTokens(registered[t]))
                 PROVE  Registered(d) \/ d \in RuntimeToken
      BY DEF Resolvable
    <2>1. /\ phase \in {"valid", "scan", "bind", "running"} /\ diagnostics = {}
          /\ work = <<>>
      BY DEF Accepted, Graphed, IInv, PhaseInv, Phases, ResInv, WorkInv
    <2>2. Settled(registered[t])
      BY <2>1 DEF ResInv, DepsInv, RegSet
    <2>3. ~Awaited(registered[t])
      BY <2>1 DEF Awaited, Ahead
    <2>4. Fine(d)
      BY <2>2, <2>3 DEF Settled
    <2> QED BY <2>1, <2>4 DEF Fine, Pend, RegSet
  <1> QED BY <1>1, <1>2, <1>3, InitIInv, IInvStep, PTL DEF Spec

-----------------------------------------------------------------------------
(* What a module imports by some path is the least set closed under the    *)
(* imports.                                                                *)
LEMMA ImportsClosed ==
  ASSUME Declared(app), NEW m \in Module
  PROVE  /\ ImportedBy(m) \subseteq Module
         /\ RangeOf(app.imports[m]) \subseteq ImportedBy(m)
         /\ \A n \in ImportedBy(m) : RangeOf(app.imports[n]) \subseteq ImportedBy(m)
         /\ \A S \in SUBSET Module : ImportClosed(m, S) => ImportedBy(m) \subseteq S
  <1>1. \A n \in Module : RangeOf(app.imports[n]) \subseteq Module
    BY AppTypes, InRange
  <1>2. ImportedBy(m) \subseteq Module
    BY DEF ImportedBy
  <1>3. \A S \in SUBSET Module : ImportClosed(m, S) => ImportedBy(m) \subseteq S
    BY DEF ImportedBy
  <1>4. \A n \in Module : (\A S \in SUBSET Module : ImportClosed(m, S) => n \in S)
                            => n \in ImportedBy(m)
    BY DEF ImportedBy
  <1>5. ASSUME NEW n \in RangeOf(app.imports[m]) PROVE n \in ImportedBy(m)
    <2>1. \A S \in SUBSET Module : ImportClosed(m, S) => n \in S
      BY DEF ImportClosed
    <2> QED BY <1>1, <1>4, <2>1
  <1>6. ASSUME NEW n \in ImportedBy(m), NEW x \in RangeOf(app.imports[n])
        PROVE  x \in ImportedBy(m)
    <2>1. ASSUME NEW S \in SUBSET Module, ImportClosed(m, S) PROVE x \in S
      <3>1. n \in S
        BY <1>3, <2>1
      <3> QED BY <2>1, <3>1 DEF ImportClosed, Imported
    <2> QED BY <1>1, <1>2, <1>4, <2>1
  <1> QED BY <1>2, <1>3, <1>5, <1>6

(* What an imported module imports is imported too.                        *)
LEMMA ImportsTransitive ==
  ASSUME Declared(app), NEW m \in Module, NEW n \in ImportedBy(m)
  PROVE  ImportedBy(n) \subseteq ImportedBy(m)
  <1>1. n \in Module /\ ImportedBy(m) \in SUBSET Module
    BY ImportsClosed
  <1>2. ImportClosed(n, ImportedBy(m))
    BY ImportsClosed DEF ImportClosed, Imported
  <1> QED BY <1>1, <1>2, ImportsClosed

(* A module of the graph imports, by whatever path, only modules before it.*)
LEMMA EarlierOnly ==
  ASSUME GraphTypeOK, Ordered, NEW i \in 1..Len(graph)
  PROVE  ImportedBy(graph[i]) \subseteq {graph[j] : j \in 1..(i - 1)}
  <1>0. graph \in Seq(Module) /\ Declared(app) /\ graph[i] \in Module /\ Len(graph) \in Nat
    BY DEF GraphTypeOK
  <1> DEFINE S == {graph[j] : j \in 1..(i - 1)}
  <1>1. S \in SUBSET Module
    BY <1>0
  <1>2. ASSUME NEW h \in 1..i, NEW n \in RangeOf(app.imports[graph[h]]) PROVE n \in S
    <2>1. h \in 1..Len(graph)
      BY <1>0
    <2>2. PICK j \in 1..(h - 1) : graph[j] = n
      BY <2>1 DEF Ordered
    <2>3. j \in 1..(i - 1)
      BY <1>0
    <2> QED BY <2>2, <2>3
  <1>3. ImportClosed(graph[i], S)
    <2>1. i \in 1..i /\ \A j \in 1..(i - 1) : j \in 1..i
      BY <1>0
    <2> QED BY <1>2, <2>1 DEF ImportClosed, Imported
  <1> QED BY <1>0, <1>1, <1>3, ImportsClosed

(* So no module of the graph imports itself.                               *)
LEMMA GraphAcyclic ==
  ASSUME GraphTypeOK, Ordered, Distinct, NEW m \in Visited
  PROVE  m \notin ImportedBy(m)
  <1>0. graph \in Seq(Module) /\ Len(graph) \in Nat
    BY DEF GraphTypeOK
  <1>1. PICK i \in 1..Len(graph) : graph[i] = m
    BY <1>0, InRange DEF Visited
  <1>2. \A j \in 1..(i - 1) : j \in 1..Len(graph) /\ graph[j] # graph[i]
    BY <1>0 DEF Distinct
  <1> QED BY <1>1, <1>2, EarlierOnly

-----------------------------------------------------------------------------
(* Where the walk has been.                                                *)
Reachable == {Root} \cup ImportedBy(Root)

(* The calls of walk are a path of imports from the root, and `resolving`  *)
(* holds their modules.                                                    *)
PathInv ==
  phase = "walk" =>
    /\ walks[Len(walks)].module = Root
    /\ \A j, k \in 1..Len(walks) : j < k => walks[j].module \in ImportedBy(walks[k].module)
    /\ \A m \in resolving : \E k \in 1..Len(walks) : walks[k].module = m

ReachInv ==
  /\ Visited \subseteq Reachable
  /\ phase = "circular" => \E m \in Reachable : m \in ImportedBy(m)
  /\ Graphed => Root \in Visited

(* A call of walk is of a reachable module.                                *)
LEMMA WalksReachable ==
  ASSUME IInv, PathInv, phase = "walk", NEW k \in 1..Len(walks)
  PROVE  walks[k].module \in Reachable
  <1>1. Len(walks) \in Nat /\ Len(walks) \in 1..Len(walks)
    BY DEF IInv, GraphTypeOK
  <1>2. CASE k = Len(walks)
    BY <1>2 DEF PathInv, Reachable
  <1>3. CASE k < Len(walks)
    BY <1>1, <1>3 DEF PathInv, Reachable
  <1> QED BY <1>1, <1>2, <1>3

LEMMA SameImports ==
  ASSUME app' = app
  PROVE  /\ \A m : ImportedBy(m)' = ImportedBy(m)
         /\ Reachable' = Reachable
  BY DEF ImportedBy, ImportClosed, Imported, Reachable

LEMMA PathStep ==
  ASSUME IInv, PathInv, [Next]_vars
  PROVE  PathInv'
  <1>0. /\ GraphTypeOK /\ Declared(app) /\ walks \in Seq(Frame) /\ Len(walks) \in Nat
        /\ \A k \in 1..Len(walks) : walks[k].module \in Module
    <2>1. GraphTypeOK /\ Declared(app) /\ walks \in Seq(Frame) /\ Len(walks) \in Nat
      BY DEF IInv, GraphTypeOK, Frame
    <2>2. \A k \in 1..Len(walks) : walks[k] \in Frame
      BY <2>1
    <2> QED BY <2>1, <2>2 DEF Frame
  <1>1. CASE WalkSeen
    <2>1. /\ walks' = Advanced /\ UNCHANGED <<app, phase, resolving>>
          /\ walks # <<>>
      BY <1>1 DEF WalkSeen, MoreImports
    <2>2. /\ Len(Advanced) = Len(walks) /\ Top = walks[1] /\ Len(walks) \in Nat \ {0}
          /\ \A k \in 1..Len(walks) : Advanced[k].module = walks[k].module
      <3>1. \A k \in 1..Len(walks) : k = 1 \/ k \in 2..Len(walks)
        BY <1>0
      <3> QED BY <1>0, <2>1, <3>1, TopFrame
    <2>3. \A m : ImportedBy(m)' = ImportedBy(m)
      BY <2>1, SameImports
    <2>4. PICK w : w = Advanced
      OBVIOUS
    <2>5. ASSUME phase = "walk" 
          PROVE  /\ w[Len(w)].module = Root
                 /\ \A j, k \in 1..Len(w) : j < k => w[j].module \in ImportedBy(w[k].module)
                 /\ \A m \in resolving : \E k \in 1..Len(w) : w[k].module = m
      BY <2>2, <2>4, <2>5 DEF PathInv
    <2> QED BY <2>1, <2>3, <2>4, <2>5 DEF PathInv
  <1>2. CASE WalkDown
    <2>1. /\ walks' = <<Call(NextImport)>> \o Advanced /\ UNCHANGED <<app, phase>>
          /\ resolving' = resolving \cup {NextImport} /\ walks # <<>> /\ MoreImports
          /\ phase = "walk" /\ Top.next <= Len(app.imports[Top.module])
          /\ NextImport = app.imports[Top.module][Top.next]
      BY <1>2 DEF WalkDown, MoreImports, NextImport
    <2>2. /\ Len(Advanced) = Len(walks) /\ Top = walks[1] /\ Len(walks) \in Nat \ {0}
          /\ Top.module \in Module /\ Top.next \in Nat \ {0} /\ NextImport \in Module
          /\ app.imports[Top.module] \in Seq(Module)
          /\ \A k \in 1..Len(walks) : Advanced[k].module = walks[k].module
          /\ Advanced \in Seq(Frame)
      <3>1. \A k \in 1..Len(walks) : k = 1 \/ k \in 2..Len(walks)
        BY <1>0
      <3> QED BY <1>0, <2>1, <3>1, TopFrame
    <2>3. PICK w : w = <<Call(NextImport)>> \o Advanced
      OBVIOUS
    <2>4. /\ Len(w) = Len(walks) + 1 /\ w[1].module = NextImport
          /\ \A k \in 1..Len(walks) : w[k + 1].module = walks[k].module
      <3>1. Call(NextImport) \in Frame /\ Call(NextImport).module = NextImport
        BY <2>2 DEF Call, Frame
      <3> QED BY <2>2, <2>3, <3>1, Pushed
    <2>5. NextImport \in RangeOf(app.imports[Top.module])
      BY <2>1, <2>2, InRange
    <2>6. \A k \in 1..Len(walks) : NextImport \in ImportedBy(walks[k].module)
      <3>1. NextImport \in ImportedBy(walks[1].module)
        BY <1>0, <2>2, <2>5, ImportsClosed
      <3>2. ASSUME NEW k \in 1..Len(walks), k # 1
            PROVE  NextImport \in ImportedBy(walks[k].module)
        <4>1. walks[1].module \in ImportedBy(walks[k].module)
          BY <2>1, <2>2, <3>2 DEF PathInv
        <4> QED BY <1>0, <2>2, <3>1, <4>1, ImportsTransitive
      <3> QED BY <3>1, <3>2
    <2>7. \A k \in 1..Len(w) : k = 1 \/ \E h \in 1..Len(walks) : k = h + 1 /\ w[k].module = walks[h].module
      <3>1. ASSUME NEW k \in 1..Len(w), k # 1
            PROVE  \E h \in 1..Len(walks) : k = h + 1
        <4>1. k - 1 \in 1..Len(walks) /\ k = (k - 1) + 1
          BY <1>0, <2>4, <3>1
        <4> QED BY <4>1
      <3> QED BY <2>4, <3>1
    <2>8. w[Len(w)].module = Root
      BY <2>1, <2>2, <2>4 DEF PathInv
    <2>9. ASSUME NEW j \in 1..Len(w), NEW k \in 1..Len(w), j < k
          PROVE  w[j].module \in ImportedBy(w[k].module)
      <3>1. PICK g \in 1..Len(walks) : k = g + 1 /\ w[k].module = walks[g].module
        BY <1>0, <2>7, <2>9
      <3>2. CASE j = 1
        BY <2>4, <2>6, <3>1, <3>2
      <3>3. CASE j # 1
        <4>1. PICK h \in 1..Len(walks) : j = h + 1 /\ w[j].module = walks[h].module
          BY <2>7, <3>3
        <4>2. h < g
          BY <2>9, <3>1, <4>1
        <4> QED BY <2>1, <3>1, <4>1, <4>2 DEF PathInv
      <3> QED BY <3>2, <3>3
    <2>10. ASSUME NEW m \in resolving' PROVE \E k \in 1..Len(w) : w[k].module = m
      <3>1. CASE m = NextImport
        BY <2>2, <2>4, <3>1
      <3>2. CASE m \in resolving
        <4>1. PICK h \in 1..Len(walks) : walks[h].module = m
          BY <2>1, <3>2 DEF PathInv
        <4>2. h + 1 \in 1..Len(w)
          BY <2>2, <2>4
        <4> QED BY <2>4, <4>1, <4>2
      <3> QED BY <2>1, <2>10, <3>1, <3>2
    <2>11. \A m : ImportedBy(m)' = ImportedBy(m)
      BY <2>1, SameImports
    <2> QED BY <2>1, <2>3, <2>8, <2>9, <2>10, <2>11 DEF PathInv
  <1>3. CASE WalkDone
    <2>1. /\ walks' = Tail(walks) /\ resolving' = resolving \ {Top.module} /\ app' = app
          /\ phase = "walk" /\ walks # <<>>
          /\ phase' = "walk" => Tail(walks) # <<>>
      BY <1>3 DEF WalkDone
    <2>2. /\ Top = walks[1] /\ Len(walks) \in Nat \ {0}
          /\ Tail(walks) \in Seq(Frame) /\ Len(Tail(walks)) = Len(walks) - 1
          /\ \A k \in 1..Len(Tail(walks)) : Tail(walks)[k] = walks[k + 1]
      BY <1>0, <2>1, Dropped, TopFrame
    <2>3. PICK w : w = Tail(walks)
      OBVIOUS
    <2>4. ASSUME w # <<>>
          PROVE  /\ w[Len(w)].module = Root
                 /\ \A j, k \in 1..Len(w) : j < k => w[j].module \in ImportedBy(w[k].module)
                 /\ \A m \in resolving' : \E k \in 1..Len(w) : w[k].module = m
      <3>1. /\ Len(w) \in Nat \ {0} /\ Len(w) = Len(walks) - 1
            /\ \A k \in 1..Len(w) : w[k] = walks[k + 1] /\ k + 1 \in 1..Len(walks)
        BY <2>2, <2>3, <2>4
      <3>2. w[Len(w)].module = Root
        <4>1. Len(w) \in 1..Len(w) /\ Len(w) + 1 = Len(walks)
          BY <2>2, <3>1
        <4> QED BY <2>1, <3>1, <4>1 DEF PathInv
      <3>3. ASSUME NEW j \in 1..Len(w), NEW k \in 1..Len(w), j < k
            PROVE  w[j].module \in ImportedBy(w[k].module)
        <4>1. PICK g \in 1..Len(walks), h \in 1..Len(walks) :
                g = j + 1 /\ h = k + 1 /\ w[j] = walks[g] /\ w[k] = walks[h]
          BY <3>1
        <4>2. g < h
          BY <3>3, <4>1
        <4> QED BY <2>1, <4>1, <4>2 DEF PathInv
      <3>4. ASSUME NEW m \in resolving' PROVE \E k \in 1..Len(w) : w[k].module = m
        <4>1. PICK h \in 1..Len(walks) : walks[h].module = m
          BY <2>1, <3>4 DEF PathInv
        <4>2. h # 1
          BY <2>1, <2>2, <3>4, <4>1
        <4>3. h - 1 \in 1..Len(w) /\ (h - 1) + 1 = h
          BY <2>2, <3>1, <4>2
        <4> QED BY <3>1, <4>1, <4>3
      <3> QED BY <3>2, <3>3, <3>4
    <2>5. \A m : ImportedBy(m)' = ImportedBy(m)
      BY <2>1, SameImports
    <2> QED BY <2>1, <2>3, <2>4, <2>5 DEF PathInv
  <1>4. CASE ~(WalkSeen \/ WalkDown \/ WalkDone)
    <2>1. UNCHANGED <<app, walks, resolving>> /\ (phase' = "walk" => phase = "walk")
      BY <1>0, <1>4, WalkFrame DEF IInv
    <2>2. \A m : ImportedBy(m)' = ImportedBy(m)
      BY <2>1, SameImports
    <2> QED BY <2>1, <2>2 DEF PathInv
  <1> QED BY <1>1, <1>2, <1>3, <1>4

LEMMA ReachStep ==
  ASSUME IInv, PathInv, ReachInv, [Next]_vars
  PROVE  ReachInv'
  <1>0. /\ GraphTypeOK /\ PhaseInv /\ Declared(app) /\ Root \in Module
        /\ graph \in Seq(Module) /\ at \in Nat \ {0} /\ member \in Nat \ {0}
    BY GraphAssumption DEF IInv, GraphTypeOK
  <1>a. app' = app
    BY <1>0, RegGrows
  <1>b. Reachable' = Reachable /\ \A m : ImportedBy(m)' = ImportedBy(m)
    BY <1>a, SameImports
  <1>1. CASE WalkSeen \/ WalkDown
    <2>1. phase' = "walk" /\ graph' = graph
      BY <1>1 DEF WalkSeen, WalkDown, MoreImports
    <2> QED BY <1>b, <2>1 DEF ReachInv, Graphed, Visited
  <1>2. CASE WalkCircular
    <2>1. /\ phase = "walk" /\ phase' = "circular" /\ graph' = graph /\ walks # <<>>
          /\ MoreImports /\ NextImport \in resolving
          /\ Top.next <= Len(app.imports[Top.module])
          /\ NextImport = app.imports[Top.module][Top.next]
      BY <1>2 DEF WalkCircular, MoreImports, NextImport
    <2>2. /\ Top = walks[1] /\ Top.module \in Module /\ Top.next \in Nat \ {0}
          /\ Len(walks) \in Nat \ {0}
          /\ NextImport \in Module /\ app.imports[Top.module] \in Seq(Module)
      BY <1>0, <2>1, TopFrame
    <2>3. NextImport \in ImportedBy(Top.module)
      <3>1. NextImport \in RangeOf(app.imports[Top.module])
        BY <2>1, <2>2, InRange
      <3> QED BY <1>0, <2>2, <3>1, ImportsClosed
    <2>4. PICK k \in 1..Len(walks) : walks[k].module = NextImport
      BY <2>1 DEF PathInv
    <2>5. NextImport \in Reachable
      BY <2>1, <2>4, WalksReachable
    <2>6. NextImport \in ImportedBy(NextImport)
      <3>1. CASE k = 1
        BY <2>2, <2>3, <2>4, <3>1
      <3>2. CASE k # 1
        <4>1. Top.module \in ImportedBy(NextImport)
          BY <2>1, <2>2, <2>4, <3>2 DEF PathInv
        <4> QED BY <1>0, <2>2, <2>3, <4>1, ImportsTransitive
      <3> QED BY <3>1, <3>2
    <2>7. \E m \in Reachable : m \in ImportedBy(m)
      BY <2>5, <2>6
    <2> QED BY <1>b, <2>1, <2>7 DEF ReachInv, Graphed, Visited
  <1>3. CASE WalkDone
    <2>1. /\ walks # <<>> /\ phase = "walk" /\ graph' = Append(graph, Top.module)
          /\ walks' = Tail(walks)
          /\ phase' = IF Tail(walks) = <<>> THEN "register" ELSE "walk"
      BY <1>3 DEF WalkDone
    <2>2. /\ Top = walks[1] /\ Len(walks) \in Nat \ {0} /\ Top.module \in Module
          /\ walks \in Seq(Frame)
      BY <1>0, <2>1, TopFrame DEF GraphTypeOK, Frame
    <2>3. Visited' = Visited \cup {Top.module}
      BY <1>0, <2>1, <2>2, RangeAppend DEF Visited
    <2>4. Top.module \in Reachable
      BY <2>1, <2>2, WalksReachable
    <2>5. ASSUME Tail(walks) = <<>> PROVE Top.module = Root
      <3>1. ASSUME NEW s \in Seq(Frame), s # <<>>, Tail(s) = <<>> PROVE Len(s) = 1
        <4>1. Len(Tail(s)) = Len(s) - 1 /\ Len(s) \in Nat
          BY <3>1, Dropped
        <4>2. Len(<<>>) = 0
          OBVIOUS
        <4>3. Len(Tail(s)) = 0
          BY <3>1, <4>2
        <4> QED BY <4>1, <4>3
      <3>2. Len(walks) = 1
        BY <2>1, <2>2, <2>5, <3>1
      <3> QED BY <2>1, <2>2, <3>2 DEF PathInv
    <2> QED BY <1>b, <2>1, <2>3, <2>4, <2>5 DEF ReachInv, Graphed
  <1>4. CASE RegisterProvider \/ RegisterClasses \/ EnterNode \/ Checks \/ LeaveNode
    <2>1. /\ graph' = graph /\ phase \notin {"walk", "circular"} /\ phase' # "circular"
      <3>1. CASE RegisterProvider \/ RegisterClasses
        BY <3>1 DEF RegisterProvider, RegisterClasses, Registering, registerFrame
      <3>2. CASE EnterNode \/ LeaveNode
        BY <3>2 DEF EnterNode, LeaveNode, Verdict, frame
      <3>3. CASE Checks
        BY <3>3, CheckFrame
      <3> QED BY <1>4, <3>1, <3>2, <3>3
    <2> QED BY <1>b, <2>1 DEF ReachInv, Graphed, Visited
  <1>5. CASE Later
    <2>1. /\ graph' = graph
          /\ \/ phase' = phase
             \/ phase \notin {"walk", "circular"} /\ phase' # "circular"
      BY <1>0, <1>5, LaterSteps
    <2> QED BY <1>b, <2>1 DEF ReachInv, Graphed, Visited
  <1> QED BY <1>1, <1>2, <1>3, <1>4, <1>5, Cases DEF Walking

(* The walk fails exactly when a reachable module imports itself, and else *)
(* finds the reachable modules.                                            *)
LEMMA ReachImpliesExact ==
  ASSUME IInv, ReachInv
  PROVE  WalkExact
  <1>0. GraphTypeOK /\ Ordered /\ Distinct /\ Declared(app) /\ graph \in Seq(Module)
        /\ Root \in Module /\ Len(graph) \in Nat /\ Visited \subseteq Module
    <2>1. GraphTypeOK /\ Ordered /\ Distinct /\ Declared(app) /\ graph \in Seq(Module)
      BY DEF IInv, GraphTypeOK
    <2> QED BY <2>1, InRange, GraphAssumption DEF Visited
  <1>1. ASSUME Graphed PROVE Visited = Reachable
    <2>1. ImportClosed(Root, Visited)
      <3>1. ASSUME NEW m \in Visited, NEW n \in RangeOf(app.imports[m]) PROVE n \in Visited
        <4>1. PICK i \in 1..Len(graph) : graph[i] = m
          BY <1>0, InRange DEF Visited
        <4>2. PICK j \in 1..(i - 1) : graph[j] = n
          BY <1>0, <4>1 DEF Ordered
        <4>3. j \in 1..Len(graph)
          BY <1>0
        <4> QED BY <1>0, <4>2, <4>3, InRange DEF Visited
      <3> QED BY <1>1, <3>1 DEF ReachInv, ImportClosed, Imported
    <2>2. ImportedBy(Root) \subseteq Visited
      BY <1>0, <2>1, ImportsClosed
    <2> QED BY <1>1, <2>2 DEF ReachInv, Reachable
  <1>2. ASSUME Graphed, NEW m \in Reachable PROVE m \notin ImportedBy(m)
    BY <1>0, <1>1, <1>2, GraphAcyclic
  <1> QED BY <1>1, <1>2 DEF WalkExact, ReachInv, Reachable

LEMMA InitReach == RuntimeInit => PathInv /\ ReachInv
  <1> SUFFICES ASSUME RuntimeInit PROVE PathInv /\ ReachInv
    OBVIOUS
  <1>1. /\ phase = "walk" /\ walks = <<Call(Root)>> /\ resolving = {Root} /\ graph = <<>>
    BY DEF RuntimeInit, Init
  <1>2. Len(walks) = 1 /\ walks[1].module = Root
    BY <1>1 DEF Call
  <1>3. Visited = {}
    BY <1>1 DEF Visited, RangeOf
  <1> QED BY <1>1, <1>2, <1>3 DEF PathInv, ReachInv, Graphed

(* Start-up fails with a circular import exactly when a module reachable   *)
(* from the root imports itself, and else finds every reachable module and *)
(* no other.                                                               *)
THEOREM WalkExactCorrect == Spec => []WalkExact
  <1>1. IInv /\ PathInv /\ ReachInv /\ [Next]_vars => PathInv' /\ ReachInv'
    BY PathStep, ReachStep
  <1>2. IInv /\ ReachInv => WalkExact
    BY ReachImpliesExact
  <1> QED BY <1>1, <1>2, InitReach, InitIInv, IInvStep, PTL DEF Spec

-----------------------------------------------------------------------------
(* What importers override.                                                *)

(* The provider of t is not of a module that m imports.                    *)
Overrides(m, t) == Registered(t) /\ registered[t].by \notin ImportedBy(m)

(* The i-th provider of the h-th module has been registered.               *)
Given(h, i) ==
  \/ phase = "register" /\ (h < at \/ (h = at /\ i < member))
  \/ Graphed /\ phase # "register"
OverInv ==
  \A h \in 1..Len(graph) : \A i \in 1..Len(app.providers[graph[h]]) :
    Given(h, i) => Overrides(graph[h], app.providers[graph[h]][i].provide)

(* No module of the graph imports a later one, or the root.                *)
LEMMA NotLater ==
  ASSUME IInv, ReachInv, NEW h \in 1..Len(graph)
  PROVE  /\ \A j \in h..Len(graph) : graph[j] \notin ImportedBy(graph[h])
         /\ Graphed => Root \notin ImportedBy(graph[h])
  <1>0. /\ GraphTypeOK /\ Ordered /\ Distinct /\ Declared(app) /\ graph \in Seq(Module)
        /\ Len(graph) \in Nat /\ Root \in Module /\ graph[h] \in Module
        /\ graph[h] \in Visited
    <2>1. GraphTypeOK /\ Ordered /\ Distinct /\ Declared(app) /\ graph \in Seq(Module)
      BY DEF IInv, GraphTypeOK
    <2> QED BY <2>1, InRange, GraphAssumption DEF Visited
  <1>1. ASSUME NEW j \in h..Len(graph), graph[j] \in ImportedBy(graph[h]) PROVE FALSE
    <2>1. PICK g \in 1..(h - 1) : graph[g] = graph[j]
      BY <1>0, <1>1, EarlierOnly
    <2>2. g \in 1..Len(graph) /\ j \in 1..Len(graph) /\ g # j
      BY <1>0
    <2> QED BY <1>0, <2>1, <2>2 DEF Distinct
  <1>2. ASSUME Graphed, Root \in ImportedBy(graph[h]) PROVE FALSE
    <2>1. Root \notin ImportedBy(Root)
      BY <1>0, <1>2, GraphAcyclic DEF ReachInv
    <2>2. graph[h] = Root \/ graph[h] \in ImportedBy(Root)
      BY <1>0 DEF ReachInv, Reachable
    <2> QED BY <1>0, <1>2, <2>1, <2>2, ImportsTransitive
  <1> QED BY <1>1, <1>2

LEMMA OverStep ==
  ASSUME IInv, ReachInv, OverInv, [Next]_vars
  PROVE  OverInv'
  <1>0. /\ GraphTypeOK /\ PhaseInv /\ Declared(app) /\ Len(graph) \in Nat
        /\ at \in Nat \ {0} /\ member \in Nat \ {0} /\ registered \in [Token -> Provided]
        /\ graph \in Seq(Module)
    BY DEF IInv, GraphTypeOK, Provided
  <1>a. app' = app
    BY <1>0, RegGrows
  <1>b. \A m : ImportedBy(m)' = ImportedBy(m)
    BY <1>a, SameImports
  <1>c. \A h \in 1..Len(graph) : \A i \in 1..Len(app.providers[graph[h]]) :
          app.providers[graph[h]][i].provide \in Token
    <2>1. ASSUME NEW h \in 1..Len(graph), NEW i \in 1..Len(app.providers[graph[h]])
          PROVE  app.providers[graph[h]][i] \in Provider
      <3>1. app.providers[graph[h]] \in Seq(Provider)
        BY <1>0, AppTypes
      <3> QED BY <3>1
    <2> QED BY <2>1 DEF Provider
  <1>1. CASE Walking
    <2>1. phase' \in {"walk", "circular"} \/ (phase' = "register" /\ at' = 1 /\ member' = 1)
      BY <1>0, <1>1, WalkingFrame DEF PhaseInv
    <2>2. \A h, i : h \in Nat \ {0} /\ i \in Nat \ {0} => ~Given(h, i)'
      BY <2>1 DEF Given, Graphed
    <2>3. \A h \in 1..Len(graph') : \A i \in 1..Len(app'.providers[graph'[h]]) :
            h \in Nat \ {0} /\ i \in Nat \ {0}
      OBVIOUS
    <2> QED BY <2>2, <2>3 DEF OverInv
  <1>2. CASE ~Walking
    <2>0. graph' = graph
      <3>1. CASE RegisterProvider \/ RegisterClasses
        BY <3>1 DEF RegisterProvider, RegisterClasses, registerFrame
      <3>2. CASE EnterNode \/ LeaveNode
        BY <3>2 DEF EnterNode, LeaveNode, frame
      <3>3. CASE Checks
        BY <3>3, CheckFrame
      <3>4. CASE Later
        BY <1>0, <3>4, LaterSteps
      <3> QED BY <1>2, <3>1, <3>2, <3>3, <3>4, Cases
    <2>a. SUFFICES ASSUME NEW h \in 1..Len(graph), NEW i \in 1..Len(app.providers[graph[h]]),
                          Given(h, i)'
                   PROVE  Overrides(graph[h], app.providers[graph[h]][i].provide)'
      BY <1>a, <2>0 DEF OverInv
    <2>b. PICK t \in Token : t = app.providers[graph[h]][i].provide
      BY <1>c
    <2>c. Given(h, i) => Registered(t) /\ registered[t].by \notin ImportedBy(graph[h])
      BY <2>b DEF OverInv, Overrides
    <2>d. SUFFICES registered'[t].by # "none" /\ registered'[t].by \notin ImportedBy(graph[h])
      BY <1>a, <1>b, <2>0, <2>b DEF Overrides, Registered
    <2>e. ASSUME Given(h, i), registered'[t] = registered[t]
          PROVE  registered'[t].by # "none" /\ registered'[t].by \notin ImportedBy(graph[h])
      BY <2>c, <2>e DEF Registered
    <2>1. CASE RegisterProvider
      <3>1. /\ phase = "register" /\ UNCHANGED <<phase, at>> /\ member' = member + 1
            /\ registered' = Replacing(Providers[member]) /\ member <= Len(Providers)
        BY <2>1 DEF RegisterProvider, Registering, registerFrame
      <3>2. at \in 1..Len(graph) /\ Node \in Module /\ Node # "none"
        BY <1>0, <3>1, NodeTyped, GraphAssumption
      <3>3. h <= at /\ (h # at \/ i <= member)
        BY <1>0, <2>a, <3>1 DEF Given, Graphed
      <3>4. Node \notin ImportedBy(graph[h])
        <4>1. at \in h..Len(graph)
          BY <3>2, <3>3
        <4> QED BY <4>1, NotLater DEF Node
      <3>5. registered'[t] = registered[t] \/ registered'[t].by = Node
        BY <1>0, <3>1 DEF Replacing
      <3>6. ASSUME ~Given(h, i) PROVE registered'[t].by = Node
        <4>1. h = at /\ i = member
          BY <1>0, <3>1, <3>3, <3>6 DEF Given
        <4>2. Providers[member].provide = t
          BY <2>b, <4>1 DEF Providers, Node
        <4> QED BY <1>0, <3>1, <4>2 DEF Replacing
      <3> QED BY <2>e, <3>2, <3>4, <3>5, <3>6
    <2>2. CASE RegisterClasses
      <3>1. /\ phase = "register" /\ member > Len(Providers)
            /\ registered' = [c \in Token |-> IF c \in NewClasses(Node) THEN ClassProvider(c, Node)
                                              ELSE registered[c]]
            /\ IF at < Len(graph) THEN at' = at + 1 /\ phase' = phase
                                  ELSE at' = 1 /\ phase' = "validate"
            /\ member' = 1
        BY <2>2 DEF RegisterClasses, Registering, registerFrame
      <3>2. Given(h, i)
        <4>1. at \in 1..Len(graph) /\ Len(Providers) \in Nat
          BY <1>0, <3>1, NodeTyped
        <4>2. h < at \/ h = at
          BY <1>0, <2>a, <3>1, <4>1 DEF Given, Graphed
        <4>3. h = at => i < member
          BY <1>0, <3>1, <4>1 DEF Providers, Node
        <4> QED BY <3>1, <4>2, <4>3 DEF Given
      <3>3. t \notin NewClasses(Node)
        BY <2>c, <3>2 DEF NewClasses
      <3> QED BY <2>e, <3>1, <3>2, <3>3
    <2>3. CASE CheckAdopt
      <3>1. phase = "check"
        BY <2>3 DEF CheckAdopt, Hidden, Checking
      <3>2. Given(h, i)
        BY <3>1 DEF Given, Graphed
      <3>3. registered'[t] = registered[t]
        BY <1>0, <2>3, <2>c, <3>2 DEF CheckAdopt
      <3> QED BY <2>e, <3>2, <3>3
    <2>4. CASE EnterNode \/ LeaveNode \/ (Checks /\ ~CheckAdopt)
      <3>1. registered' = registered /\ phase \in {"validate", "check"}
        <4>1. registered' = registered
          BY <2>4 DEF EnterNode, LeaveNode, Checks, CheckVisible, CheckOwned, CheckRuntime,
                      CheckMissing, CheckReturn, Report, frame
        <4>2. CASE EnterNode \/ LeaveNode
          BY <4>1, <4>2 DEF EnterNode, LeaveNode
        <4>3. CASE Checks
          BY <4>1, <4>3, CheckFrame
        <4> QED BY <2>4, <4>2, <4>3
      <3>2. Given(h, i)
        BY <3>1 DEF Given, Graphed
      <3> QED BY <2>e, <3>1, <3>2
    <2>5. CASE Later
      <3>1. CASE phase \in {"valid", "scan", "bind"}
        <4>1. Given(h, i) /\ Graphed
          BY <3>1 DEF Given, Graphed
        <4>2. registered'[t] = registered[t] \/ registered'[t].by = Root
          BY <1>0, <2>5, LaterSteps DEF WithSender, NotRegistered
        <4>3. Root \notin ImportedBy(graph[h]) /\ Root # "none"
          BY <4>1, NotLater, GraphAssumption
        <4> QED BY <2>e, <4>1, <4>2, <4>3
      <3>2. CASE UNCHANGED <<phase, at, member, registered>>
        <4>1. Given(h, i)
          BY <2>a, <3>2 DEF Given, Graphed
        <4> QED BY <2>e, <3>2, <4>1
      <3> QED BY <1>0, <2>5, <3>1, <3>2, LaterSteps
    <2> QED BY <1>2, <2>1, <2>2, <2>3, <2>4, <2>5, Cases
  <1> QED BY <1>1, <1>2

(* A module's provider replaces those of the modules it imports, by        *)
(* whatever path, and is never replaced by one of theirs.                  *)
THEOREM OverridesCorrect == Spec => []ImporterOverrides
  <1>1. RuntimeInit => OverInv
    BY DEF RuntimeInit, Init, OverInv
  <1>2. IInv /\ PathInv /\ ReachInv /\ OverInv /\ [Next]_vars => PathInv' /\ ReachInv' /\ OverInv'
    BY PathStep, ReachStep, OverStep
  <1>3. IInv /\ OverInv => ImporterOverrides
    <2> SUFFICES ASSUME IInv, OverInv, Graphed, phase # "register", NEW m \in Visited,
                        NEW i \in DOMAIN app.providers[m]
                 PROVE  registered[app.providers[m][i].provide].by \notin ImportedBy(m)
      BY DEF ImporterOverrides
    <2>1. graph \in Seq(Module) /\ Declared(app)
      BY DEF IInv, GraphTypeOK
    <2>2. PICK h \in 1..Len(graph) : graph[h] = m
      BY <2>1, InRange DEF Visited
    <2>3. i \in 1..Len(app.providers[graph[h]])
      <3>1. app.providers[m] \in Seq(Provider)
        BY <2>1, <2>2, AppTypes
      <3> QED BY <2>2, <3>1
    <2> QED BY <2>2, <2>3 DEF OverInv, Given, Overrides
  <1> QED BY <1>1, <1>2, <1>3, InitReach, InitIInv, IInvStep, PTL DEF Spec

-----------------------------------------------------------------------------
(* What a module adopts is the least set closed under its orphans' needs.  *)
LEMMA AdoptedClosed ==
  ASSUME NEW m
  PROVE  /\ Adopted(m) \subseteq Orphans(m)
         /\ Needs(m) \cap Orphans(m) \subseteq Adopted(m)
         /\ \A S \in SUBSET Orphans(m) :
              (Uses(m) \cup DepsOf(S)) \cap Orphans(m) \subseteq S => Adopted(m) \subseteq S
  <1> DEFINE Closed(S) == (Uses(m) \cup DepsOf(S)) \cap Orphans(m) \subseteq S
  <1>1. Adopted(m) = {c \in Orphans(m) : \A S \in SUBSET Orphans(m) : Closed(S) => c \in S}
    BY DEF Adopted
  <1>2. ASSUME NEW S \in SUBSET Orphans(m), Closed(S) PROVE Adopted(m) \subseteq S
    BY <1>1, <1>2
  <1>3. ASSUME NEW d \in Needs(m), d \in Orphans(m) PROVE d \in Adopted(m)
    <2>1. ASSUME NEW S \in SUBSET Orphans(m), Closed(S) PROVE d \in S
      <3>1. Adopted(m) \subseteq S
        BY <1>2, <2>1
      <3>2. d \in Uses(m) \cup DepsOf(S)
        BY <3>1 DEF Needs, DepsOf
      <3> QED BY <1>3, <2>1, <3>2
    <2> QED BY <1>1, <1>3, <2>1
  <1> QED BY <1>1, <1>2, <1>3

(* What validation promises of a module it passes.                         *)
Good(m) ==
  /\ app.exports[m] \subseteq OwnTokens(m)
  /\ Needs(m) \ (VisibleTo(m) \cup Adopted(m)) \subseteq Unowned(RuntimeToken)

LEMMA SameModules ==
  ASSUME app' = app, graph' = graph
  PROVE  /\ \A m : VisibleTo(m)' = VisibleTo(m) /\ Adopted(m)' = Adopted(m)
         /\ \A m : Uses(m)' = Uses(m) /\ Needs(m)' = Needs(m)
         /\ \A T : Unowned(T)' = Unowned(T)
         /\ \A m : Good(m)' <=> Good(m)
  <1>1. \A m : OwnTokens(m)' = OwnTokens(m) /\ Consumers(m)' = Consumers(m)
    BY SameMeaning
  <1>2. \A T : Unowned(T)' = Unowned(T)
    BY <1>1 DEF Unowned, Owners
  <1>3. \A m : VisibleTo(m)' = VisibleTo(m) /\ Uses(m)' = Uses(m)
    BY <1>1 DEF VisibleTo, Exported, Uses
  <1>4. \A m : Adopted(m)' = Adopted(m)
    BY <1>2, <1>3 DEF Adopted, Orphans, DepsOf
  <1>5. \A m : Needs(m)' = Needs(m)
    BY <1>3, <1>4 DEF Needs, DepsOf
  <1> QED BY <1>1, <1>2, <1>3, <1>4, <1>5 DEF Good

(* While a node is checked: what is visible is what it sees and adopts,    *)
(* what is pending it needs, and what it needs so far is pending unless    *)
(* there is nothing to say of it.                                          *)
Passed(d) == Pend(d, work) \/ d \in visible \/ d \in Unowned(RuntimeToken)
CheckInv ==
  phase = "check" =>
    /\ VisibleTo(Node) \subseteq visible
    /\ visible \subseteq VisibleTo(Node) \cup Adopted(Node)
    /\ \A d : Pend(d, work) => d \in Needs(Node)
    /\ diagnostics = {} =>
         \A d \in Uses(Node) \cup DepsOf(visible \ VisibleTo(Node)) : Passed(d)

(* The nodes that have been checked.                                       *)
Left(j) ==
  \/ phase \in {"validate", "check"} /\ j < at
  \/ phase \in {"valid", "scan", "bind", "running"}

VerdictInv ==
  /\ diagnostics = {} => \A j \in 1..Len(graph) : Left(j) => Good(graph[j])
  /\ diagnostics # {} => \E m \in Visited : ~Good(m)
  /\ phase \in {"walk", "circular", "register"} => diagnostics = {}
  /\ phase = "invalid" => diagnostics # {}

ValInv == CheckInv /\ VerdictInv

(* The consumers of a module hold its uses.                                *)
LEMMA PendConsumers ==
  ASSUME Declared(app), NEW m \in Module, NEW d
  PROVE  Pend(d, Consumers(m)) <=> d \in Uses(m)
  <1>1. DOMAIN Consumers(m) = 1..Len(Consumers(m))
    BY ConsumersHave
  <1> QED BY <1>1 DEF Pend, Uses

(* A check's token is one its node needs.                                  *)
LEMMA DepPending ==
  ASSUME GraphTypeOK, Checking
  PROVE  /\ Pend(Dep, work)
         /\ \A d : Pend(d, Checked) => Pend(d, work)
  <1>1. /\ Len(Checked) = Len(work) /\ Len(work) \in Nat \ {0}
        /\ Checked[1].deps = Tail(work[1].deps)
        /\ \A j \in 2..Len(work) : Checked[j] = work[j]
        /\ work[1].deps \in Seq(Token) /\ work[1].deps # <<>> /\ Dep = Head(work[1].deps)
    BY TopCheck
  <1>2. ASSUME NEW s \in Seq(Token), s # <<>>
        PROVE  Head(s) \in RangeOf(s) /\ RangeOf(Tail(s)) \subseteq RangeOf(s)
    <2>1. /\ Len(s) \in Nat \ {0} /\ Head(s) = s[1] /\ Tail(s) \in Seq(Token)
          /\ Len(Tail(s)) = Len(s) - 1
          /\ \A i \in 1..Len(Tail(s)) : Tail(s)[i] = s[i + 1]
      BY <1>2, Dropped
    <2>2. Head(s) \in RangeOf(s)
      BY <2>1, InRange
    <2>3. ASSUME NEW x \in RangeOf(Tail(s)) PROVE x \in RangeOf(s)
      <3>0. PICK t : t = Tail(s) /\ t \in Seq(Token) /\ x \in RangeOf(t)
        BY <2>1, <2>3
      <3>1. PICK i \in 1..Len(t) : Tail(s)[i] = x
        BY <3>0, InRange
      <3>2. i + 1 \in 1..Len(s) /\ s[i + 1] = x
        BY <2>1, <3>0, <3>1
      <3> QED BY <3>2, InRange
    <2> QED BY <2>2, <2>3
  <1>3. Pend(Dep, work)
    BY <1>1, <1>2 DEF Pend
  <1>4. ASSUME NEW d, Pend(d, Checked) PROVE Pend(d, work)
    <2>1. PICK k \in 1..Len(Checked) : d \in RangeOf(Checked[k].deps)
      BY <1>4 DEF Pend
    <2>2. CASE k = 1
      BY <1>1, <1>2, <2>1, <2>2 DEF Pend
    <2>3. CASE k # 1
      BY <1>1, <2>1, <2>3 DEF Pend
    <2> QED BY <2>2, <2>3
  <1> QED BY <1>3, <1>4

(* A check of no more tokens holds none back.                              *)
LEMMA PendReturned ==
  ASSUME GraphTypeOK, CheckReturn, NEW d
  PROVE  Pend(d, Tail(work)) <=> Pend(d, work)
  <1>1. /\ work \in Seq(Pending) /\ work # <<>> /\ work[1].deps = <<>>
        /\ Len(work) \in Nat \ {0} /\ Len(Tail(work)) = Len(work) - 1
        /\ \A k \in 1..Len(Tail(work)) : Tail(work)[k] = work[k + 1]
    <2>1. work \in Seq(Pending) /\ work # <<>> /\ Head(work).deps = <<>>
      BY DEF CheckReturn, GraphTypeOK, Pending
    <2> QED BY <2>1, Dropped
  <1>2. ASSUME Pend(d, work) PROVE Pend(d, Tail(work))
    <2>1. PICK k \in 1..Len(work) : d \in RangeOf(work[k].deps)
      BY <1>2 DEF Pend
    <2>2. k # 1
      BY <1>1, <2>1 DEF RangeOf
    <2>3. PICK h \in 1..Len(Tail(work)) : h + 1 = k /\ Tail(work)[h] = work[k]
      BY <1>1, <2>2
    <2> QED BY <2>1, <2>3 DEF Pend
  <1>3. ASSUME Pend(d, Tail(work)) PROVE Pend(d, work)
    <2>1. PICK h \in 1..Len(Tail(work)) : d \in RangeOf(Tail(work)[h].deps)
      BY <1>3 DEF Pend
    <2>2. PICK k \in 1..Len(work) : h + 1 = k /\ Tail(work)[h] = work[k]
      BY <1>1
    <2> QED BY <2>1, <2>2 DEF Pend
  <1> QED BY <1>2, <1>3

(* What a consumer needs and nobody owns, a class, is adopted.             *)
LEMMA NeededClass ==
  ASSUME NEW m, NEW d \in Needs(m), d \in ClassToken, Owners(d) = {}, d \notin VisibleTo(m)
  PROVE  d \in Adopted(m)
  BY AdoptedClosed DEF Orphans, Unowned

(* The other half of PendAdopted.                                          *)
LEMMA AdoptedPend ==
  ASSUME GraphTypeOK, Checking, Dep \in ClassToken, NEW d, Pend(d, AdoptedChecks)
  PROVE  d \in RangeOf(ClassDeps[Dep]) \/ Pend(d, Checked)
  <1>1. Checked \in Seq(Pending) /\ Len(Checked) \in Nat
    BY TopCheck
  <1>2. Check(Dep, ClassDeps[Dep]) \in Pending
    BY TopCheck, GraphAssumption DEF Check, Pending
  <1>3. /\ Len(AdoptedChecks) = Len(Checked) + 1
        /\ AdoptedChecks[1] = Check(Dep, ClassDeps[Dep])
        /\ \A k \in 2..(Len(Checked) + 1) : AdoptedChecks[k] = Checked[k - 1]
    BY <1>1, <1>2, Pushed DEF AdoptedChecks
  <1>4. PICK k \in 1..Len(AdoptedChecks) : d \in RangeOf(AdoptedChecks[k].deps)
    BY DEF Pend
  <1>5. CASE k = 1
    BY <1>3, <1>4, <1>5 DEF Check
  <1>6. CASE k # 1
    <2>1. PICK h \in 1..Len(Checked) : h = k - 1 /\ AdoptedChecks[k] = Checked[h]
      BY <1>1, <1>3, <1>6
    <2> QED BY <1>4, <2>1 DEF Pend
  <1> QED BY <1>5, <1>6

LEMMA CheckStep ==
  ASSUME GraphTypeOK, PhaseInv, CheckInv, [Next]_vars
  PROVE  CheckInv'
  <1>0. /\ at \in Nat \ {0} /\ member \in Nat \ {0} /\ Declared(app)
    BY DEF GraphTypeOK
  <1>1. CASE EnterNode
    <2>1. /\ phase = "validate" /\ UNCHANGED <<app, graph, at>> /\ work' = Consumers(Node)
          /\ visible' = VisibleTo(Node) /\ Node' = Node
      BY <1>1 DEF EnterNode, frame, VisibleTo, Node
    <2>2. Node \in Module
      BY <2>1, NodeTyped
    <2>3. \A d : Pend(d, work') <=> d \in Uses(Node)
      BY <1>0, <2>1, <2>2, PendConsumers
    <2>4. Uses(Node) \subseteq Needs(Node)
      BY DEF Needs
    <2>5. \A d \in Uses(Node) : Passed(d)'
      BY <2>3 DEF Passed, Pend
    <2>6. PICK m : m = Node
      OBVIOUS
    <2>7. /\ VisibleTo(m)' = visible' /\ Uses(m)' = Uses(m) /\ Needs(m)' = Needs(m)
      BY <2>1, <2>6, SameModules
    <2>8. DepsOf({}) = {}
      BY DEF DepsOf
    <2>9. (visible \ VisibleTo(m))' = {}
      BY <2>7
    <2> QED BY <2>1, <2>3, <2>4, <2>5, <2>6, <2>7, <2>8, <2>9 DEF CheckInv, Pend
  <1>2. CASE Checks
    <2>1. /\ phase = "check" /\ UNCHANGED <<app, graph, phase, at>> /\ Node' = Node
          /\ diagnostics' = {} => diagnostics = {} /\ ~CheckOwned /\ ~CheckMissing
      BY <1>2, CheckFrame DEF Node
    <2>2. PICK m : m = Node
      OBVIOUS
    <2>3. /\ VisibleTo(m)' = VisibleTo(m) /\ Adopted(m)' = Adopted(m)
          /\ Uses(m)' = Uses(m) /\ Needs(m)' = Needs(m)
          /\ Unowned(RuntimeToken)' = Unowned(RuntimeToken)
      BY <2>1, SameModules
    <2>4. SUFFICES /\ VisibleTo(m) \subseteq visible'
                   /\ visible' \subseteq VisibleTo(m) \cup Adopted(m)
                   /\ \A d : Pend(d, work') => d \in Needs(m)
                   /\ diagnostics' = {} =>
                        \A d \in Uses(m) \cup DepsOf(visible' \ VisibleTo(m)) :
                          Pend(d, work') \/ d \in visible' \/ d \in Unowned(RuntimeToken)
      BY <2>1, <2>2, <2>3 DEF CheckInv, Passed, Pend
    <2>5. /\ VisibleTo(m) \subseteq visible
          /\ visible \subseteq VisibleTo(m) \cup Adopted(m)
          /\ \A d : Pend(d, work) => d \in Needs(m)
          /\ diagnostics = {} =>
               \A d \in Uses(m) \cup DepsOf(visible \ VisibleTo(m)) : Passed(d)
      BY <2>1, <2>2 DEF CheckInv
    <2>6. CASE CheckVisible \/ CheckRuntime
      <3>1. Checking /\ work' = Checked /\ visible' = visible
            /\ (Dep \in visible \/ (Owners(Dep) = {} /\ Dep \in RuntimeToken))
        BY <2>6 DEF CheckVisible, CheckRuntime, Hidden
      <3>2. Dep \in visible \/ Dep \in Unowned(RuntimeToken)
        BY <3>1 DEF Unowned
      <3> QED BY <2>1, <2>5, <3>1, <3>2, PendChecked, DepPending DEF Passed
    <2>7. CASE CheckOwned \/ CheckMissing
      <3>1. Checking /\ work' = Checked /\ visible' = visible /\ diagnostics' # {}
        BY <2>7 DEF CheckOwned, CheckMissing, Hidden, Report
      <3> QED BY <2>5, <3>1, DepPending
    <2>8. CASE CheckAdopt
      <3>1. /\ Checking /\ Dep \notin visible /\ Owners(Dep) = {} /\ Dep \in ClassToken
            /\ work' = AdoptedChecks /\ visible' = visible \cup {Dep}
        BY <2>8 DEF CheckAdopt, Hidden
      <3>2. Dep \in Needs(m)
        BY <2>5, <3>1, DepPending
      <3>3. Dep \in Adopted(m)
        BY <2>5, <3>1, <3>2, NeededClass
      <3>4. RangeOf(ClassDeps[Dep]) \subseteq Needs(m)
        BY <3>3 DEF Needs, DepsOf
      <3>5. \A d : Pend(d, AdoptedChecks) => d \in RangeOf(ClassDeps[Dep]) \/ Pend(d, Checked)
        BY <3>1, AdoptedPend
      <3>6. \A d : Pend(d, work') => d \in Needs(m)
        BY <2>5, <3>1, <3>4, <3>5, DepPending
      <3>7. DepsOf(visible' \ VisibleTo(m)) \subseteq
              DepsOf(visible \ VisibleTo(m)) \cup RangeOf(ClassDeps[Dep])
        BY <3>1 DEF DepsOf
      <3>8. ASSUME diagnostics = {}, NEW d \in Uses(m) \cup DepsOf(visible' \ VisibleTo(m))
            PROVE  Pend(d, work') \/ d \in visible' \/ d \in Unowned(RuntimeToken)
        <4>1. CASE d \in RangeOf(ClassDeps[Dep])
          BY <3>1, <4>1, PendAdopted
        <4>2. CASE d \notin RangeOf(ClassDeps[Dep])
          <5>1. Passed(d)
            BY <2>5, <3>7, <3>8, <4>2
          <5>2. CASE Pend(d, work)
            BY <3>1, <5>2, PendChecked, PendAdopted
          <5> QED BY <3>1, <5>1, <5>2 DEF Passed
        <4> QED BY <4>1, <4>2
      <3> QED BY <2>1, <2>5, <3>1, <3>3, <3>6, <3>8
    <2>9. CASE CheckReturn
      <3>1. work' = Tail(work) /\ visible' = visible
        BY <2>9 DEF CheckReturn
      <3>2. \A d : Pend(d, work') <=> Pend(d, work)
        BY <2>9, <3>1, PendReturned
      <3> QED BY <2>1, <2>5, <3>1, <3>2 DEF Passed
    <2> QED BY <1>2, <2>6, <2>7, <2>8, <2>9 DEF Checks
  <1>3. CASE Walking \/ RegisterProvider \/ RegisterClasses \/ LeaveNode
    <2>1. phase' # "check"
      BY <1>3, WalkingFrame DEF RegisterProvider, RegisterClasses, Registering, LeaveNode, Verdict
    <2> QED BY <2>1 DEF CheckInv
  <1>4. CASE Later
    <2>1. /\ UNCHANGED <<app, graph, work, visible, diagnostics>>
          /\ phase' \in {"scan", "bind", "running"} \/ UNCHANGED <<phase, at>>
      BY <1>0, <1>4, LaterSteps
    <2>2. CASE phase' \in {"scan", "bind", "running"}
      BY <2>2 DEF CheckInv
    <2>3. CASE UNCHANGED <<phase, at>>
      <3>1. Node' = Node
        BY <2>1, <2>3 DEF Node
      <3>2. PICK m : m = Node
        OBVIOUS
      <3>3. /\ VisibleTo(m)' = VisibleTo(m) /\ Adopted(m)' = Adopted(m)
            /\ Uses(m)' = Uses(m) /\ Needs(m)' = Needs(m)
            /\ Unowned(RuntimeToken)' = Unowned(RuntimeToken)
        BY <2>1, SameModules
      <3> QED BY <2>1, <2>3, <3>1, <3>2, <3>3 DEF CheckInv, Passed, Pend, DepsOf
    <2> QED BY <2>1, <2>2, <2>3
  <1> QED BY <1>1, <1>2, <1>3, <1>4, Cases

(* A node that reports nothing is good.                                    *)
LEMMA NodeGood ==
  ASSUME GraphTypeOK, PhaseInv, ExpInv, CheckInv, phase = "check", work = <<>>,
         diagnostics = {}
  PROVE  Good(Node)
  <1>0. at \in 1..Len(graph) /\ Node \in Module /\ RuntimeToken \cap ClassToken = {}
    BY NodeTyped, GraphAssumption
  <1>1. app.exports[Node] \subseteq OwnTokens(Node)
    BY <1>0 DEF ExpInv, Entered, Node
  <1> DEFINE A == visible \ VisibleTo(Node)
  <1>2. /\ VisibleTo(Node) \subseteq visible
        /\ A \subseteq Adopted(Node)
        /\ \A d \in Uses(Node) \cup DepsOf(A) : Passed(d)
    BY DEF CheckInv
  <1>3. \A d : ~Pend(d, work)
    BY DEF Pend
  <1>4. \A d \in Uses(Node) \cup DepsOf(A) : d \in visible \/ d \in Unowned(RuntimeToken)
    BY <1>2, <1>3 DEF Passed
  <1>5. A \in SUBSET Orphans(Node)
    BY <1>2, AdoptedClosed
  <1>6. (Uses(Node) \cup DepsOf(A)) \cap Orphans(Node) \subseteq A
    BY <1>0, <1>4 DEF Orphans, Unowned
  <1>7. Adopted(Node) = A
    BY <1>2, <1>5, <1>6, AdoptedClosed
  <1>8. Needs(Node) \ (VisibleTo(Node) \cup Adopted(Node)) \subseteq Unowned(RuntimeToken)
    BY <1>2, <1>4, <1>7 DEF Needs
  <1> QED BY <1>1, <1>8 DEF Good

(* What is reported is so.                                                 *)
LEMMA ReportedBad ==
  ASSUME GraphTypeOK, PhaseInv, CheckInv, CheckOwned \/ CheckMissing
  PROVE  ~Good(Node)
  <1>1. Checking /\ Dep \notin visible /\ phase = "check"
    BY DEF CheckOwned, CheckMissing, Hidden, Checking
  <1>2. Dep \in Needs(Node) /\ Dep \notin VisibleTo(Node)
    BY <1>1, DepPending DEF CheckInv
  <1>3. Owners(Dep) # {} \/ Dep \notin ClassToken \cup RuntimeToken
    BY DEF CheckOwned, CheckMissing
  <1>4. Dep \notin Adopted(Node) /\ Dep \notin Unowned(RuntimeToken)
    BY <1>3, AdoptedClosed DEF Orphans, Unowned
  <1> QED BY <1>2, <1>4 DEF Good

LEMMA VerdictStep ==
  ASSUME GraphTypeOK, PhaseInv, ExpInv, CheckInv, VerdictInv, [Next]_vars
  PROVE  VerdictInv'
  <1>0. /\ at \in Nat \ {0} /\ member \in Nat \ {0} /\ Declared(app) /\ Len(graph) \in Nat
    BY DEF GraphTypeOK
  <1>1. CASE Walking
    <2>1. diagnostics' = {} /\ phase' \in {"walk", "circular", "register"}
      BY <1>1, WalkingFrame DEF VerdictInv
    <2> QED BY <2>1 DEF VerdictInv, Left
  <1>2. CASE RegisterProvider \/ RegisterClasses
    <2>1. /\ phase' = "register" \/ (phase' = "validate" /\ at' = 1)
          /\ diagnostics' = {}
      BY <1>2 DEF VerdictInv, RegisterProvider, RegisterClasses, Registering, registerFrame
    <2>2. \A j \in 1..Len(graph') : ~Left(j)'
      BY <2>1 DEF Left
    <2> QED BY <2>1, <2>2 DEF VerdictInv
  <1>3. ASSUME UNCHANGED <<app, graph>>, phase' \notin {"walk", "circular", "register"},
               \A j \in 1..Len(graph) : Left(j)' /\ diagnostics' = {} =>
                  diagnostics = {} /\ (Left(j) \/ Good(graph[j])),
               diagnostics' # {} => diagnostics # {} \/ \E m \in Visited : ~Good(m),
               phase' = "invalid" => diagnostics' # {}
        PROVE  VerdictInv'
    <2>1. \A m : Good(m)' <=> Good(m)
      BY <1>3, SameModules
    <2>2. Visited' = Visited
      BY <1>3 DEF Visited
    <2>3. ASSUME diagnostics' = {}, NEW j \in 1..Len(graph), Left(j)' PROVE Good(graph[j])'
      <3>1. PICK m : m = graph[j]
        OBVIOUS
      <3>2. Good(m)
        BY <1>3, <2>3, <3>1 DEF VerdictInv
      <3>3. Good(m)' /\ graph' = graph
        BY <1>3, <2>1, <3>2
      <3> QED BY <1>3, <2>1, <3>1, <3>2 DEF Good
    <2>4. diagnostics' # {} => \E m \in Visited' : ~Good(m)'
      BY <1>3, <2>1, <2>2 DEF VerdictInv
    <2> QED BY <1>3, <2>1, <2>2, <2>3, <2>4 DEF VerdictInv
  <1>4. CASE EnterNode
    <2>1. /\ UNCHANGED <<app, graph, at>> /\ phase = "validate" /\ phase' = "check"
          /\ diagnostics' = diagnostics \cup BadExports
      BY <1>4 DEF EnterNode, frame
    <2>2. BadExports # {} => ~Good(Node)
      BY DEF BadExports, Good
    <2>3. Node \in Visited
      BY <2>1, NodeTyped
    <2>4. \A j : Left(j)' => Left(j)
      BY <2>1 DEF Left
    <2> QED BY <1>3, <2>1, <2>2, <2>3, <2>4
  <1>5. CASE Checks
    <2>1. /\ UNCHANGED <<app, graph, at, phase>> /\ phase = "check"
          /\ diagnostics' = {} => diagnostics = {}
      BY <1>5, CheckFrame
    <2>2. diagnostics' = diagnostics \/ ~Good(Node)
      <3>1. CASE CheckOwned \/ CheckMissing
        BY <3>1, ReportedBad
      <3>2. CASE ~(CheckOwned \/ CheckMissing)
        BY <1>5, <3>2 DEF Checks, CheckVisible, CheckAdopt, CheckRuntime, CheckReturn
      <3> QED BY <3>1, <3>2
    <2>3. Node \in Visited
      BY <2>1, NodeTyped
    <2>4. \A j : Left(j)' => Left(j)
      BY <2>1 DEF Left
    <2> QED BY <1>3, <2>1, <2>2, <2>3, <2>4
  <1>6. CASE LeaveNode
    <2>1. /\ UNCHANGED <<app, graph, diagnostics>> /\ phase = "check" /\ work = <<>>
          /\ at' = at + 1
          /\ phase' = IF at < Len(graph) THEN "validate" ELSE Verdict
      BY <1>6 DEF LeaveNode, frame
    <2>2. at \in 1..Len(graph)
      BY <2>1, NodeTyped
    <2>3. diagnostics = {} => Good(Node)
      BY <2>1, NodeGood
    <2>4. \A j \in 1..Len(graph) : Left(j)' => Left(j) \/ j = at
      BY <1>0, <2>1, <2>2 DEF Left, Verdict
    <2>5. \A j \in 1..Len(graph) : Left(j)' /\ diagnostics' = {} =>
                  diagnostics = {} /\ (Left(j) \/ Good(graph[j]))
      BY <2>1, <2>3, <2>4 DEF Node
    <2> QED BY <1>3, <2>1, <2>5 DEF Verdict
  <1>7. CASE Later
    <2>1. /\ UNCHANGED <<app, graph, diagnostics>>
          /\ \/ phase \in {"valid", "scan", "bind"} /\ phase' \in {"scan", "bind", "running"}
             \/ UNCHANGED <<phase, at>>
      BY <1>0, <1>7, LaterSteps
    <2>2. CASE phase \in {"valid", "scan", "bind"} /\ phase' \in {"scan", "bind", "running"}
      <3>1. \A j : Left(j)' /\ Left(j)
        BY <2>2 DEF Left
      <3> QED BY <1>3, <2>1, <2>2, <3>1
    <2>3. CASE UNCHANGED <<phase, at>>
      <3>1. \A j : Left(j)' <=> Left(j)
        BY <2>3 DEF Left
      <3>2. \A m : Good(m)' <=> Good(m)
        BY <2>1, SameModules
      <3>3. Visited' = Visited
        BY <2>1 DEF Visited
      <3>4. CASE phase \in {"walk", "circular", "register"}
        BY <2>1, <2>3, <3>4 DEF VerdictInv, Left
      <3>5. CASE phase \notin {"walk", "circular", "register"}
        BY <1>3, <2>1, <2>3, <3>1, <3>5 DEF VerdictInv
      <3> QED BY <3>4, <3>5
    <2> QED BY <2>1, <2>2, <2>3
  <1> QED BY <1>1, <1>2, <1>4, <1>5, <1>6, <1>7, Cases

(* An application is accepted exactly when its modules export what they    *)
(* own and need only what they see, adopt or get from the runtime.         *)
THEOREM ValidationCorrect == Spec => []ValidationExact
  <1>1. RuntimeInit => ExpInv /\ ValInv
    <2> SUFFICES ASSUME RuntimeInit PROVE ExpInv /\ ValInv
      OBVIOUS
    <2>1. phase = "walk" /\ diagnostics = {}
      BY DEF RuntimeInit, Init
    <2> QED BY <2>1 DEF ExpInv, Entered, ValInv, CheckInv, VerdictInv, Left
  <1>2. IInv /\ ExpInv /\ ValInv /\ [Next]_vars => ExpInv' /\ ValInv'
    BY ExpStep, CheckStep, VerdictStep DEF IInv, ValInv
  <1>3. IInv /\ ValInv => ValidationExact
    <2> SUFFICES ASSUME IInv, ValInv, Graphed,
                        phase \notin {"register", "validate", "check"}
                 PROVE  Accepted <=> \A m \in Visited : Good(m)
      BY DEF ValidationExact, Good
    <2>0. graph \in Seq(Module) /\ PhaseInv
      BY DEF IInv, GraphTypeOK
    <2>1. CASE phase = "invalid"
      BY <2>1 DEF ValInv, VerdictInv, Accepted
    <2>2. CASE phase # "invalid"
      <3>1. Accepted /\ phase \in {"valid", "scan", "bind", "running"} /\ diagnostics = {}
        BY <2>0, <2>2 DEF Accepted, PhaseInv, Phases, Graphed
      <3>2. \A j \in 1..Len(graph) : Good(graph[j])
        BY <3>1 DEF ValInv, VerdictInv, Left
      <3> QED BY <2>0, <3>1, <3>2, InRange DEF Visited
    <2> QED BY <2>1, <2>2
  <1> QED BY <1>1, <1>2, <1>3, InitIInv, IInvStep, PTL DEF Spec

-----------------------------------------------------------------------------
(* What the scanners leave in the registry.                                *)

(* A set of natural numbers that is not empty has a least element.         *)
LEMMA LeastNat ==
  ASSUME NEW B \in SUBSET Nat, B # {}
  PROVE  \E m \in B : \A e \in B : m <= e
  <1>1. PICK m \in B : \A e \in B : ~(<<e, m>> \in OpToRel(<, Nat))
    BY NatLessThanWellFounded, WFMin
  <1>2. \A e \in B : ~(e < m)
    BY <1>1 DEF OpToRel
  <1>3. \A e \in B : m <= e
    BY <1>2
  <1> QED BY <1>3

(* A set of indices that is not empty has a first and a last.              *)
LEMMA FirstLast ==
  ASSUME NEW n \in Nat, NEW I \in SUBSET (1..n), I # {}
  PROVE  /\ First(I) \in I /\ First(I) # 0
         /\ Last(I) \in I /\ Last(I) # 0
  <1>1. I \in SUBSET Nat /\ 0 \notin I
    OBVIOUS
  <1>2. \E m \in I : \A e \in I : m <= e
    BY <1>1, LeastNat
  <1>3. PICK B : B = {n - i : i \in I}
    OBVIOUS
  <1>4. B \in SUBSET Nat /\ B # {}
    <2>1. \A i \in I : i \in Int /\ i <= n
      OBVIOUS
    <2>2. \A i \in I : n - i \in Nat
      BY <2>1
    <2> QED BY <1>3, <2>2
  <1>5. PICK b \in B : \A e \in B : b <= e
    BY <1>4, LeastNat
  <1>6. PICK m \in I : b = n - m
    BY <1>3, <1>5
  <1>7. ASSUME NEW e \in I PROVE e <= m
    <2>1. n - e \in B
      BY <1>3
    <2>2. n - m <= n - e
      BY <1>5, <1>6, <2>1
    <2>3. e \in Int /\ m \in Int
      OBVIOUS
    <2> QED BY <2>2, <2>3
  <1>8. First(I) = CHOOSE i \in I : \A j \in I : i <= j
    BY DEF First
  <1>9. Last(I) = CHOOSE i \in I : \A j \in I : j <= i
    BY DEF Last
  <1>10. First(I) \in I
    BY <1>2, <1>8
  <1>11. Last(I) \in I
    BY <1>7, <1>9
  <1> QED BY <1>1, <1>10, <1>11

-----------------------------------------------------------------------------
(* What Only selects.                                                      *)

Below(I, i) == {j \in I : j < i}

LEMMA Ranks ==
  ASSUME NEW n \in Nat, NEW I \in SUBSET (1..n)
  PROVE  /\ Cardinality(I) \in Nat
         /\ \A i \in I : Cardinality(Below(I, i)) \in 0..(Cardinality(I) - 1)
         /\ \A i, j \in I : Cardinality(Below(I, i)) = Cardinality(Below(I, j)) => i = j
         /\ \A k \in 1..Cardinality(I) : \E i \in I : Cardinality(Below(I, i)) = k - 1
  <1>1. IsFiniteSet(I)
    <2>1. IsFiniteSet(1..n)
      BY FS_Interval
    <2> QED BY <2>1, FS_Subset
  <1>2. Cardinality(I) \in Nat
    BY <1>1, FS_CardinalityType
  <1>3. \A i \in I : IsFiniteSet(Below(I, i)) /\ Cardinality(Below(I, i)) \in Nat
    <2>1. \A i \in I : Below(I, i) \in SUBSET I
      BY DEF Below
    <2>2. ASSUME NEW i \in I PROVE IsFiniteSet(Below(I, i)) /\ Cardinality(Below(I, i)) \in Nat
      BY <1>1, <2>1, FS_Subset, FS_CardinalityType
    <2> QED BY <2>2
  <1>4. ASSUME NEW i \in I, NEW T \in SUBSET I, IsFiniteSet(T), i \in T, Below(I, i) \subseteq T
        PROVE  Cardinality(Below(I, i)) < Cardinality(T)
    <2>1. PICK U : U = Below(I, i) \cup {i}
      OBVIOUS
    <2>2. i \notin Below(I, i)
      BY DEF Below
    <2>3. Cardinality(U) = Cardinality(Below(I, i)) + 1
      BY <1>3, <2>1, <2>2, FS_AddElement
    <2>4. U \in SUBSET T
      BY <1>4, <2>1
    <2>5. Cardinality(U) <= Cardinality(T)
      BY <1>4, <2>4, FS_Subset
    <2>6. Cardinality(T) \in Nat
      BY <1>4, FS_CardinalityType
    <2> QED BY <1>3, <2>3, <2>5, <2>6
  <1>5. \A i \in I : Cardinality(Below(I, i)) \in 0..(Cardinality(I) - 1)
    <2>1. ASSUME NEW i \in I PROVE Cardinality(Below(I, i)) < Cardinality(I)
      <3>1. Below(I, i) \subseteq I
        BY DEF Below
      <3> QED BY <1>1, <1>4, <3>1
    <2> QED BY <1>2, <1>3, <2>1
  <1>6. ASSUME NEW i \in I, NEW j \in I, i < j
        PROVE  Cardinality(Below(I, i)) # Cardinality(Below(I, j))
    <2>1. i \in Below(I, j) /\ Below(I, j) \in SUBSET I
      BY <1>6 DEF Below
    <2>2. Below(I, i) \subseteq Below(I, j)
      <3>1. \A e \in 1..n : e < i => e < j
        BY <1>6
      <3> QED BY <3>1 DEF Below
    <2>3. Cardinality(Below(I, i)) < Cardinality(Below(I, j))
      BY <1>3, <1>4, <2>1, <2>2
    <2> QED BY <1>3, <2>3
  <1>7. \A i, j \in I : Cardinality(Below(I, i)) = Cardinality(Below(I, j)) => i = j
    <2>1. \A i, j \in I : i < j \/ j < i \/ i = j
      OBVIOUS
    <2> QED BY <1>6, <2>1
  <1>8. \A k \in 1..Cardinality(I) : \E i \in I : Cardinality(Below(I, i)) = k - 1
    <2>1. PICK T : T = 0..(Cardinality(I) - 1)
      OBVIOUS
    <2>2. IsFiniteSet(T) /\ Cardinality(T) = Cardinality(I)
      BY <1>2, <2>1, FS_Interval
    <2>3. PICK f : f = [i \in I |-> Cardinality(Below(I, i))]
      OBVIOUS
    <2>4. f \in [I -> T]
      BY <1>5, <2>1, <2>3
    <2>5. f \in Injection(I, T)
      BY <1>7, <2>3, <2>4 DEF Injection, IsInjective
    <2>6. f \in Surjection(I, T)
      BY <2>2, <2>5, FS_Injection
    <2>7. \A t \in T : \E i \in I : f[i] = t
      BY <2>6 DEF Surjection
    <2>8. \A k \in 1..Cardinality(I) : k - 1 \in T
      BY <1>2, <2>1
    <2> QED BY <2>3, <2>7, <2>8
  <1> QED BY <1>2, <1>5, <1>7, <1>8

(* Only takes the elements of s at I, each and no other.                   *)
LEMMA OnlyIs ==
  ASSUME NEW S, NEW s \in Seq(S), NEW I \in SUBSET (DOMAIN s)
  PROVE  /\ Only(s, I) \in Seq(S) /\ DOMAIN Only(s, I) = 1..Len(Only(s, I))
         /\ Len(Only(s, I)) = Cardinality(I) /\ Cardinality(I) \in Nat
         /\ \A k \in DOMAIN Only(s, I) : \E i \in I : Only(s, I)[k] = s[i]
         /\ \A i \in I : \E k \in DOMAIN Only(s, I) : Only(s, I)[k] = s[i]
  <1>1. DOMAIN s = 1..Len(s) /\ Len(s) \in Nat /\ \A i \in DOMAIN s : s[i] \in S
    OBVIOUS
  <1>2. I \in SUBSET (1..Len(s))
    BY <1>1
  <1>3. /\ Cardinality(I) \in Nat
        /\ \A i \in I : Cardinality(Below(I, i)) \in 0..(Cardinality(I) - 1)
        /\ \A i, j \in I : Cardinality(Below(I, i)) = Cardinality(Below(I, j)) => i = j
        /\ \A k \in 1..Cardinality(I) : \E i \in I : Cardinality(Below(I, i)) = k - 1
    BY <1>1, <1>2, Ranks
  <1>4. ASSUME NEW k \in 1..Cardinality(I)
        PROVE  Nth(I, k) \in I /\ Cardinality(Below(I, Nth(I, k))) = k - 1
    <2>1. Nth(I, k) = CHOOSE i \in I : Cardinality(Below(I, i)) = k - 1
      BY DEF Nth, Below
    <2> QED BY <1>3, <2>1
  <1>5. PICK c : c = Cardinality(I)
    OBVIOUS
  <1>6. Only(s, I) = [k \in 1..c |-> s[Nth(I, k)]]
    BY <1>5 DEF Only
  <1>7. \A k \in 1..c : s[Nth(I, k)] \in S
    BY <1>1, <1>4, <1>5
  <1>8. Only(s, I) \in [1..c -> S]
    BY <1>6, <1>7
  <1>9. Only(s, I) \in Seq(S) /\ Len(Only(s, I)) = c
    BY <1>3, <1>5, <1>8, FunctionIsSeq
  <1>10. \A k \in 1..c : Only(s, I)[k] = s[Nth(I, k)]
    BY <1>6
  <1>11. ASSUME NEW i \in I PROVE \E k \in 1..c : Nth(I, k) = i
    <2>1. PICK k : k = Cardinality(Below(I, i)) + 1
      OBVIOUS
    <2>2. k \in 1..c /\ k - 1 = Cardinality(Below(I, i))
      BY <1>3, <1>5, <2>1
    <2> QED BY <1>3, <1>4, <1>5, <2>2
  <1> QED BY <1>3, <1>4, <1>5, <1>6, <1>9, <1>10, <1>11

-----------------------------------------------------------------------------
(* What the decorators, the blueprint's reader and the registry's types say*)
(* of methods, functions, blueprint handlers and guards; a guard of the    *)
(* blueprint has a name.                                                   *)
HandlerKinds == {"http", "websocket", "consumer", "schedule", "custom"}
Method == [kind : HandlerKinds, method : STRING, path : Seq(STRING), name : STRING, fn : STRING]
Function == [kind : HandlerKinds, method : STRING, path : Seq(STRING), id : STRING, fn : STRING]
Wanted == [kind : HandlerKinds \cup {"guard"}, method : STRING, path : Seq(STRING), id : STRING]
GuardDef == ClassToken \cup GuardDefinition

HandlersDeclared ==
  /\ "none" \notin GuardDefinition
  /\ Methods \in [ClassToken -> Seq(Method)]
  /\ DOMAIN GuardName = GuardDef
  /\ \A a \in App :
       /\ a.functions \in [Module -> Seq(Function)]
       /\ a.blueprint \in Seq(Wanted)
       /\ \A i \in 1..Len(a.blueprint) : a.blueprint[i].kind = "guard" => a.blueprint[i].id # "none"

TagPart == STRING \cup {"default"}
Entry == [kind : HandlerKinds, method : STRING, path : Seq(TagPart), id : STRING \cup {"none"},
          fn : STRING, controller : ClassToken \cup {"none"}, module : Module]

(* A handler of the registry that was declared as d, under this tag.       *)
Is(e, k, d, tag, id) == e.kind = k /\ e.method = d.method /\ e.path = tag /\ e.id = id
Listed(k, d, tag, id) == \E i \in 1..Len(handlers) : Is(handlers[i], k, d, tag, id)

(* What a scanner of kind k leaves behind of a class, and of a node.       *)
ClassScanned(k, c) ==
  k \in CrossCutting \cup ControllerOf[c] =>
    \A i \in 1..Len(Methods[c]) : Methods[c][i].kind = k =>
      Listed(k, Methods[c][i], MethodTag(Methods[c][i]), "none")
FunctionsScanned(k, m) ==
  \A i \in 1..Len(app.functions[m]) :
    app.functions[m][i].kind = k =>
      Listed(k, app.functions[m][i], FunctionTag(app.functions[m][i]), app.functions[m][i].id)
GuardsScanned(m) ==
  \A i \in 1..Len(app.guards[m]) :
    GuardName[app.guards[m][i]] # "none" => guardTable[GuardName[app.guards[m][i]]] # "none"
NodeScanned(k, m) ==
  /\ k # "guard" => /\ \A i \in 1..Len(app.controllers[m]) : ClassScanned(k, app.controllers[m][i])
                    /\ FunctionsScanned(k, m)
  /\ k = "guard" => GuardsScanned(m)

(* The scanners that have been to a node.                                  *)
Been(s, j) ==
  \/ phase \in {"bind", "running"}
  \/ phase = "scan" /\ (s < scanner \/ (s = scanner /\ j < at))

(* What the application declares for a handler of the registry.            *)
FromMethod(e, c) ==
  \E h \in RangeOf(Methods[c]) :
    /\ Is(e, h.kind, h, MethodTag(h), "none") /\ e.fn = h.fn
    /\ h.kind \in CrossCutting \cup ControllerOf[c]
FromFunction(e, m) ==
  \E h \in RangeOf(app.functions[m]) : Is(e, h.kind, h, FunctionTag(h), h.id) /\ e.fn = h.fn
ComesFrom(e) ==
  \E m \in Visited : \/ \E c \in RangeOf(app.controllers[m]) : FromMethod(e, c)
                     \/ FromFunction(e, m)
(* ... and for a guard of the table.                                       *)
GuardFrom(n, g) == \E m \in Visited : g \in RangeOf(app.guards[m]) /\ GuardName[g] = n

ScanTypeOK ==
  /\ app \in App
  /\ scanner \in 1..6
  /\ handlers \in Seq(Entry)
  /\ guardTable \in [GuardNames -> GuardDef \cup {"none"}]
  /\ phase = "scan" => at <= Len(graph)
  /\ phase \in {"validate", "check", "valid"} => member = 1
  /\ phase \notin {"scan", "bind", "running"} =>
       scanner = 1 /\ handlers = <<>> /\ \A n \in GuardNames : guardTable[n] = "none"

ScanInv ==
  /\ ScanTypeOK
  /\ \A s \in 1..6, j \in 1..Len(graph) : Been(s, j) => NodeScanned(Scanners[s], graph[j])
  /\ phase = "scan" /\ Kind # "guard" =>
       \A i \in 1..Len(Controllers) : i < member => ClassScanned(Kind, Controllers[i])
  /\ \A i \in 1..Len(handlers) : ComesFrom(handlers[i])
  /\ \A n \in GuardNames : guardTable[n] # "none" => GuardFrom(n, guardTable[n])

LEMMA ScanInit == RuntimeInit => ScanInv
  <1> SUFFICES ASSUME RuntimeInit PROVE ScanInv
    OBVIOUS
  <1>1. /\ app \in App /\ scanner = 1 /\ handlers = <<>> /\ phase = "walk"
        /\ guardTable = [n \in GuardNames |-> "none"]
    BY DEF RuntimeInit, Init
  <1>2. ScanTypeOK
    <2>1. guardTable \in [GuardNames -> GuardDef \cup {"none"}]
      BY <1>1
    <2>2. handlers \in Seq(Entry)
      BY <1>1
    <2>3. \A n \in GuardNames : guardTable[n] = "none"
      BY <1>1
    <2> QED BY <1>1, <2>1, <2>2, <2>3 DEF ScanTypeOK
  <1>3. \A s, j : ~Been(s, j)
    BY <1>1 DEF Been
  <1>4. 1..Len(handlers) = {}
    <2>1. PICK e : e = Len(handlers)
      OBVIOUS
    <2>2. e = 0
      BY <1>1, <2>1
    <2>3. 1..e = {}
      BY <2>2
    <2> QED BY <2>1, <2>3
  <1>5. \A n \in GuardNames : guardTable[n] = "none"
    BY <1>1
  <1> QED BY <1>1, <1>2, <1>3, <1>4, <1>5 DEF ScanInv

-----------------------------------------------------------------------------
(* What one scan of a class or of a module's functions registers.          *)

LEMMA KindIs ==
  ASSUME ScanTypeOK
  PROVE  /\ Kind \in HandlerKinds \cup {"guard"} /\ Kind = Scanners[scanner]
         /\ Len(Scanners) = 6
  <1>1. /\ Len(Scanners) = 6
        /\ Scanners[1] = "http" /\ Scanners[2] = "guard" /\ Scanners[3] = "websocket"
        /\ Scanners[4] = "consumer" /\ Scanners[5] = "schedule" /\ Scanners[6] = "custom"
    BY DEF Scanners
  <1>2. scanner \in {1, 2, 3, 4, 5, 6}
    BY DEF ScanTypeOK
  <1> QED BY <1>1, <1>2 DEF Kind, HandlerKinds

(* The tags are sequences of strings.                                      *)
LEMMA TagTyped ==
  ASSUME NEW h, h.path \in Seq(STRING)
  PROVE  /\ h.name \in STRING => MethodTag(h) \in Seq(TagPart)
         /\ h.id \in STRING => FunctionTag(h) \in Seq(TagPart)
  <1>1. h.path \in Seq(TagPart)
    BY DEF TagPart
  <1>2. \A t \in TagPart : <<t>> \in Seq(TagPart)
    OBVIOUS
  <1>3. h.name \in STRING => h.path \o <<h.name>> \in Seq(TagPart)
    BY <1>1, <1>2 DEF TagPart
  <1>4. <<"default">> \in Seq(TagPart)
    BY <1>2 DEF TagPart
  <1>5. h.id \in STRING => <<h.id>> \in Seq(TagPart)
    BY <1>2 DEF TagPart
  <1> QED BY <1>1, <1>3, <1>4, <1>5 DEF MethodTag, FunctionTag

LEMMA MethodsAre ==
  ASSUME HandlersDeclared, Kind \in HandlerKinds, NEW c \in ClassToken, NEW m \in Module
  PROVE  /\ MethodsOf(c, m) \in Seq(Entry)
         /\ \A k \in 1..Len(MethodsOf(c, m)) : FromMethod(MethodsOf(c, m)[k], c)
         /\ Kind \in CrossCutting \cup ControllerOf[c] =>
              \A i \in 1..Len(Methods[c]) : Methods[c][i].kind = Kind =>
                \E k \in 1..Len(MethodsOf(c, m)) :
                  Is(MethodsOf(c, m)[k], Kind, Methods[c][i], MethodTag(Methods[c][i]), "none")
  <1> DEFINE I == {i \in DOMAIN Methods[c] : Scans(c) /\ Methods[c][i].kind = Kind}
  <1>1. PICK mine : mine = Only(Methods[c], I)
    OBVIOUS
  <1>2. /\ mine \in Seq(Method) /\ DOMAIN mine = 1..Len(mine) /\ Len(mine) \in Nat
        /\ \A i \in I : \E k \in DOMAIN mine : mine[k] = Methods[c][i]
        /\ \A k \in DOMAIN mine : \E i \in I : mine[k] = Methods[c][i]
    <2>1. Methods[c] \in Seq(Method)
      BY DEF HandlersDeclared
    <2>2. I \in SUBSET (DOMAIN Methods[c])
      OBVIOUS
    <2> HIDE DEF I
    <2> QED BY <1>1, <2>1, <2>2, OnlyIs
  <1>3. MethodsOf(c, m) =
          [i \in DOMAIN mine |->
             [kind |-> Kind, method |-> mine[i].method, path |-> MethodTag(mine[i]), id |-> "none",
              fn |-> mine[i].fn, controller |-> c, module |-> m]]
    BY <1>1 DEF MethodsOf
  <1>4. PICK n \in Nat : n = Len(mine)
    BY <1>2
  <1>5. \A i \in 1..n : mine[i] \in Method
    BY <1>2, <1>4
  <1>6. ASSUME NEW i \in 1..n
        PROVE  /\ mine[i].method \in STRING /\ MethodTag(mine[i]) \in Seq(TagPart)
               /\ mine[i].fn \in STRING
    <2>1. /\ mine[i].method \in STRING /\ mine[i].path \in Seq(STRING)
          /\ mine[i].fn \in STRING /\ mine[i].name \in STRING
      BY <1>5 DEF Method
    <2> QED BY <2>1, TagTyped
  <1>7. MethodsOf(c, m) \in [1..n -> Entry]
    <2>1. ASSUME NEW i \in 1..n
          PROVE  [kind |-> Kind, method |-> mine[i].method, path |-> MethodTag(mine[i]), id |-> "none",
                  fn |-> mine[i].fn, controller |-> c, module |-> m] \in Entry
      <3> HIDE DEF I
      <3> QED BY <1>6 DEF Entry
    <2>2. DOMAIN mine = 1..n
      BY <1>2, <1>4
    <2> HIDE DEF I
    <2> QED BY <1>3, <2>1, <2>2
  <1>8. MethodsOf(c, m) \in Seq(Entry) /\ Len(MethodsOf(c, m)) = n
    BY <1>7, FunctionIsSeq
  <1>9. ASSUME NEW k \in 1..n PROVE FromMethod(MethodsOf(c, m)[k], c)
    <2>1. PICK i \in I : mine[k] = Methods[c][i]
      BY <1>2, <1>4
    <2>2. Methods[c][i] \in RangeOf(Methods[c]) /\ Methods[c][i].kind = Kind /\ Scans(c)
      BY DEF RangeOf
    <2>3. k \in DOMAIN mine
      BY <1>2, <1>4
    <2>4. MethodsOf(c, m)[k] =
            [kind |-> Kind, method |-> mine[k].method, path |-> MethodTag(mine[k]), id |-> "none",
             fn |-> mine[k].fn, controller |-> c, module |-> m]
      BY <1>3, <2>3
    <2>5. PICK h \in RangeOf(Methods[c]) : h = mine[k] /\ h.kind = Kind
      BY <2>1, <2>2
    <2>6. /\ Is(MethodsOf(c, m)[k], h.kind, h, MethodTag(h), "none")
          /\ MethodsOf(c, m)[k].fn = h.fn
      BY <2>4, <2>5 DEF Is
    <2>7. h.kind \in CrossCutting \cup ControllerOf[c]
      BY <2>2, <2>5 DEF Scans
    <2> QED BY <2>6, <2>7 DEF FromMethod
  <1>10. ASSUME Kind \in CrossCutting \cup ControllerOf[c], NEW i \in 1..Len(Methods[c]),
                Methods[c][i].kind = Kind
         PROVE  \E k \in 1..n : Is(MethodsOf(c, m)[k], Kind, Methods[c][i], MethodTag(Methods[c][i]), "none")
    <2>1. i \in I
      <3>1. Methods[c] \in Seq(Method)
        BY DEF HandlersDeclared
      <3>2. i \in DOMAIN Methods[c]
        BY <3>1
      <3> QED BY <1>10, <3>2 DEF Scans
    <2>2. PICK k \in 1..n : mine[k] = Methods[c][i]
      BY <1>2, <1>4, <2>1
    <2>3. k \in DOMAIN mine
      BY <1>2, <1>4
    <2>4. MethodsOf(c, m)[k] =
            [kind |-> Kind, method |-> mine[k].method, path |-> MethodTag(mine[k]), id |-> "none",
             fn |-> mine[k].fn, controller |-> c, module |-> m]
      BY <1>3, <2>3
    <2>5. Is(MethodsOf(c, m)[k], Kind, mine[k], MethodTag(mine[k]), "none")
      BY <2>4 DEF Is
    <2> QED BY <2>2, <2>5
  <1> QED BY <1>8, <1>9, <1>10

LEMMA FunctionsAre ==
  ASSUME HandlersDeclared, ScanTypeOK, Kind \in HandlerKinds, NEW m \in Module
  PROVE  /\ FunctionsOf(m) \in Seq(Entry)
         /\ \A k \in 1..Len(FunctionsOf(m)) : FromFunction(FunctionsOf(m)[k], m)
         /\ \A i \in 1..Len(app.functions[m]) : app.functions[m][i].kind = Kind =>
              \E k \in 1..Len(FunctionsOf(m)) :
                Is(FunctionsOf(m)[k], Kind, app.functions[m][i], FunctionTag(app.functions[m][i]),
                   app.functions[m][i].id)
  <1> DEFINE I == {i \in DOMAIN app.functions[m] : app.functions[m][i].kind = Kind}
  <1>0. app.functions[m] \in Seq(Function)
    BY DEF HandlersDeclared, ScanTypeOK
  <1>1. PICK mine : mine = Only(app.functions[m], I)
    OBVIOUS
  <1>2. /\ mine \in Seq(Function) /\ DOMAIN mine = 1..Len(mine) /\ Len(mine) \in Nat
        /\ \A i \in I : \E k \in DOMAIN mine : mine[k] = app.functions[m][i]
        /\ \A k \in DOMAIN mine : \E i \in I : mine[k] = app.functions[m][i]
    <2>1. I \in SUBSET (DOMAIN app.functions[m])
      OBVIOUS
    <2> HIDE DEF I
    <2> QED BY <1>0, <1>1, <2>1, OnlyIs
  <1>3. FunctionsOf(m) =
          [i \in DOMAIN mine |->
             [kind |-> Kind, method |-> mine[i].method, path |-> FunctionTag(mine[i]), id |-> mine[i].id,
              fn |-> mine[i].fn, controller |-> "none", module |-> m]]
    BY <1>1 DEF FunctionsOf
  <1>4. PICK n \in Nat : n = Len(mine)
    BY <1>2
  <1>5. \A i \in 1..n : mine[i] \in Function
    BY <1>2, <1>4
  <1>6. ASSUME NEW i \in 1..n
        PROVE  /\ mine[i].method \in STRING /\ FunctionTag(mine[i]) \in Seq(TagPart)
               /\ mine[i].fn \in STRING /\ mine[i].id \in STRING
    <2>1. /\ mine[i].method \in STRING /\ mine[i].path \in Seq(STRING)
          /\ mine[i].fn \in STRING /\ mine[i].id \in STRING
      BY <1>5 DEF Function
    <2> QED BY <2>1, TagTyped
  <1>7. FunctionsOf(m) \in [1..n -> Entry]
    <2>1. ASSUME NEW i \in 1..n
          PROVE  [kind |-> Kind, method |-> mine[i].method, path |-> FunctionTag(mine[i]), id |-> mine[i].id,
                  fn |-> mine[i].fn, controller |-> "none", module |-> m] \in Entry
      BY <1>6 DEF Entry
    <2>2. DOMAIN mine = 1..n
      BY <1>2, <1>4
    <2> HIDE DEF I
    <2> QED BY <1>3, <2>1, <2>2
  <1>8. FunctionsOf(m) \in Seq(Entry) /\ Len(FunctionsOf(m)) = n
    BY <1>7, FunctionIsSeq
  <1>9. ASSUME NEW k \in 1..n PROVE FromFunction(FunctionsOf(m)[k], m)
    <2>1. PICK i \in I : mine[k] = app.functions[m][i]
      BY <1>2, <1>4
    <2>2. app.functions[m][i] \in RangeOf(app.functions[m]) /\ app.functions[m][i].kind = Kind
      BY DEF RangeOf
    <2>3. k \in DOMAIN mine
      BY <1>2, <1>4
    <2>4. FunctionsOf(m)[k] =
            [kind |-> Kind, method |-> mine[k].method, path |-> FunctionTag(mine[k]), id |-> mine[k].id,
             fn |-> mine[k].fn, controller |-> "none", module |-> m]
      BY <1>3, <2>3
    <2>5. PICK h \in RangeOf(app.functions[m]) : h = mine[k] /\ h.kind = Kind
      BY <2>1, <2>2
    <2>6. /\ Is(FunctionsOf(m)[k], h.kind, h, FunctionTag(h), h.id)
          /\ FunctionsOf(m)[k].fn = h.fn
      BY <2>4, <2>5 DEF Is
    <2> QED BY <2>6 DEF FromFunction
  <1>10. ASSUME NEW i \in 1..Len(app.functions[m]), app.functions[m][i].kind = Kind
         PROVE  \E k \in 1..n :
                  Is(FunctionsOf(m)[k], Kind, app.functions[m][i], FunctionTag(app.functions[m][i]),
                     app.functions[m][i].id)
    <2>1. i \in I
      BY <1>0, <1>10
    <2>2. PICK k \in 1..n : mine[k] = app.functions[m][i]
      BY <1>2, <1>4, <2>1
    <2>3. k \in DOMAIN mine
      BY <1>2, <1>4
    <2>4. FunctionsOf(m)[k] =
            [kind |-> Kind, method |-> mine[k].method, path |-> FunctionTag(mine[k]), id |-> mine[k].id,
             fn |-> mine[k].fn, controller |-> "none", module |-> m]
      BY <1>3, <2>3
    <2>5. Is(FunctionsOf(m)[k], Kind, mine[k], FunctionTag(mine[k]), mine[k].id)
      BY <2>4 DEF Is
    <2> QED BY <2>2, <2>5
  <1> QED BY <1>8, <1>9, <1>10

(* What is registered stays registered.                                    *)
LEMMA Grows ==
  ASSUME ScanTypeOK, NEW new \in Seq(Entry), handlers' = handlers \o new, app' = app
  PROVE  /\ handlers' \in Seq(Entry)
         /\ \A k, d, tag, id : Listed(k, d, tag, id) => Listed(k, d, tag, id)'
         /\ \A k, d, tag, id : (\E i \in 1..Len(new) : Is(new[i], k, d, tag, id)) => Listed(k, d, tag, id)'
         /\ \A i \in 1..Len(handlers') :
              \/ i \in 1..Len(handlers) /\ handlers'[i] = handlers[i]
              \/ \E j \in 1..Len(new) : handlers'[i] = new[j]
  <1>1. PICK h : h = handlers
    OBVIOUS
  <1>2. h \in Seq(Entry)
    BY <1>1 DEF ScanTypeOK
  <1>3. /\ h \o new \in Seq(Entry) /\ Len(h \o new) = Len(h) + Len(new)
        /\ Len(h) \in Nat /\ Len(new) \in Nat
        /\ \A i \in 1..Len(h) : (h \o new)[i] = h[i]
        /\ \A i \in 1..Len(new) : (h \o new)[Len(h) + i] = new[i]
    BY <1>2
  <1>4. PICK g : g = h \o new
    OBVIOUS
  <1>5. /\ g = handlers' /\ g \in Seq(Entry) /\ Len(g) = Len(h) + Len(new)
        /\ \A i \in 1..Len(h) : i \in 1..Len(g) /\ g[i] = h[i]
        /\ \A i \in 1..Len(new) : Len(h) + i \in 1..Len(g) /\ g[Len(h) + i] = new[i]
    BY <1>1, <1>3, <1>4
  <1>6. ASSUME NEW i \in 1..Len(g)
        PROVE  \/ i \in 1..Len(h) /\ g[i] = h[i]
               \/ \E j \in 1..Len(new) : g[i] = new[j]
    <2>1. CASE i \in 1..Len(h)
      BY <1>5, <2>1
    <2>2. CASE i \notin 1..Len(h)
      <3>1. i - Len(h) \in 1..Len(new) /\ i = Len(h) + (i - Len(h))
        BY <1>3, <1>5, <2>2
      <3> QED BY <1>5, <3>1
    <2> QED BY <2>1, <2>2
  <1> QED BY <1>1, <1>5, <1>6 DEF Listed

(* The module graph is done with before the scan.                          *)
LEMMA GraphSteps ==
  ASSUME GraphTypeOK, PhaseInv, GraphNext
  PROVE  /\ phase \notin {"valid", "scan", "bind", "running"}
         /\ phase' \notin {"scan", "bind", "running"}
         /\ app' = app
         /\ phase' \in {"validate", "check", "valid"} =>
              member' = 1 \/ (phase \in {"validate", "check"} /\ member' = member)
  <1>1. CASE Walk
    <2>1. WalkSeen \/ WalkCircular \/ WalkDown => phase' \in {"walk", "circular"} /\ phase = "walk" /\ app' = app
      BY DEF WalkSeen, WalkCircular, WalkDown, MoreImports
    <2>2. WalkDone => phase' \in {"walk", "register"} /\ phase = "walk" /\ app' = app
      BY DEF WalkDone
    <2> QED BY <1>1, <2>1, <2>2 DEF Walk
  <1>2. CASE RegisterProvider \/ RegisterClasses
    BY <1>2 DEF RegisterProvider, RegisterClasses, Registering, registerFrame
  <1>3. CASE EnterNode \/ CheckVisible \/ CheckAdopt \/ CheckRuntime \/ CheckReturn
    BY <1>3 DEF EnterNode, CheckVisible, CheckAdopt, CheckRuntime, CheckReturn, Hidden, Checking, frame
  <1>4. CASE CheckOwned \/ CheckMissing
    BY <1>4 DEF CheckOwned, CheckMissing, Report, Hidden, Checking, frame
  <1>5. CASE LeaveNode
    BY <1>5 DEF LeaveNode, Verdict, frame
  <1> QED BY <1>1, <1>2, <1>3, <1>4, <1>5 DEF GraphNext, Validate

LEMMA ScanByGraph ==
  ASSUME GraphTypeOK, PhaseInv, ScanInv, Bootstrap
  PROVE  ScanInv'
  <1>1. /\ phase \notin {"valid", "scan", "bind", "running"}
        /\ phase' \notin {"scan", "bind", "running"}
        /\ app' = app
        /\ phase' \in {"validate", "check", "valid"} =>
             member' = 1 \/ (phase \in {"validate", "check"} /\ member' = member)
    BY GraphSteps DEF Bootstrap
  <1>2. UNCHANGED <<scanner, handlers, guardTable>>
    BY DEF Bootstrap, scanVars
  <1>3. ScanTypeOK'
    BY <1>1, <1>2 DEF ScanInv, ScanTypeOK
  <1>4. \A s, j : ~Been(s, j)'
    BY <1>1 DEF Been
  <1>5. handlers' = <<>>
    BY <1>1, <1>2 DEF ScanInv, ScanTypeOK
  <1>6. \A i : i \notin 1..Len(handlers')
    <2>1. PICK e : e = Len(handlers')
      OBVIOUS
    <2>2. e = 0
      BY <1>5, <2>1
    <2>3. \A i : i \notin 1..e
      BY <2>2
    <2> QED BY <2>1, <2>3
  <1>7. ASSUME NEW n \in GuardNames PROVE guardTable'[n] = "none"
    BY <1>1, <1>2 DEF ScanInv, ScanTypeOK
  <1> QED BY <1>1, <1>3, <1>4, <1>6, <1>7 DEF ScanInv

(* What has been scanned stays scanned as long as the registry only grows. *)
LEMMA KeepsScanned ==
  ASSUME app' = app, NEW k, NEW m,
         \A l, d, tag, id : Listed(l, d, tag, id) => Listed(l, d, tag, id)',
         \A n \in GuardNames : guardTable[n] # "none" => guardTable'[n] # "none",
         \A i \in 1..Len(app.guards[m]) : GuardName[app.guards[m][i]] # "none" =>
            GuardName[app.guards[m][i]] \in GuardNames
  PROVE  /\ \A c : ClassScanned(k, c) => ClassScanned(k, c)'
         /\ NodeScanned(k, m) => NodeScanned(k, m)'
  <1>1. \A c : ClassScanned(k, c) => ClassScanned(k, c)'
    BY DEF ClassScanned
  <1>2. FunctionsScanned(k, m) => FunctionsScanned(k, m)'
    BY DEF FunctionsScanned
  <1>3. GuardsScanned(m) => GuardsScanned(m)'
    BY DEF GuardsScanned
  <1> QED BY <1>1, <1>2, <1>3 DEF NodeScanned

(* What a handler or a guard came from stays what it came from.            *)
LEMMA KeepsOrigin ==
  ASSUME UNCHANGED <<app, graph>>
  PROVE  /\ \A m : m \in Visited' <=> m \in Visited
         /\ \A e, m : FromFunction(e, m) => FromFunction(e, m)'
         /\ \A e : ComesFrom(e) => ComesFrom(e)'
         /\ \A n, g : GuardFrom(n, g) => GuardFrom(n, g)'
  <1>1. \A m : m \in Visited' <=> m \in Visited
    BY DEF Visited
  <1>2. \A e, m : FromFunction(e, m) => FromFunction(e, m)'
    BY DEF FromFunction
  <1>3. \A e : ComesFrom(e) => ComesFrom(e)'
    BY <1>1, <1>2 DEF ComesFrom
  <1>4. \A n, g : GuardFrom(n, g) => GuardFrom(n, g)'
    BY <1>1 DEF GuardFrom
  <1> QED BY <1>1, <1>2, <1>3, <1>4

(* A guard of a module has a name of the table, or none.                   *)
LEMMA GuardsNamed ==
  ASSUME HandlersDeclared, Declared(app), NEW m \in Module, NEW i \in 1..Len(app.guards[m]),
         GuardName[app.guards[m][i]] # "none"
  PROVE  GuardName[app.guards[m][i]] \in GuardNames /\ app.guards[m][i] \in GuardDef
  <1>1. app.guards[m] \in Seq(GuardDef)
    BY DEF Declared, GuardDef
  <1>2. app.guards[m][i] \in GuardDef
    BY <1>1
  <1> QED BY <1>2 DEF HandlersDeclared, GuardNames

LEMMA NodeIs ==
  ASSUME GraphTypeOK, ScanTypeOK, phase = "scan"
  PROVE  /\ Node \in Module /\ at \in 1..Len(graph) /\ Len(graph) \in Nat /\ Node \in Visited
         /\ Controllers \in Seq(ClassToken) /\ Len(Controllers) \in Nat
         /\ \A i \in 1..Len(Controllers) : Controllers[i] \in ClassToken
         /\ member \in Nat \ {0}
         /\ \A j \in 1..Len(graph) : graph[j] \in Module
  <1>1. /\ graph \in Seq(Module) /\ at \in 1..Len(graph) /\ Len(graph) \in Nat
        /\ member \in Nat \ {0}
    BY DEF GraphTypeOK, ScanTypeOK
  <1>2. \A j \in 1..Len(graph) : graph[j] \in Module /\ j \in DOMAIN graph
    BY <1>1
  <1>3. Node \in Module /\ Node \in Visited
    BY <1>1, <1>2 DEF Node, Visited, RangeOf
  <1>4. Controllers \in Seq(ClassToken)
    BY <1>3 DEF Controllers, GraphTypeOK, Declared
  <1> QED BY <1>1, <1>2, <1>3, <1>4

LEMMA ScanByController ==
  ASSUME HandlersDeclared, GraphTypeOK, ScanInv, ScanController
  PROVE  ScanInv'
  <1>0. ScanTypeOK /\ phase = "scan" /\ Kind # "guard" /\ member <= Len(Controllers)
    BY DEF ScanInv, ScanController
  <1>1. Kind \in HandlerKinds
    BY <1>0, KindIs
  <1>2. /\ Node \in Module /\ member \in 1..Len(Controllers) /\ Controllers[member] \in ClassToken
        /\ \A j \in 1..Len(graph) : graph[j] \in Module
    BY <1>0, NodeIs
  <1>3. PICK new : new = MethodsOf(Controllers[member], Node)
    OBVIOUS
  <1>4. /\ new \in Seq(Entry) /\ \A k \in 1..Len(new) : FromMethod(new[k], Controllers[member])
        /\ Kind \in CrossCutting \cup ControllerOf[Controllers[member]] =>
             \A i \in 1..Len(Methods[Controllers[member]]) :
               Methods[Controllers[member]][i].kind = Kind =>
                 \E k \in 1..Len(new) :
                   Is(new[k], Kind, Methods[Controllers[member]][i],
                      MethodTag(Methods[Controllers[member]][i]), "none")
    BY <1>1, <1>2, <1>3, MethodsAre
  <1>5. /\ handlers' = handlers \o new /\ member' = member + 1
        /\ UNCHANGED <<app, graph, phase, at, scanner, guardTable>>
    BY <1>3 DEF ScanController, scanned
  <1>6. /\ handlers' \in Seq(Entry)
        /\ \A k, d, tag, id : Listed(k, d, tag, id) => Listed(k, d, tag, id)'
        /\ \A k, d, tag, id : (\E i \in 1..Len(new) : Is(new[i], k, d, tag, id)) => Listed(k, d, tag, id)'
        /\ \A i \in 1..Len(handlers') :
             \/ i \in 1..Len(handlers) /\ handlers'[i] = handlers[i]
             \/ \E j \in 1..Len(new) : handlers'[i] = new[j]
    BY <1>0, <1>4, <1>5, Grows
  <1>7. ScanTypeOK'
    BY <1>0, <1>5, <1>6 DEF ScanTypeOK
  <1>8. ASSUME NEW k, NEW m \in Module
        PROVE  /\ \A c : ClassScanned(k, c) => ClassScanned(k, c)'
               /\ NodeScanned(k, m) => NodeScanned(k, m)'
    <2>1. \A i \in 1..Len(app.guards[m]) : GuardName[app.guards[m][i]] # "none" =>
            GuardName[app.guards[m][i]] \in GuardNames
      BY GuardsNamed DEF GraphTypeOK
    <2> QED BY <1>5, <1>6, <2>1, KeepsScanned
  <1>9. ASSUME NEW s \in 1..6, NEW j \in 1..Len(graph'), Been(s, j)'
        PROVE  NodeScanned(Scanners[s], graph[j])'
    <2>1. Been(s, j) /\ graph' = graph /\ j \in 1..Len(graph) /\ graph[j] \in Module
      BY <1>2, <1>5, <1>9 DEF Been
    <2>2. PICK m \in Module : m = graph[j]
      BY <2>1
    <2>3. NodeScanned(Scanners[s], m)
      BY <2>1, <2>2 DEF ScanInv
    <2>4. NodeScanned(Scanners[s], m)'
      BY <1>8, <2>3
    <2>5. m = graph'[j]
      BY <2>1, <2>2
    <2> QED BY <2>4, <2>5
  <1>10. PICK c \in ClassToken : c = Controllers[member]
    BY <1>2
  <1>11. PICK k \in HandlerKinds : k = Kind
    BY <1>1
  <1>12. ClassScanned(k, c)'
    BY <1>4, <1>6, <1>10, <1>11 DEF ClassScanned
  <1>13. ASSUME NEW i \in 1..Len(Controllers'), i < member'
         PROVE  ClassScanned(Kind, Controllers[i])'
    <2>1. Kind' = k /\ Controllers' = Controllers /\ i \in 1..Len(Controllers)
      BY <1>5, <1>11 DEF Kind, Controllers, Node
    <2>2. PICK d : d = Controllers[i]
      OBVIOUS
    <2>3. ClassScanned(k, d)'
      <3>1. CASE i < member
        <4>1. ClassScanned(k, d)
          BY <1>0, <1>11, <2>1, <2>2, <3>1 DEF ScanInv
        <4> QED BY <1>2, <1>8, <4>1
      <3>2. CASE i = member
        BY <1>10, <1>12, <2>2, <3>2
      <3> QED BY <1>2, <1>5, <1>13, <3>1, <3>2
    <2>4. Kind' = k /\ Controllers'[i] = d
      BY <2>1, <2>2
    <2> QED BY <2>3, <2>4
  <1>14. ASSUME NEW i \in 1..Len(handlers') PROVE ComesFrom(handlers[i])'
    <2>1. PICK e : e = handlers'[i]
      OBVIOUS
    <2>2. CASE i \in 1..Len(handlers) /\ handlers'[i] = handlers[i]
      <3>1. ComesFrom(e)
        BY <2>1, <2>2 DEF ScanInv
      <3> QED BY <1>5, <2>1, <3>1, KeepsOrigin
    <2>3. CASE \E j \in 1..Len(new) : handlers'[i] = new[j]
      <3>1. FromMethod(e, c) /\ c \in RangeOf(app.controllers[Node]) /\ Node \in Visited
        <4>1. FromMethod(e, c)
          BY <1>4, <1>10, <2>1, <2>3
        <4>2. Controllers \in Seq(ClassToken) /\ Node \in Visited
          BY <1>0, NodeIs DEF ScanInv
        <4>3. member \in DOMAIN Controllers
          BY <1>2, <4>2
        <4> QED BY <1>10, <4>1, <4>2, <4>3 DEF Controllers, RangeOf
      <3>2. ComesFrom(e)
        BY <3>1 DEF ComesFrom
      <3> QED BY <1>5, <2>1, <3>2, KeepsOrigin
    <2> QED BY <1>6, <2>2, <2>3
  <1>15. ASSUME NEW n \in GuardNames, guardTable'[n] # "none" PROVE GuardFrom(n, guardTable[n])'
    <2>1. PICK g : g = guardTable[n]
      OBVIOUS
    <2>2. GuardFrom(n, g)
      BY <1>5, <1>15, <2>1 DEF ScanInv
    <2> QED BY <1>5, <2>1, <2>2, KeepsOrigin
  <1> QED BY <1>7, <1>9, <1>13, <1>14, <1>15 DEF ScanInv

(* Where the scan goes after a node.                                       *)
LEMMA NextNodeIs ==
  ASSUME GraphTypeOK, ScanTypeOK, phase = "scan", NextNode, graph' = graph
  PROVE  /\ member' = 1 /\ scanner' \in 1..6 /\ phase' \in {"scan", "bind"}
         /\ phase' = "scan" => at' <= Len(graph)
         /\ \A s \in 1..6, j \in 1..Len(graph) : Been(s, j)' => Been(s, j) \/ (s = scanner /\ j = at)
  <1>1. /\ at \in 1..Len(graph) /\ Len(graph) \in Nat /\ scanner \in 1..6 /\ Len(Scanners) = 6
        /\ 1 \in 1..Len(graph)
    BY NodeIs, KindIs DEF ScanTypeOK
  <1>2. CASE at < Len(graph)
    <2>1. at' = at + 1 /\ scanner' = scanner /\ phase' = "scan" /\ member' = 1
      BY <1>2 DEF NextNode
    <2> QED BY <1>1, <1>2, <2>1 DEF Been
  <1>3. CASE ~(at < Len(graph)) /\ scanner < 6
    <2>1. at' = 1 /\ scanner' = scanner + 1 /\ phase' = "scan" /\ member' = 1
      BY <1>1, <1>3 DEF NextNode
    <2> QED BY <1>1, <1>3, <2>1 DEF Been
  <1>4. CASE ~(at < Len(graph)) /\ ~(scanner < 6)
    <2>1. at' = at /\ scanner' = scanner /\ phase' = "bind" /\ member' = 1
      BY <1>1, <1>4 DEF NextNode
    <2> QED BY <1>1, <1>4, <2>1 DEF Been
  <1> QED BY <1>2, <1>3, <1>4

(* A node is left behind scanned.                                          *)
LEMMA ScanLeaves ==
  ASSUME HandlersDeclared, GraphTypeOK, ScanInv, phase = "scan", NextNode,
         UNCHANGED <<app, graph>>, NEW node \in Module, node = Node, NEW kind, kind = Kind,
         \A l, d, tag, id : Listed(l, d, tag, id) => Listed(l, d, tag, id)',
         \A n \in GuardNames : guardTable[n] # "none" => guardTable'[n] # "none",
         NodeScanned(kind, node)'
  PROVE  \A s \in 1..6, j \in 1..Len(graph') : Been(s, j)' => NodeScanned(Scanners[s], graph[j])'
  <1>1. ASSUME NEW k, NEW m \in Module PROVE NodeScanned(k, m) => NodeScanned(k, m)'
    <2>1. \A i \in 1..Len(app.guards[m]) : GuardName[app.guards[m][i]] # "none" =>
            GuardName[app.guards[m][i]] \in GuardNames
      BY GuardsNamed DEF GraphTypeOK
    <2> QED BY <2>1, KeepsScanned
  <1>2. ASSUME NEW s \in 1..6, NEW j \in 1..Len(graph'), Been(s, j)'
        PROVE  NodeScanned(Scanners[s], graph[j])'
    <2>1. Been(s, j) \/ (s = scanner /\ j = at)
      BY <1>2, NextNodeIs DEF ScanInv
    <2>2. j \in 1..Len(graph) /\ graph[j] \in Module
      BY NodeIs DEF ScanInv
    <2>3. PICK m \in Module : m = graph[j]
      BY <2>2
    <2>4. NodeScanned(Scanners[s], m)'
      <3>1. CASE Been(s, j)
        <4>1. NodeScanned(Scanners[s], m)
          BY <2>2, <2>3, <3>1 DEF ScanInv
        <4> QED BY <1>1, <4>1
      <3>2. CASE s = scanner /\ j = at
        <4>1. Scanners[s] = kind /\ m = node
          BY <2>3, <3>2 DEF Node, Kind
        <4> QED BY <4>1
      <3> QED BY <2>1, <3>1, <3>2
    <2>5. m = graph'[j]
      BY <2>3
    <2> QED BY <2>4, <2>5
  <1> QED BY <1>2

LEMMA ScanByFunctions ==
  ASSUME HandlersDeclared, GraphTypeOK, ScanInv, ScanFunctions
  PROVE  ScanInv'
  <1>0. /\ ScanTypeOK /\ phase = "scan" /\ Kind # "guard" /\ member > Len(Controllers)
        /\ NextNode
    BY DEF ScanInv, ScanFunctions
  <1>1. Kind \in HandlerKinds
    BY <1>0, KindIs
  <1>2. Node \in Module /\ Node \in Visited /\ Len(Controllers) \in Nat /\ member \in Nat
    BY <1>0, NodeIs
  <1>3. PICK m \in Module : m = Node
    BY <1>2
  <1>4. PICK k \in HandlerKinds : k = Kind
    BY <1>1
  <1>5. PICK new : new = FunctionsOf(m)
    OBVIOUS
  <1>6. /\ new \in Seq(Entry)
        /\ \A i \in 1..Len(new) : FromFunction(new[i], m)
        /\ \A i \in 1..Len(app.functions[m]) : app.functions[m][i].kind = k =>
             \E j \in 1..Len(new) :
               Is(new[j], k, app.functions[m][i], FunctionTag(app.functions[m][i]), app.functions[m][i].id)
    BY <1>0, <1>1, <1>4, <1>5, FunctionsAre
  <1>7. handlers' = handlers \o new /\ UNCHANGED <<app, graph, guardTable>>
    BY <1>3, <1>5 DEF ScanFunctions, scanned
  <1>8. /\ handlers' \in Seq(Entry)
        /\ \A l, d, tag, id : Listed(l, d, tag, id) => Listed(l, d, tag, id)'
        /\ \A l, d, tag, id : (\E i \in 1..Len(new) : Is(new[i], l, d, tag, id)) => Listed(l, d, tag, id)'
        /\ \A i \in 1..Len(handlers') :
             \/ i \in 1..Len(handlers) /\ handlers'[i] = handlers[i]
             \/ \E j \in 1..Len(new) : handlers'[i] = new[j]
    BY <1>0, <1>6, <1>7, Grows
  <1>9. /\ member' = 1 /\ scanner' \in 1..6 /\ phase' \in {"scan", "bind"}
        /\ phase' = "scan" => at' <= Len(graph)
    BY <1>0, <1>7, NextNodeIs
  <1>10. ScanTypeOK'
    BY <1>0, <1>7, <1>8, <1>9 DEF ScanTypeOK
  <1>11. NodeScanned(k, m)'
    <2>1. FunctionsScanned(k, m)'
      BY <1>6, <1>7, <1>8 DEF FunctionsScanned
    <2>2. ASSUME NEW i \in 1..Len(app.controllers[m]) PROVE ClassScanned(k, app.controllers[m][i])'
      <3>1. PICK c : c = app.controllers[m][i]
        OBVIOUS
      <3>2. Controllers = app.controllers[m] /\ i \in 1..Len(Controllers) /\ i < member
        BY <1>0, <1>2, <1>3 DEF Controllers
      <3>3. ClassScanned(k, c)
        BY <1>0, <1>4, <3>1, <3>2 DEF ScanInv
      <3>4. ClassScanned(k, c)'
        BY <1>8, <3>3 DEF ClassScanned
      <3>5. c = app'.controllers[m][i]
        BY <1>7, <3>1
      <3> QED BY <3>4, <3>5
    <2>3. k # "guard"
      BY DEF HandlerKinds
    <2> QED BY <1>7, <2>1, <2>2, <2>3 DEF NodeScanned
  <1>12. \A s \in 1..6, j \in 1..Len(graph') : Been(s, j)' => NodeScanned(Scanners[s], graph[j])'
    BY <1>0, <1>3, <1>4, <1>7, <1>8, <1>11, ScanLeaves
  <1>13. ASSUME NEW i \in 1..Len(handlers') PROVE ComesFrom(handlers[i])'
    <2>1. PICK e : e = handlers'[i]
      OBVIOUS
    <2>2. CASE i \in 1..Len(handlers) /\ handlers'[i] = handlers[i]
      <3>1. ComesFrom(e)
        BY <2>1, <2>2 DEF ScanInv
      <3> QED BY <1>7, <2>1, <3>1, KeepsOrigin
    <2>3. CASE \E j \in 1..Len(new) : handlers'[i] = new[j]
      <3>1. FromFunction(e, m)
        BY <1>6, <2>1, <2>3
      <3>2. ComesFrom(e)
        BY <1>2, <1>3, <3>1 DEF ComesFrom
      <3> QED BY <1>7, <2>1, <3>2, KeepsOrigin
    <2> QED BY <1>8, <2>2, <2>3
  <1>14. \A i : ~(i \in 1..Len(Controllers') /\ i < member')
    BY <1>9
  <1>15. ASSUME NEW n \in GuardNames, guardTable'[n] # "none" PROVE GuardFrom(n, guardTable[n])'
    <2>1. PICK g : g = guardTable[n]
      OBVIOUS
    <2>2. GuardFrom(n, g)
      BY <1>7, <1>15, <2>1 DEF ScanInv
    <2> QED BY <1>7, <2>1, <2>2, KeepsOrigin
  <1> QED BY <1>10, <1>12, <1>13, <1>14, <1>15 DEF ScanInv

LEMMA ScanByGuards ==
  ASSUME HandlersDeclared, GraphTypeOK, ScanInv, ScanGuards
  PROVE  ScanInv'
  <1>0. ScanTypeOK /\ phase = "scan" /\ Kind = "guard" /\ NextNode
    BY DEF ScanInv, ScanGuards, Scanning
  <1>1. Node \in Module
    BY <1>0, NodeIs
  <1>2. PICK m \in Module : m = Node
    BY <1>1
  <1>3. app.guards[m] \in Seq(GuardDef) /\ DOMAIN app.guards[m] = 1..Len(app.guards[m])
        /\ \A i \in DOMAIN app.guards[m] : app.guards[m][i] \in GuardDef
        /\ Len(app.guards[m]) \in Nat
    BY SMTT(30) DEF GraphTypeOK, Declared, GuardDef
  <1>4. guardTable' = [n \in GuardNames |->
          IF Named(m, n) = {} THEN guardTable[n]
          ELSE app.guards[m][Last(Named(m, n))]]
    BY <1>2 DEF ScanGuards, Last
  <1>5. UNCHANGED <<app, graph, handlers>>
    BY DEF ScanGuards, scanned
  <1>6. "none" \notin GuardDef
    BY GraphAssumption DEF HandlersDeclared, GuardDef
  <1>7. ASSUME NEW n \in GuardNames, Named(m, n) # {} PROVE guardTable'[n] \in GuardDef
    <2>1. Named(m, n) \in SUBSET (1..Len(app.guards[m]))
      BY <1>3 DEF Named
    <2>2. Last(Named(m, n)) \in Named(m, n)
      BY <1>3, <1>7, <2>1, FirstLast
    <2>3. guardTable'[n] = app.guards[m][Last(Named(m, n))]
      BY <1>4, <1>7
    <2> QED BY <1>3, <2>1, <2>2, <2>3
  <1>8. \A n \in GuardNames : Named(m, n) = {} => guardTable'[n] = guardTable[n]
    BY <1>4
  <1>9. guardTable' \in [GuardNames -> GuardDef \cup {"none"}]
    <2>1. \A n \in GuardNames : guardTable'[n] \in GuardDef \cup {"none"}
      BY <1>0, <1>7, <1>8 DEF ScanTypeOK
    <2>2. guardTable' = [n \in GuardNames |-> guardTable'[n]]
      BY <1>4
    <2> QED BY <2>1, <2>2
  <1>10. \A n \in GuardNames : guardTable[n] # "none" => guardTable'[n] # "none"
    BY <1>6, <1>7, <1>8
  <1>11. /\ member' = 1 /\ scanner' \in 1..6 /\ phase' \in {"scan", "bind"}
         /\ phase' = "scan" => at' <= Len(graph)
    BY <1>0, <1>5, NextNodeIs
  <1>12. ScanTypeOK'
    BY <1>0, <1>5, <1>9, <1>11 DEF ScanTypeOK
  <1>13. NodeScanned("guard", m)'
    <2>1. ASSUME NEW i \in 1..Len(app.guards[m]), GuardName[app.guards[m][i]] # "none"
          PROVE  guardTable'[GuardName[app.guards[m][i]]] # "none"
      <3>1. GuardName[app.guards[m][i]] \in GuardNames
        BY <2>1, GuardsNamed DEF GraphTypeOK
      <3>2. i \in Named(m, GuardName[app.guards[m][i]])
        BY <1>3 DEF Named
      <3> QED BY <1>6, <1>7, <3>1, <3>2
    <2>2. GuardsScanned(m)'
      BY <1>5, <2>1 DEF GuardsScanned
    <2> QED BY <2>2 DEF NodeScanned
  <1>14. \A l, d, tag, id : Listed(l, d, tag, id) => Listed(l, d, tag, id)'
    BY <1>5 DEF Listed
  <1>15. \A s \in 1..6, j \in 1..Len(graph') : Been(s, j)' => NodeScanned(Scanners[s], graph[j])'
    BY <1>0, <1>2, <1>5, <1>10, <1>13, <1>14, ScanLeaves
  <1>16. ASSUME NEW i \in 1..Len(handlers') PROVE ComesFrom(handlers[i])'
    <2>1. PICK e : e = handlers[i]
      OBVIOUS
    <2>2. ComesFrom(e)
      BY <1>5, <2>1 DEF ScanInv
    <2> QED BY <1>5, <2>1, <2>2, KeepsOrigin
  <1>17. \A i : ~(i \in 1..Len(Controllers') /\ i < member')
    BY <1>11
  <1>18. ASSUME NEW n \in GuardNames, guardTable'[n] # "none" PROVE GuardFrom(n, guardTable[n])'
    <2>1. PICK g : g = guardTable'[n]
      OBVIOUS
    <2>2. GuardFrom(n, g)
      <3>1. CASE Named(m, n) = {}
        BY <1>8, <1>18, <2>1, <3>1 DEF ScanInv
      <3>2. CASE Named(m, n) # {}
        <4>1. Named(m, n) \in SUBSET (1..Len(app.guards[m]))
          BY <1>3 DEF Named
        <4>2. Last(Named(m, n)) \in Named(m, n)
          BY <1>3, <3>2, <4>1, FirstLast
        <4>3. PICK i \in Named(m, n) : i = Last(Named(m, n))
          BY <4>2
        <4>4. g = app.guards[m][i]
          BY <1>4, <2>1, <3>2, <4>3
        <4>5. i \in DOMAIN app.guards[m] /\ GuardName[app.guards[m][i]] = n
          BY DEF Named
        <4>6. m \in Visited
          BY <1>0, <1>2, NodeIs DEF ScanInv
        <4> QED BY <4>4, <4>5, <4>6 DEF GuardFrom, RangeOf
      <3> QED BY <3>1, <3>2
    <2> QED BY <1>5, <2>1, <2>2, KeepsOrigin
  <1> QED BY <1>12, <1>15, <1>16, <1>17, <1>18 DEF ScanInv

(* Steps that leave the registry as it is, and the scan where it was.      *)
LEMMA ScanFrame ==
  ASSUME ScanInv, UNCHANGED <<app, graph, scanner, handlers, guardTable, at, member>>,
         phase' = phase \/ (phase = "bind" /\ phase' = "running")
  PROVE  ScanInv'
  <1>1. ScanTypeOK'
    BY DEF ScanInv, ScanTypeOK
  <1>2. ASSUME NEW s \in 1..6, NEW j \in 1..Len(graph'), Been(s, j)'
        PROVE  NodeScanned(Scanners[s], graph[j])'
    <2>1. Been(s, j)
      BY <1>2 DEF Been
    <2>2. PICK m : m = graph[j]
      OBVIOUS
    <2>3. NodeScanned(Scanners[s], m)
      BY <2>1, <2>2 DEF ScanInv
    <2>4. NodeScanned(Scanners[s], m)'
      BY <2>3 DEF NodeScanned, ClassScanned, FunctionsScanned, GuardsScanned, Listed
    <2>5. m = graph'[j]
      BY <2>2
    <2> QED BY <2>4, <2>5
  <1>3. ASSUME phase' = "scan", Kind' # "guard", NEW i \in 1..Len(Controllers'), i < member'
        PROVE  ClassScanned(Kind, Controllers[i])'
    <2>1. Kind' = Kind /\ Controllers' = Controllers
      BY DEF Kind, Controllers, Node
    <2>2. PICK k : k = Kind
      OBVIOUS
    <2>3. PICK c : c = Controllers[i]
      OBVIOUS
    <2>4. ClassScanned(k, c)
      BY <1>3, <2>1, <2>2, <2>3 DEF ScanInv
    <2>5. ClassScanned(k, c)'
      BY <2>4 DEF ClassScanned, Listed
    <2>6. Kind' = k /\ Controllers'[i] = c
      BY <2>1, <2>2, <2>3
    <2> QED BY <2>5, <2>6
  <1>4. ASSUME NEW i \in 1..Len(handlers') PROVE ComesFrom(handlers[i])'
    <2>1. PICK e : e = handlers[i]
      OBVIOUS
    <2>2. ComesFrom(e)
      BY <2>1 DEF ScanInv
    <2> QED BY <2>1, <2>2, KeepsOrigin
  <1>5. ASSUME NEW n \in GuardNames, guardTable'[n] # "none" PROVE GuardFrom(n, guardTable[n])'
    <2>1. PICK g : g = guardTable[n]
      OBVIOUS
    <2>2. GuardFrom(n, g)
      BY <1>5, <2>1 DEF ScanInv
    <2> QED BY <2>1, <2>2, KeepsOrigin
  <1> QED BY <1>1, <1>2, <1>3, <1>4, <1>5 DEF ScanInv

LEMMA ScanStep ==
  ASSUME HandlersDeclared, IInv, WalkExact, ScanInv, [Next]_vars
  PROVE  ScanInv'
  <1>0. GraphTypeOK /\ PhaseInv
    BY DEF IInv
  <1>1. CASE Bootstrap
    BY <1>0, <1>1, ScanByGraph
  <1>2. CASE StartScan
    <2>1. /\ phase = "valid" /\ phase' = "scan" /\ at' = 1
          /\ UNCHANGED <<app, graph, member, scanner, handlers, guardTable>>
      BY <1>2 DEF StartScan, scanVars
    <2>2. member = 1 /\ scanner = 1 /\ handlers = <<>> /\ ScanTypeOK
      BY <2>1 DEF ScanInv, ScanTypeOK
    <2>3. 1 <= Len(graph)
      <3>1. Root \in Visited
        BY <2>1 DEF WalkExact, Graphed
      <3>2. graph \in Seq(Module)
        BY <1>0 DEF GraphTypeOK
      <3> QED BY <3>1, <3>2, InRange DEF Visited
    <2>4. ScanTypeOK'
      BY <2>1, <2>2, <2>3 DEF ScanTypeOK
    <2>5. \A s \in 1..6, j \in 1..Len(graph') : ~Been(s, j)'
      BY <2>1, <2>2 DEF Been
    <2>6. \A i \in 1..Len(Controllers') : ~(i < member')
      BY <2>1, <2>2
    <2>7. \A i : i \notin 1..Len(handlers')
      <3>1. PICK e : e = Len(handlers')
        OBVIOUS
      <3>2. e = 0
        BY <2>1, <2>2, <3>1
      <3>3. \A i : i \notin 1..e
        BY <3>2
      <3> QED BY <3>1, <3>3
    <2>8. \A n \in GuardNames : guardTable'[n] = "none"
      BY <2>1, <2>2 DEF ScanTypeOK
    <2> QED BY <2>4, <2>5, <2>6, <2>7, <2>8 DEF ScanInv
  <1>3. CASE ScanController
    BY <1>0, <1>3, ScanByController
  <1>4. CASE ScanFunctions
    BY <1>0, <1>4, ScanByFunctions
  <1>5. CASE ScanGuards
    BY <1>0, <1>5, ScanByGuards
  <1>6. CASE Bind
    <2>1. UNCHANGED <<graphVars, scanVars>>
      BY <1>6 DEF Bind, BindGuard, BindByKey, BindById, BindByModule, BindNone, Give, bindFrame
    <2>2. UNCHANGED <<app, graph, scanner, handlers, guardTable, at, member, phase>>
      BY <2>1 DEF graphVars, scanVars
    <2> QED BY <2>2, ScanFrame
  <1>7. CASE Run
    <2>1. /\ UNCHANGED <<app, graph, scanner, handlers, guardTable, at, member>>
          /\ phase = "bind" /\ phase' = "running"
      BY <1>7 DEF Run, scanVars
    <2> QED BY <2>1, ScanFrame
  <1>8. CASE UNCHANGED vars
    <2>1. UNCHANGED <<app, graph, scanner, handlers, guardTable, at, member, phase>>
      BY <1>8 DEF vars, graphVars, scanVars
    <2> QED BY <2>1, ScanFrame
  <1> QED BY <1>1, <1>2, <1>3, <1>4, <1>5, <1>6, <1>7, <1>8 DEF Next, Scan

-----------------------------------------------------------------------------
(* What the lookups find in it.                                            *)

(* A route matches itself.                                                 *)
LEMMA MatchesItself ==
  ASSUME NEW p \in Seq(STRING)
  PROVE  MatchRoute(p, p)
  <1>1. DOMAIN p = 1..Len(p) /\ Len(p) \in Nat
    OBVIOUS
  <1>2. PICK P : P = {w \in DOMAIN p : p[w] = "+"}
    OBVIOUS
  <1>3. CASE P = {}
    BY <1>1, <1>2, <1>3 DEF MatchRoute
  <1>4. CASE P # {}
    <2>1. PICK w \in P : \A e \in P : w <= e
      BY <1>1, <1>2, <1>4, LeastNat
    <2>2. w \in DOMAIN p /\ w \in 1..Len(p) /\ p[w] = "+"
      BY <1>1, <1>2
    <2>3. \A i \in 1..(w - 1) : i \in DOMAIN p /\ p[i] # "+"
      BY <1>1, <1>2, <2>1, <2>2
    <2> QED BY <1>1, <2>2, <2>3 DEF MatchRoute
  <1> QED BY <1>3, <1>4

(* getHandler finds a handler that answers to the key of a blueprint's     *)
(* handler whenever one is registered, and nothing else.                   *)
LEMMA KeyFinds ==
  ASSUME ScanTypeOK, NEW d, NEW i \in 1..Len(handlers), Answers(handlers[i], handlers[i].path, d)
  PROVE  GetHandler(d.kind, d.method, LookupKey(d)) # 0
  <1>1. DOMAIN handlers = 1..Len(handlers) /\ Len(handlers) \in Nat
    BY DEF ScanTypeOK
  <1>2. CASE d.kind = "http"
    <2>1. LookupKey(d) = d.path
      BY <1>2 DEF LookupKey, Sourced
    <2>2. PICK I : I = {j \in DOMAIN handlers : /\ handlers[j].kind = "http"
                                               /\ handlers[j].method = d.method
                                               /\ MatchRoute(handlers[j].path, d.path)}
      OBVIOUS
    <2>3. I \in SUBSET (1..Len(handlers)) /\ I # {}
      BY <1>1, <1>2, <2>2 DEF Answers
    <2>4. First(I) # 0
      BY <1>1, <2>3, FirstLast
    <2> QED BY <1>2, <2>1, <2>2, <2>4 DEF GetHandler
  <1>3. CASE d.kind # "http"
    <2>1. PICK I : I = {j \in DOMAIN handlers :
                          handlers[j].kind = d.kind /\ handlers[j].path = LookupKey(d)}
      OBVIOUS
    <2>2. I \in SUBSET (1..Len(handlers)) /\ I # {}
      BY <1>1, <1>3, <2>1 DEF Answers
    <2>3. Last(I) # 0
      BY <1>1, <2>2, FirstLast
    <2> QED BY <1>3, <2>1, <2>3 DEF GetHandler
  <1> QED BY <1>2, <1>3

LEMMA KeyGives ==
  ASSUME ScanTypeOK, NEW d, NEW g, g = GetHandler(d.kind, d.method, LookupKey(d)), g # 0
  PROVE  g \in 1..Len(handlers) /\ Answers(handlers[g], handlers[g].path, d)
  <1>1. DOMAIN handlers = 1..Len(handlers) /\ Len(handlers) \in Nat
    BY DEF ScanTypeOK
  <1>2. CASE d.kind = "http"
    <2>1. LookupKey(d) = d.path
      BY <1>2 DEF LookupKey, Sourced
    <2>2. PICK I : I = {j \in DOMAIN handlers : /\ handlers[j].kind = "http"
                                               /\ handlers[j].method = d.method
                                               /\ MatchRoute(handlers[j].path, d.path)}
      OBVIOUS
    <2>3. g = First(I)
      BY <1>2, <2>1, <2>2 DEF GetHandler
    <2>4. I \in SUBSET (1..Len(handlers)) /\ I # {}
      BY <1>1, <2>2, <2>3 DEF First
    <2>5. g \in I
      BY <1>1, <2>3, <2>4, FirstLast
    <2> QED BY <1>1, <1>2, <2>2, <2>5 DEF Answers
  <1>3. CASE d.kind # "http"
    <2>1. PICK I : I = {j \in DOMAIN handlers :
                          handlers[j].kind = d.kind /\ handlers[j].path = LookupKey(d)}
      OBVIOUS
    <2>2. g = Last(I)
      BY <1>3, <2>1 DEF GetHandler
    <2>3. I \in SUBSET (1..Len(handlers)) /\ I # {}
      BY <1>1, <2>1, <2>2 DEF Last
    <2>4. g \in I
      BY <1>1, <2>2, <2>3, FirstLast
    <2> QED BY <1>1, <1>3, <2>1, <2>4 DEF Answers
  <1> QED BY <1>2, <1>3

(* getHandlerById finds a handler with the id, and a function of the kind, *)
(* if the functions with that id are of one kind.                          *)
LEMMA IdFinds ==
  ASSUME ScanInv, NEW d, d.id # "none", OneKind(d), NEW i \in 1..Len(handlers), handlers[i].id = d.id
  PROVE  GetHandlerById(d.kind, d.id) # 0
  <1>1. DOMAIN handlers = 1..Len(handlers) /\ Len(handlers) \in Nat
    BY DEF ScanInv, ScanTypeOK
  <1>2. PICK I : I = {j \in DOMAIN handlers : handlers[j].id = d.id}
    OBVIOUS
  <1>3. I \in SUBSET (1..Len(handlers)) /\ I # {}
    BY <1>1, <1>2
  <1>4. Last(I) \in I /\ Last(I) # 0
    BY <1>1, <1>3, FirstLast
  <1>5. PICK l \in 1..Len(handlers) : l = Last(I) /\ handlers[l].id = d.id /\ l # 0
    BY <1>1, <1>2, <1>4
  <1>6. PICK m \in Visited : FromFunction(handlers[l], m)
    <2>1. ComesFrom(handlers[l])
      BY <1>5 DEF ScanInv
    <2> QED BY <1>5, <2>1 DEF ComesFrom, FromMethod, Is
  <1>7. PICK h \in RangeOf(app.functions[m]) : h.id = handlers[l].id /\ h.kind = handlers[l].kind
    BY <1>6 DEF FromFunction, Is
  <1>8. handlers[l].kind = d.kind
    BY <1>5, <1>7 DEF OneKind
  <1> QED BY <1>2, <1>5, <1>8 DEF GetHandlerById

(* What is found by the key is a function declared for d ...               *)
LEMMA KeyDeclared ==
  ASSUME ScanInv, NEW d, NEW g, g = GetHandler(d.kind, d.method, LookupKey(d)), g # 0
  PROVE  handlers[g].fn \in DeclaredFor(d)
  <1>1. PICK e : e = handlers[g]
    OBVIOUS
  <1>2. Answers(e, e.path, d) /\ ComesFrom(e)
    BY <1>1, KeyGives DEF ScanInv
  <1>3. PICK m \in Visited : \/ \E c \in RangeOf(app.controllers[m]) : FromMethod(e, c)
                             \/ FromFunction(e, m)
    BY <1>2 DEF ComesFrom
  <1>4. CASE \E c \in RangeOf(app.controllers[m]) : FromMethod(e, c)
    <2>1. PICK c \in RangeOf(app.controllers[m]) : FromMethod(e, c)
      BY <1>4
    <2>2. PICK h \in RangeOf(Methods[c]) :
             /\ Is(e, h.kind, h, MethodTag(h), "none") /\ e.fn = h.fn
             /\ h.kind \in CrossCutting \cup ControllerOf[c]
      BY <2>1 DEF FromMethod
    <2>3. Answers(h, MethodTag(h), d) /\ d.kind = h.kind
      BY <1>2, <2>2 DEF Is, Answers
    <2>4. e.fn \in MethodsFor(d, c)
      BY <2>2, <2>3 DEF MethodsFor
    <2> QED BY <1>1, <2>4 DEF DeclaredFor
  <1>5. CASE FromFunction(e, m)
    <2>1. PICK h \in RangeOf(app.functions[m]) :
             Is(e, h.kind, h, FunctionTag(h), h.id) /\ e.fn = h.fn
      BY <1>5 DEF FromFunction
    <2>2. Answers(h, FunctionTag(h), d)
      BY <1>2, <2>1 DEF Is, Answers
    <2>3. e.fn \in FunctionsFor(d, m)
      BY <2>1, <2>2 DEF FunctionsFor
    <2> QED BY <1>1, <2>3 DEF DeclaredFor
  <1> QED BY <1>3, <1>4, <1>5

(* ... and so is what is found by the id, of functions of one kind ...     *)
LEMMA IdDeclared ==
  ASSUME ScanInv, NEW d, OneKind(d), NEW g, g = GetHandlerById(d.kind, d.id), g # 0
  PROVE  handlers[g].fn \in DeclaredFor(d)
  <1>1. DOMAIN handlers = 1..Len(handlers) /\ Len(handlers) \in Nat
    BY DEF ScanInv, ScanTypeOK
  <1>2. PICK I : I = {j \in DOMAIN handlers : handlers[j].id = d.id}
    OBVIOUS
  <1>3. g = Last(I) /\ d.id # "none" /\ handlers[g].kind = d.kind
    BY <1>2 DEF GetHandlerById
  <1>4. I \in SUBSET (1..Len(handlers)) /\ I # {}
    BY <1>1, <1>2, <1>3 DEF Last
  <1>5. g \in I
    BY <1>1, <1>3, <1>4, FirstLast
  <1>6. g \in 1..Len(handlers) /\ handlers[g].id = d.id
    BY <1>2, <1>4, <1>5
  <1>7. PICK e : e = handlers[g]
    OBVIOUS
  <1>8. PICK m \in Visited : FromFunction(e, m)
    <2>1. ComesFrom(e)
      BY <1>6, <1>7 DEF ScanInv
    <2> QED BY <1>3, <1>6, <1>7, <2>1 DEF ComesFrom, FromMethod, Is
  <1>9. PICK h \in RangeOf(app.functions[m]) :
           Is(e, h.kind, h, FunctionTag(h), h.id) /\ e.fn = h.fn
    BY <1>8 DEF FromFunction
  <1>10. h.kind = d.kind /\ h.id = d.id
    BY <1>3, <1>6, <1>7, <1>9 DEF Is
  <1>11. e.fn \in FunctionsFor(d, m)
    BY <1>3, <1>9, <1>10 DEF FunctionsFor
  <1> QED BY <1>7, <1>11 DEF DeclaredFor

(* ... and the guard found by its name.                                    *)
LEMMA GuardDeclared ==
  ASSUME ScanInv, NEW d, d.kind = "guard", GuardOf(d.id) # "none"
  PROVE  GuardOf(d.id) \in DeclaredFor(d)
  <1>1. d.id \in GuardNames /\ GuardOf(d.id) = guardTable[d.id]
    BY DEF GuardOf
  <1>2. GuardFrom(d.id, guardTable[d.id])
    BY <1>1 DEF ScanInv
  <1>3. PICK m \in Visited : guardTable[d.id] \in GuardsFor(d, m)
    BY <1>2 DEF GuardFrom, GuardsFor
  <1> QED BY <1>1, <1>3 DEF DeclaredFor

-----------------------------------------------------------------------------
(* The blueprint.                                                          *)

Served(d, i) ==
  DeclaredFor(d) # {} =>
    \E k \in 1..Len(callbacks) : callbacks[k].def = i /\ callbacks[k].fn \in DeclaredFor(d)

BindInv ==
  /\ bound \in Nat /\ bound <= Len(app.blueprint)
  /\ phase \notin {"bind", "running"} => bound = 0
  /\ phase = "running" => bound = Len(app.blueprint)
  /\ \E S : callbacks \in Seq(S)
  /\ \A i \in 1..bound : Served(app.blueprint[i], i)

(* What is declared is a matter of the application and its graph alone.    *)
LEMMA SameDeclared ==
  ASSUME UNCHANGED <<app, graph>>, NEW d
  PROVE  DeclaredFor(d)' = DeclaredFor(d)
  <1>1. Visited' = Visited
    BY DEF Visited
  <1>2. OneKind(d)' <=> OneKind(d)
    BY <1>1 DEF OneKind
  <1>3. ASSUME NEW m PROVE FunctionsFor(d, m)' = FunctionsFor(d, m) /\ GuardsFor(d, m)' = GuardsFor(d, m)
    BY <1>2 DEF FunctionsFor, GuardsFor
  <1> QED BY <1>1, <1>3 DEF DeclaredFor

(* What an application declares for d is found once every scanner has been *)
(* to every node.                                                          *)
LEMMA DeclaredFound ==
  ASSUME HandlersDeclared, GraphTypeOK, ScanInv, phase = "bind", NEW d \in Wanted, DeclaredFor(d) # {},
         d.kind = "guard" => d.id # "none"
  PROVE  /\ d.kind = "guard" => GuardOf(d.id) # "none"
         /\ d.kind # "guard" => \/ GetHandler(d.kind, d.method, LookupKey(d)) # 0
                                \/ GetHandlerById(d.kind, d.id) # 0 /\ OneKind(d)
  <1>1. PICK m \in Visited : \/ \E c \in RangeOf(app.controllers[m]) : MethodsFor(d, c) # {}
                             \/ FunctionsFor(d, m) # {}
                             \/ GuardsFor(d, m) # {}
    BY DEF DeclaredFor
  <1>2. PICK j \in 1..Len(graph) : graph[j] = m
    BY InRange DEF Visited, GraphTypeOK
  <1>3. m \in Module
    BY <1>2 DEF GraphTypeOK
  <1>4. \A k \in HandlerKinds \cup {"guard"} : NodeScanned(k, m)
    <2>1. \A s \in 1..6 : NodeScanned(Scanners[s], m)
      BY <1>2 DEF ScanInv, Been
    <2>2. /\ Scanners[1] = "http" /\ Scanners[2] = "guard" /\ Scanners[3] = "websocket"
          /\ Scanners[4] = "consumer" /\ Scanners[5] = "schedule" /\ Scanners[6] = "custom"
      BY DEF Scanners
    <2>3. /\ NodeScanned("http", m) /\ NodeScanned("guard", m) /\ NodeScanned("websocket", m)
          /\ NodeScanned("consumer", m) /\ NodeScanned("schedule", m) /\ NodeScanned("custom", m)
      BY <2>1, <2>2
    <2> QED BY <2>3 DEF HandlerKinds
  <1>5. app \in App /\ Declared(app) /\ ScanTypeOK
    BY DEF GraphTypeOK, ScanInv, ScanTypeOK
  <1>6. d.kind \in HandlerKinds \cup {"guard"}
    BY DEF Wanted
  <1>7. "guard" \notin HandlerKinds
    BY DEF HandlerKinds
  <1>8. CASE \E c \in RangeOf(app.controllers[m]) : MethodsFor(d, c) # {}
    <2>1. PICK c \in RangeOf(app.controllers[m]) : MethodsFor(d, c) # {}
      BY <1>8
    <2>2. app.controllers[m] \in Seq(ClassToken)
      BY <1>3, <1>5 DEF Declared
    <2>3. c \in ClassToken /\ \E a \in 1..Len(app.controllers[m]) : app.controllers[m][a] = c
      BY <2>1, <2>2, InRange
    <2>4. Methods[c] \in Seq(Method)
      BY <2>3 DEF HandlersDeclared
    <2>5. PICK h \in RangeOf(Methods[c]) :
             d.kind \in CrossCutting \cup ControllerOf[c] /\ Answers(h, MethodTag(h), d)
      BY <2>1 DEF MethodsFor
    <2>6. PICK b \in 1..Len(Methods[c]) : Methods[c][b] = h
      BY <2>4, <2>5, InRange
    <2>7. h \in Method /\ h.kind = d.kind
      BY <2>4, <2>5, <2>6 DEF Answers
    <2>8. d.kind # "guard"
      BY <1>7, <2>7 DEF Method
    <2>9. ClassScanned(d.kind, c)
      BY <1>4, <1>6, <2>3, <2>8 DEF NodeScanned
    <2>10. Listed(d.kind, h, MethodTag(h), "none")
      BY <2>5, <2>6, <2>7, <2>9 DEF ClassScanned
    <2>11. PICK i \in 1..Len(handlers) : Is(handlers[i], d.kind, h, MethodTag(h), "none")
      BY <2>10 DEF Listed
    <2>12. Answers(handlers[i], handlers[i].path, d)
      BY <2>5, <2>11 DEF Answers, Is
    <2> QED BY <1>5, <2>8, <2>12, KeyFinds
  <1>9. CASE FunctionsFor(d, m) # {}
    <2>1. PICK h \in RangeOf(app.functions[m]) :
             \/ Answers(h, FunctionTag(h), d)
             \/ h.kind = d.kind /\ h.id = d.id /\ d.id # "none" /\ OneKind(d)
      BY <1>9 DEF FunctionsFor
    <2>2. app.functions[m] \in Seq(Function)
      BY <1>3, <1>5 DEF HandlersDeclared
    <2>3. PICK b \in 1..Len(app.functions[m]) : app.functions[m][b] = h
      BY <2>1, <2>2, InRange
    <2>4. h \in Function /\ h.kind = d.kind
      BY <2>1, <2>2, <2>3 DEF Answers
    <2>5. d.kind # "guard"
      BY <1>7, <2>4 DEF Function
    <2>6. FunctionsScanned(d.kind, m)
      BY <1>4, <1>6, <2>5 DEF NodeScanned
    <2>7. Listed(d.kind, h, FunctionTag(h), h.id)
      BY <2>3, <2>4, <2>6 DEF FunctionsScanned
    <2>8. PICK i \in 1..Len(handlers) : Is(handlers[i], d.kind, h, FunctionTag(h), h.id)
      BY <2>7 DEF Listed
    <2>9. CASE Answers(h, FunctionTag(h), d)
      <3>1. Answers(handlers[i], handlers[i].path, d)
        BY <2>8, <2>9 DEF Answers, Is
      <3> QED BY <1>5, <2>5, <3>1, KeyFinds
    <2>10. CASE h.kind = d.kind /\ h.id = d.id /\ d.id # "none" /\ OneKind(d)
      BY <2>5, <2>8, <2>10, IdFinds DEF Is
    <2> QED BY <2>1, <2>9, <2>10
  <1>10. CASE GuardsFor(d, m) # {}
    <2>1. d.kind = "guard" /\ d.id # "none" /\ \E g \in RangeOf(app.guards[m]) : GuardName[g] = d.id
      BY <1>10 DEF GuardsFor
    <2>2. app.guards[m] \in Seq(GuardDef)
      BY <1>3, <1>5 DEF Declared, GuardDef
    <2>3. PICK b \in 1..Len(app.guards[m]) : GuardName[app.guards[m][b]] = d.id
      BY <2>1, <2>2, InRange
    <2>4. d.id \in GuardNames
      BY <1>3, <1>5, <2>1, <2>3, GuardsNamed
    <2>5. guardTable[d.id] # "none"
      BY <1>4, <2>1, <2>3 DEF NodeScanned, GuardsScanned
    <2> QED BY <2>1, <2>4, <2>5 DEF GuardOf
  <1> QED BY <1>1, <1>8, <1>9, <1>10

LEMMA BindInit == HandlersDeclared /\ RuntimeInit => BindInv
  <1> SUFFICES ASSUME HandlersDeclared, RuntimeInit PROVE BindInv
    OBVIOUS
  <1>1. bound = 0 /\ callbacks = <<>> /\ app \in App /\ phase = "walk"
    BY DEF RuntimeInit, Init
  <1>2. app.blueprint \in Seq(Wanted)
    BY <1>1 DEF HandlersDeclared
  <1>3. Len(app.blueprint) \in Nat
    BY <1>2
  <1>4. callbacks \in Seq({})
    BY <1>1
  <1>5. \A i : i \notin 1..bound
    BY <1>1
  <1> QED BY <1>1, <1>3, <1>4, <1>5 DEF BindInv

(* Steps that look nothing up.                                             *)
LEMMA BindFrame ==
  ASSUME BindInv, UNCHANGED <<app, bound, callbacks>>,
         bound = 0 \/ (UNCHANGED graph /\ phase' \in {"bind", "running"}),
         phase' = "running" => bound = Len(app.blueprint)
  PROVE  BindInv'
  <1>1. CASE bound = 0
    <2>1. \A i : i \notin 1..bound'
      BY <1>1
    <2> QED BY <1>1, <2>1 DEF BindInv
  <1>2. CASE UNCHANGED graph /\ phase' \in {"bind", "running"}
    <2>1. ASSUME NEW i \in 1..bound' PROVE Served(app.blueprint[i], i)'
      <3>1. PICK d : d = app.blueprint[i]
        OBVIOUS
      <3>2. d = app'.blueprint[i]
        BY <3>1
      <3>3. Served(d, i)
        BY <3>1 DEF BindInv
      <3>4. DeclaredFor(d)' = DeclaredFor(d)
        BY <1>2, SameDeclared
      <3>5. Served(d, i)'
        BY <3>3, <3>4 DEF Served
      <3> QED BY <3>2, <3>5
    <2> QED BY <1>2, <2>1 DEF BindInv
  <1> QED BY <1>1, <1>2

LEMMA BindLookup ==
  ASSUME HandlersDeclared, IInv, ScanInv, BindInv, Bind
  PROVE  BindInv'
  <1>1. /\ phase = "bind" /\ bound < Len(app.blueprint) /\ bound' = bound + 1
        /\ UNCHANGED <<app, graph, phase>>
    BY DEF Bind, BindGuard, BindByKey, BindById, BindByModule, BindNone, Give, bindFrame, graphVars,
           Binding, NeedsModule
  <1>2. PICK S : callbacks \in Seq(S)
    BY DEF BindInv
  <1>3. app \in App /\ app.blueprint \in Seq(Wanted) /\ bound \in Nat
    BY DEF ScanInv, ScanTypeOK, HandlersDeclared, BindInv
  <1>4. PICK d : d = Def
    OBVIOUS
  <1>5. d = app.blueprint[bound + 1] /\ d \in Wanted /\ bound + 1 \in 1..Len(app.blueprint)
    BY <1>1, <1>3, <1>4 DEF Def
  <1>6. d.kind = "guard" => d.id # "none"
    BY <1>3, <1>5 DEF HandlersDeclared
  <1>7. bound + 1 \in Nat /\ bound + 1 <= Len(app.blueprint)
    BY <1>1, <1>3, <1>5
  <1>8. \A i \in 1..bound' : i \in 1..bound \/ i = bound + 1
    BY <1>1, <1>3
  <1>9. PICK key, id : /\ key = GetHandler(d.kind, d.method, LookupKey(d))
                       /\ id = GetHandlerById(d.kind, d.id)
    OBVIOUS
  <1>10. key = ByKey /\ id = ById
    BY <1>4, <1>9 DEF ByKey, ById
  <1>11. \/ /\ callbacks' = callbacks
            /\ \/ d.kind # "guard" /\ key = 0 /\ id = 0
               \/ d.kind = "guard" /\ GuardOf(d.id) = "none"
         \/ \E h, f : /\ callbacks' = Append(callbacks, [def |-> bound + 1, handler |-> h, fn |-> f])
                      /\ \/ d.kind = "guard" /\ GuardOf(d.id) # "none" /\ f = GuardOf(d.id)
                         \/ d.kind # "guard" /\ key # 0 /\ f = handlers[key].fn
                         \/ d.kind # "guard" /\ key = 0 /\ id # 0 /\ f = handlers[id].fn
                         \/ d.kind # "guard" /\ key = 0 /\ id = 0
    BY <1>4, <1>10 DEF Bind, BindGuard, BindByKey, BindById, BindByModule, BindNone, Give, NeedsModule
  <1>12. DeclaredFor(d) # {} =>
           /\ d.kind = "guard" => GuardOf(d.id) # "none"
           /\ d.kind # "guard" => key # 0 \/ (id # 0 /\ OneKind(d))
    BY <1>1, <1>5, <1>6, <1>9, DeclaredFound DEF IInv
  <1>13. ASSUME \A k \in 1..Len(callbacks) : k \in 1..Len(callbacks') /\ callbacks'[k] = callbacks[k],
                \E S1 : callbacks' \in Seq(S1),
                DeclaredFor(d) # {} => \E k \in 1..Len(callbacks') :
                  callbacks'[k].def = bound + 1 /\ callbacks'[k].fn \in DeclaredFor(d)
         PROVE  BindInv'
    <2>1. ASSUME NEW i \in 1..bound' PROVE Served(app.blueprint[i], i)'
      <3>1. PICK e : e = app.blueprint[i]
        OBVIOUS
      <3>2. e = app'.blueprint[i]
        BY <1>1, <3>1
      <3>3. DeclaredFor(e)' = DeclaredFor(e)
        BY <1>1, SameDeclared
      <3>4. DeclaredFor(e) # {} => \E k \in 1..Len(callbacks') :
              callbacks'[k].def = i /\ callbacks'[k].fn \in DeclaredFor(e)
        <4>1. CASE i = bound + 1
          BY <1>5, <1>13, <3>1, <4>1
        <4>2. CASE i \in 1..bound
          <5>1. Served(e, i)
            BY <3>1, <4>2 DEF BindInv
          <5> QED BY <1>13, <5>1 DEF Served
        <4> QED BY <1>8, <4>1, <4>2
      <3>5. Served(e, i)'
        BY <3>3, <3>4 DEF Served
      <3> QED BY <3>2, <3>5
    <2> QED BY <1>1, <1>7, <1>13, <2>1 DEF BindInv
  <1>14. CASE /\ callbacks' = callbacks
              /\ \/ d.kind # "guard" /\ key = 0 /\ id = 0
                 \/ d.kind = "guard" /\ GuardOf(d.id) = "none"
    <2>1. DeclaredFor(d) = {}
      BY <1>12, <1>14
    <2> QED BY <1>2, <1>13, <1>14, <2>1
  <1>15. ASSUME NEW h, NEW f, callbacks' = Append(callbacks, [def |-> bound + 1, handler |-> h, fn |-> f]),
                \/ d.kind = "guard" /\ GuardOf(d.id) # "none" /\ f = GuardOf(d.id)
                \/ d.kind # "guard" /\ key # 0 /\ f = handlers[key].fn
                \/ d.kind # "guard" /\ key = 0 /\ id # 0 /\ f = handlers[id].fn
                \/ d.kind # "guard" /\ key = 0 /\ id = 0
         PROVE  BindInv'
    <2>1. DeclaredFor(d) # {} => f \in DeclaredFor(d)
      <3>1. CASE d.kind = "guard" /\ GuardOf(d.id) # "none" /\ f = GuardOf(d.id)
        BY <3>1, GuardDeclared
      <3>2. CASE d.kind # "guard" /\ key # 0 /\ f = handlers[key].fn
        BY <1>9, <3>2, KeyDeclared
      <3>3. CASE d.kind # "guard" /\ key = 0 /\ id # 0 /\ f = handlers[id].fn
        BY <1>9, <1>12, <3>3, IdDeclared
      <3>4. CASE d.kind # "guard" /\ key = 0 /\ id = 0
        BY <1>12, <3>4
      <3> QED BY <1>15, <3>1, <3>2, <3>3, <3>4
    <2>2. PICK r : r = [def |-> bound + 1, handler |-> h, fn |-> f]
      OBVIOUS
    <2>3. r.def = bound + 1 /\ r.fn = f /\ callbacks' = Append(callbacks, r)
      BY <1>15, <2>2
    <2>4. PICK T : T = S \cup {r}
      OBVIOUS
    <2>5. callbacks \in Seq(T) /\ r \in T
      BY <1>2, <2>4
    <2>6. /\ callbacks' \in Seq(T) /\ Len(callbacks') = Len(callbacks) + 1 /\ Len(callbacks) \in Nat
          /\ \A k \in 1..Len(callbacks) : callbacks'[k] = callbacks[k]
          /\ callbacks'[Len(callbacks) + 1] = r
      BY <2>3, <2>5
    <2>7. /\ \A k \in 1..Len(callbacks) : k \in 1..Len(callbacks')
          /\ Len(callbacks) + 1 \in 1..Len(callbacks')
      BY <2>6
    <2>8. DeclaredFor(d) # {} => \E k \in 1..Len(callbacks') :
            callbacks'[k].def = bound + 1 /\ callbacks'[k].fn \in DeclaredFor(d)
      BY <2>1, <2>3, <2>6, <2>7
    <2> QED BY <1>13, <2>6, <2>7, <2>8
  <1> QED BY <1>11, <1>14, <1>15

LEMMA BindStep ==
  ASSUME HandlersDeclared, IInv, ScanInv, BindInv, [Next]_vars
  PROVE  BindInv'
  <1>0. GraphTypeOK /\ PhaseInv
    BY DEF IInv
  <1>1. CASE Bootstrap
    <2>1. UNCHANGED <<app, bound, callbacks>> /\ phase \notin {"bind", "running"}
          /\ phase' \notin {"bind", "running"}
      BY <1>0, <1>1, GraphSteps DEF Bootstrap, bindVars
    <2> QED BY <2>1, BindFrame DEF BindInv
  <1>2. CASE Scan
    <2>1. /\ UNCHANGED <<app, graph, bound, callbacks>> /\ phase \in {"valid", "scan"}
          /\ phase' \in {"scan", "bind"}
      BY <1>2 DEF Scan, StartScan, ScanController, ScanFunctions, ScanGuards, Scanning, NextNode,
                  scanned, bindVars
    <2> QED BY <2>1, BindFrame DEF BindInv
  <1>3. CASE Bind
    BY <1>3, BindLookup
  <1>4. CASE Run
    <2>1. /\ UNCHANGED <<app, graph, bound, callbacks>> /\ phase' = "running"
          /\ bound = Len(app.blueprint)
      BY <1>4 DEF Run, bindVars
    <2> QED BY <2>1, BindFrame
  <1>5. CASE UNCHANGED vars
    <2>1. UNCHANGED <<app, graph, phase, bound, callbacks>>
      BY <1>5 DEF vars, graphVars, bindVars
    <2>2. phase = "running" => bound = Len(app.blueprint)
      BY DEF BindInv
    <2>3. bound = 0 \/ phase' \in {"bind", "running"}
      BY <2>1 DEF BindInv
    <2> QED BY <2>1, <2>2, <2>3, BindFrame
  <1> QED BY <1>1, <1>2, <1>3, <1>4, <1>5 DEF Next

LEMMA BindMeans ==
  ASSUME HandlersDeclared, ScanTypeOK, BindInv
  PROVE  DeclaredIsBound
  <1> SUFFICES ASSUME phase = "running", NEW i \in DOMAIN app.blueprint, NEW d, d = app.blueprint[i],
                      DeclaredFor(d) # {}
               PROVE  \E b \in RangeOf(callbacks) : b.def = i /\ b.fn \in DeclaredFor(d)
    BY DEF DeclaredIsBound
  <1>1. app.blueprint \in Seq(Wanted)
    BY DEF HandlersDeclared, ScanTypeOK
  <1>2. i \in 1..bound
    BY <1>1 DEF BindInv
  <1>3. PICK k \in 1..Len(callbacks) : callbacks[k].def = i /\ callbacks[k].fn \in DeclaredFor(d)
    BY <1>2 DEF BindInv, Served
  <1>4. PICK S : callbacks \in Seq(S)
    BY DEF BindInv
  <1> QED BY <1>3, <1>4, InRange

(* Once the runtime runs, every handler of the blueprint for which the     *)
(* modules of the application declare functions under the key it is looked *)
(* up by, or with its id, has a callback of one of these functions, in     *)
(* whatever module and class they were declared.                           *)
THEOREM DeclaredCorrect ==
  ASSUME HandlersDeclared
  PROVE  Spec => []DeclaredIsBound
  <1>1. RuntimeInit => ScanInv /\ BindInv
    BY ScanInit, BindInit
  <1>2. IInv /\ WalkExact /\ ScanInv /\ BindInv /\ [Next]_vars => ScanInv' /\ BindInv'
    BY ScanStep, BindStep
  <1>3. ScanInv /\ BindInv => DeclaredIsBound
    BY BindMeans DEF ScanInv
  <1> QED BY <1>1, <1>2, <1>3, InitIInv, IInvStep, WalkExactCorrect, PTL DEF Spec

-----------------------------------------------------------------------------
(* Which handler a route gets.                                             *)

(* The handlers getHandler would take for the HTTP route d.                *)
Matches(h, d) == h.kind = "http" /\ h.method = d.method /\ MatchRoute(h.path, d.path)

(* The callback of an HTTP route runs the first handler registered whose   *)
(* pattern matches the route, whenever there is one (getHandler).          *)
FirstServes ==
  \A k \in 1..Len(callbacks) :
    LET d == app.blueprint[callbacks[k].def] IN
    d.kind = "http" => \A i \in 1..Len(handlers) : Matches(handlers[i], d) =>
      callbacks[k].handler \in 1..i /\ Matches(handlers[callbacks[k].handler], d)

(* No handler registered before one that was declared with a route of the  *)
(* blueprint has another pattern that matches the route.                   *)
Unshadowed ==
  \A x \in 1..Len(app.blueprint), i, j \in 1..Len(handlers) :
    LET d == app.blueprint[x] IN
    d.kind = "http" /\ handlers[j].kind = "http" /\ handlers[j].method = d.method
      /\ handlers[j].path = d.path /\ i < j /\ Matches(handlers[i], d)
      => handlers[i].path = d.path

ServesInv ==
  /\ phase \notin {"bind", "running"} => callbacks = <<>>
  /\ \A k \in 1..Len(callbacks) : callbacks[k].def \in 1..Len(app.blueprint)
  /\ FirstServes

(* What getHandler finds for a route is the first of the handlers that     *)
(* match it.                                                               *)
LEMMA GetsFirst ==
  ASSUME ScanTypeOK, NEW d, d.kind = "http", NEW i \in 1..Len(handlers), Matches(handlers[i], d)
  PROVE  /\ GetHandler(d.kind, d.method, LookupKey(d)) \in 1..i
         /\ Matches(handlers[GetHandler(d.kind, d.method, LookupKey(d))], d)
  <1>1. DOMAIN handlers = 1..Len(handlers) /\ Len(handlers) \in Nat
    BY DEF ScanTypeOK
  <1>2. PICK I : I = {j \in DOMAIN handlers : /\ handlers[j].kind = "http"
                                             /\ handlers[j].method = d.method
                                             /\ MatchRoute(handlers[j].path, d.path)}
    OBVIOUS
  <1>3. I \in SUBSET (1..Len(handlers)) /\ i \in I /\ I # {}
    BY <1>1, <1>2 DEF Matches
  <1>4. I \in SUBSET Nat
    BY <1>1, <1>3
  <1>5. \E m \in I : \A e \in I : m <= e
    BY <1>3, <1>4, LeastNat
  <1>6. First(I) = CHOOSE m \in I : \A e \in I : m <= e
    BY <1>3 DEF First
  <1>7. First(I) \in I /\ \A e \in I : First(I) <= e
    BY <1>5, <1>6
  <1>8. GetHandler(d.kind, d.method, LookupKey(d)) = First(I)
    BY <1>2 DEF GetHandler, LookupKey, Sourced
  <1>9. PICK f : f = First(I)
    OBVIOUS
  <1>10. f \in I /\ f <= i
    BY <1>3, <1>7, <1>9
  <1>11. f \in 1..Len(handlers) /\ Matches(handlers[f], d)
    BY <1>2, <1>3, <1>10 DEF Matches
  <1>12. f \in 1..i
    BY <1>1, <1>10, <1>11
  <1> QED BY <1>8, <1>9, <1>11, <1>12

(* Steps that give no callback.                                            *)
LEMMA ServesFrame ==
  ASSUME ServesInv, UNCHANGED <<app, callbacks>>,
         \/ callbacks = <<>>
         \/ UNCHANGED handlers /\ phase' \in {"bind", "running"}
  PROVE  ServesInv'
  <1>1. CASE callbacks = <<>>
    <2>1. Len(callbacks') = 0
      BY <1>1
    <2>2. \A k : k \notin 1..Len(callbacks')
      BY <2>1
    <2> QED BY <1>1, <2>2 DEF ServesInv, FirstServes
  <1>2. CASE UNCHANGED handlers /\ phase' \in {"bind", "running"}
    <2>1. ASSUME NEW k \in 1..Len(callbacks'), NEW e, e = app'.blueprint[callbacks'[k].def],
                 e.kind = "http", NEW i \in 1..Len(handlers'), Matches(handlers'[i], e)
          PROVE  /\ callbacks'[k].handler \in 1..i
                 /\ Matches(handlers'[callbacks'[k].handler], e)
      <3>1. e = app.blueprint[callbacks[k].def] /\ k \in 1..Len(callbacks)
        BY <2>1
      <3>2. i \in 1..Len(handlers) /\ Matches(handlers[i], e)
        BY <1>2, <2>1
      <3>3. callbacks[k].handler \in 1..i /\ Matches(handlers[callbacks[k].handler], e)
        BY <2>1, <3>1, <3>2 DEF ServesInv, FirstServes
      <3> QED BY <1>2, <3>3
    <2>2. \A k \in 1..Len(callbacks') : app'.blueprint[callbacks'[k].def].kind = "http" =>
            \A i \in 1..Len(handlers') : Matches(handlers'[i], app'.blueprint[callbacks'[k].def]) =>
              /\ callbacks'[k].handler \in 1..i
              /\ Matches(handlers'[callbacks'[k].handler], app'.blueprint[callbacks'[k].def])
      BY <2>1
    <2>3. FirstServes'
      BY <2>2 DEF FirstServes, Matches, MatchRoute
    <2> QED BY <1>2, <2>3 DEF ServesInv
  <1> QED BY <1>1, <1>2

LEMMA ServesBind ==
  ASSUME HandlersDeclared, ScanInv, BindInv, ServesInv, Bind
  PROVE  ServesInv'
  <1>1. /\ phase = "bind" /\ bound < Len(app.blueprint)
        /\ UNCHANGED <<app, handlers, phase>>
    BY DEF Bind, BindGuard, BindByKey, BindById, BindByModule, BindNone, Give, bindFrame, graphVars,
           scanVars, Binding, NeedsModule
  <1>2. PICK d : d = app.blueprint[bound + 1]
    OBVIOUS
  <1>3. \/ callbacks' = callbacks
        \/ \E h, f : /\ callbacks' = Append(callbacks, [def |-> bound + 1, handler |-> h, fn |-> f])
                     /\ \/ d.kind = "guard"
                        \/ h = GetHandler(d.kind, d.method, LookupKey(d))
                        \/ GetHandler(d.kind, d.method, LookupKey(d)) = 0
    BY <1>2 DEF Bind, BindGuard, BindByKey, BindById, BindByModule, BindNone, Give, NeedsModule,
                ByKey, Def
  <1>4. CASE callbacks' = callbacks
    BY <1>1, <1>4, ServesFrame
  <1>5. CASE \E h, f : /\ callbacks' = Append(callbacks, [def |-> bound + 1, handler |-> h, fn |-> f])
                       /\ \/ d.kind = "guard"
                          \/ h = GetHandler(d.kind, d.method, LookupKey(d))
                          \/ GetHandler(d.kind, d.method, LookupKey(d)) = 0
    <2>1. PICK h, f : /\ callbacks' = Append(callbacks, [def |-> bound + 1, handler |-> h, fn |-> f])
                      /\ \/ d.kind = "guard"
                         \/ h = GetHandler(d.kind, d.method, LookupKey(d))
                         \/ GetHandler(d.kind, d.method, LookupKey(d)) = 0
      BY <1>5
    <2>2. PICK r : r = [def |-> bound + 1, handler |-> h, fn |-> f]
      OBVIOUS
    <2>3. r.def = bound + 1 /\ r.handler = h /\ callbacks' = Append(callbacks, r)
      BY <2>1, <2>2
    <2>4. PICK S : callbacks \in Seq(S)
      BY DEF BindInv
    <2>5. PICK T : T = S \cup {r}
      OBVIOUS
    <2>6. callbacks \in Seq(T) /\ r \in T
      BY <2>4, <2>5
    <2>7. /\ Len(callbacks') = Len(callbacks) + 1 /\ Len(callbacks) \in Nat
          /\ \A k \in 1..Len(callbacks) : callbacks'[k] = callbacks[k]
          /\ callbacks'[Len(callbacks) + 1] = r
      BY <2>3, <2>6
    <2>8. \A k \in 1..Len(callbacks') : k \in 1..Len(callbacks) \/ k = Len(callbacks) + 1
      BY <2>7
    <2>9. bound + 1 \in 1..Len(app.blueprint)
      <3>1. Len(app.blueprint) \in Nat /\ bound \in Nat
        BY DEF HandlersDeclared, ScanInv, ScanTypeOK, BindInv
      <3> QED BY <1>1, <3>1
    <2>10. ASSUME NEW k \in 1..Len(callbacks')
           PROVE  callbacks'[k].def \in 1..Len(app'.blueprint)
      <3>1. CASE k \in 1..Len(callbacks)
        BY <1>1, <2>7, <3>1 DEF ServesInv
      <3>2. CASE k = Len(callbacks) + 1
        BY <1>1, <2>3, <2>7, <2>9, <3>2
      <3> QED BY <2>8, <3>1, <3>2
    <2>11. ASSUME NEW k \in 1..Len(callbacks'), NEW e, e = app'.blueprint[callbacks'[k].def],
                  e.kind = "http", NEW i \in 1..Len(handlers'), Matches(handlers'[i], e)
           PROVE  /\ callbacks'[k].handler \in 1..i
                  /\ Matches(handlers'[callbacks'[k].handler], e)
      <3>1. handlers' = handlers /\ app' = app
        BY <1>1
      <3>2. CASE k \in 1..Len(callbacks)
        <4>1. callbacks'[k] = callbacks[k]
          BY <2>7, <3>2
        <4>2. e = app.blueprint[callbacks[k].def]
          BY <2>11, <3>1, <4>1
        <4>3. callbacks[k].handler \in 1..i /\ Matches(handlers[callbacks[k].handler], e)
          BY <2>11, <3>1, <3>2, <4>2 DEF ServesInv, FirstServes
        <4> QED BY <3>1, <4>1, <4>3
      <3>3. CASE k = Len(callbacks) + 1
        <4>1. callbacks'[k] = r
          BY <2>7, <3>3
        <4>2. e = d
          BY <1>2, <2>3, <2>11, <3>1, <4>1
        <4>3. i \in 1..Len(handlers) /\ Matches(handlers[i], d) /\ d.kind = "http"
          BY <2>11, <3>1, <4>2
        <4>4. PICK g : g = GetHandler(d.kind, d.method, LookupKey(d))
          OBVIOUS
        <4>5. g \in 1..i /\ Matches(handlers[g], d)
          BY <4>3, <4>4, GetsFirst DEF ScanInv
        <4>6. i \in Nat
          BY <4>3
        <4>7. g # 0
          BY <4>5, <4>6
        <4>8. h = g
          BY <2>1, <4>3, <4>4, <4>7
        <4> QED BY <2>3, <3>1, <4>1, <4>2, <4>5, <4>8
      <3> QED BY <2>8, <3>2, <3>3
    <2>12. FirstServes'
      BY <2>11 DEF FirstServes, Matches, MatchRoute
    <2>13. phase' = "bind"
      BY <1>1
    <2> QED BY <2>10, <2>12, <2>13 DEF ServesInv
  <1> QED BY <1>3, <1>4, <1>5

LEMMA ServesStep ==
  ASSUME HandlersDeclared, IInv, ScanInv, BindInv, ServesInv, [Next]_vars
  PROVE  ServesInv'
  <1>0. GraphTypeOK /\ PhaseInv
    BY DEF IInv
  <1>1. CASE Bootstrap
    <2>1. UNCHANGED <<app, callbacks>> /\ phase \notin {"bind", "running"}
      BY <1>0, <1>1, GraphSteps DEF Bootstrap, bindVars
    <2> QED BY <2>1, ServesFrame DEF ServesInv
  <1>2. CASE Scan
    <2>1. UNCHANGED <<app, callbacks>> /\ phase \in {"valid", "scan"}
      BY <1>2 DEF Scan, StartScan, ScanController, ScanFunctions, ScanGuards, Scanning, NextNode,
                  scanned, bindVars
    <2> QED BY <2>1, ServesFrame DEF ServesInv
  <1>3. CASE Bind
    BY <1>3, ServesBind
  <1>4. CASE Run
    <2>1. UNCHANGED <<app, callbacks, handlers>> /\ phase' = "running"
      BY <1>4 DEF Run, bindVars, scanVars
    <2> QED BY <2>1, ServesFrame
  <1>5. CASE UNCHANGED vars
    <2>1. UNCHANGED <<app, handlers, phase, callbacks>>
      BY <1>5 DEF vars, graphVars, scanVars, bindVars
    <2>2. callbacks = <<>> \/ phase' \in {"bind", "running"}
      BY <2>1 DEF ServesInv
    <2> QED BY <2>1, <2>2, ServesFrame
  <1> QED BY <1>1, <1>2, <1>3, <1>4, <1>5 DEF Next

LEMMA ServesInit == RuntimeInit => ServesInv
  <1> SUFFICES ASSUME RuntimeInit PROVE ServesInv
    OBVIOUS
  <1>1. callbacks = <<>>
    BY DEF RuntimeInit
  <1>2. Len(callbacks) = 0
    BY <1>1
  <1>3. \A k : k \notin 1..Len(callbacks)
    BY <1>2
  <1> QED BY <1>1, <1>3 DEF ServesInv, FirstServes

(* The first handler that matches a route has the route itself as its      *)
(* pattern, if one with that pattern is there and nothing shadows it.      *)
LEMMA ServesMeans ==
  ASSUME HandlersDeclared, ScanTypeOK, BindInv, ServesInv, Unshadowed
  PROVE  RouteGetsItsHandler
  <1>1. handlers \in Seq(Entry) /\ app.blueprint \in Seq(Wanted)
    BY DEF HandlersDeclared, ScanTypeOK
  <1>2. PICK S : callbacks \in Seq(S)
    BY DEF BindInv
  <1> SUFFICES ASSUME NEW b \in RangeOf(callbacks), NEW d, d = app.blueprint[b.def], d.kind = "http",
                      NEW h \in RangeOf(handlers),
                      h.kind = "http", h.method = d.method, h.path = d.path
               PROVE  b.handler # 0 /\ handlers[b.handler].path = d.path
    BY DEF RouteGetsItsHandler
  <1>3. PICK k \in 1..Len(callbacks) : callbacks[k] = b
    BY <1>2, InRange
  <1>4. PICK j \in 1..Len(handlers) : handlers[j] = h
    BY <1>1, InRange
  <1>5. b.def \in 1..Len(app.blueprint)
    BY <1>3 DEF ServesInv
  <1>6. d.path \in Seq(STRING)
    <2>1. d \in Wanted
      BY <1>1, <1>5
    <2> QED BY <2>1 DEF Wanted
  <1>7. Matches(handlers[j], d)
    BY <1>4, <1>6, MatchesItself DEF Matches
  <1>8. b.handler \in 1..j /\ Matches(handlers[b.handler], d)
    BY <1>3, <1>7 DEF ServesInv, FirstServes
  <1>9. PICK i : i = b.handler
    OBVIOUS
  <1>10. j \in Nat /\ j <= Len(handlers) /\ Len(handlers) \in Nat
    BY <1>1
  <1>11. i \in 1..Len(handlers) /\ i # 0 /\ (i < j \/ i = j)
    BY <1>8, <1>9, <1>10
  <1>12. CASE i < j
    BY <1>4, <1>5, <1>8, <1>9, <1>11, <1>12 DEF Unshadowed
  <1>13. CASE i = j
    BY <1>4, <1>9, <1>11, <1>13
  <1> QED BY <1>9, <1>11, <1>12, <1>13

(* An HTTP route of the blueprint runs the first handler registered whose  *)
(* pattern matches it, never a later one.                                  *)
THEOREM FirstMatchServes ==
  ASSUME HandlersDeclared
  PROVE  Spec => []FirstServes
  <1>1. RuntimeInit => ScanInv /\ BindInv /\ ServesInv
    BY ScanInit, BindInit, ServesInit
  <1>2. IInv /\ WalkExact /\ ScanInv /\ BindInv /\ ServesInv /\ [Next]_vars
          => ScanInv' /\ BindInv' /\ ServesInv'
    BY ScanStep, BindStep, ServesStep
  <1>3. ServesInv => FirstServes
    BY DEF ServesInv
  <1> QED BY <1>1, <1>2, <1>3, InitIInv, IInvStep, WalkExactCorrect, PTL DEF Spec

(* Shadowing is the only way to lose a route: one that a handler was       *)
(* declared with runs a handler of that pattern, unless a handler          *)
(* registered earlier has another pattern that matches it.                 *)
THEOREM RoutesReached ==
  ASSUME HandlersDeclared
  PROVE  Spec => [](Unshadowed => RouteGetsItsHandler)
  <1>1. RuntimeInit => ScanInv /\ BindInv /\ ServesInv
    BY ScanInit, BindInit, ServesInit
  <1>2. IInv /\ WalkExact /\ ScanInv /\ BindInv /\ ServesInv /\ [Next]_vars
          => ScanInv' /\ BindInv' /\ ServesInv'
    BY ScanStep, BindStep, ServesStep
  <1>3. ScanInv /\ BindInv /\ ServesInv => (Unshadowed => RouteGetsItsHandler)
    BY ServesMeans DEF ScanInv
  <1> QED BY <1>1, <1>2, <1>3, InitIInv, IInvStep, WalkExactCorrect, PTL DEF Spec
=============================================================================
