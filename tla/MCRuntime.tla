------------------------------ MODULE MCRuntime ------------------------------
(***************************************************************************)
(* Applications of three modules for TLC.                                  *)
(***************************************************************************)
EXTENDS Runtime, TLC

Modules == {"Root", "A", "B"}
Classes == {"C", "D", "E", "F", "K", "L", "G"}
Tokens == Classes \cup {"t", "cfg", "sender"}
Deps == [c \in Classes |-> CASE c = "C" -> <<"t">>
                             [] c = "D" -> <<"C", "cfg">>
                             [] c = "E" -> <<"F">>
                             [] c = "F" -> <<"E">>
                             [] c = "K" -> <<"D", "E">>
                             [] c = "G" -> <<"C">>
                             [] c = "L" -> <<>>]

None(S) == [m \in Modules |-> S]
Plain(t) == [provide |-> t, useClass |-> "none", inject |-> <<>>]
Given(t, inject) == [provide |-> t, useClass |-> "none", inject |-> inject]
Class(c) == [provide |-> c, useClass |-> c, inject |-> <<>>]
Empty == [imports |-> None(<<>>), providers |-> None(<<>>), controllers |-> None(<<>>),
          guards |-> None(<<>>), exports |-> None({}), functions |-> None(<<>>),
          blueprint |-> <<>>]

\* Every import graph with at most two imports a module; all provide one token.
Lists == {<<>>} \cup {<<m>> : m \in Modules}
         \cup {l \in Modules \X Modules : l[1] # l[2]}
ImportApps ==
  {[Empty EXCEPT !.imports = i, !.providers = None(<<Plain("t")>>)] : i \in [Modules -> Lists]}

\* One import graph; who provides and exports the token t and the class C, and
\* whether A provides D, vary.  K, E, F and G are nobody's providers.
Chain == [m \in Modules |-> CASE m = "Root" -> <<"A", "B">> [] m = "A" -> <<"B">> [] OTHER -> <<>>]
Owns(m, tOwner, cOwner, dOwner) ==
  (IF m = tOwner THEN <<Given("t", <<"cfg">>)>> ELSE <<>>)
  \o (IF m = cOwner THEN <<Class("C")>> ELSE <<>>)
  \o (IF m = dOwner THEN <<Class("D")>> ELSE <<>>)
BoundaryApps ==
  {[Empty EXCEPT !.imports = Chain,
                 !.providers = [m \in Modules |-> Owns(m, tOwner, cOwner, dOwner)],
                 !.controllers = [m \in Modules |-> IF m = "Root" THEN <<"K">> ELSE <<>>],
                 !.guards = [m \in Modules |-> IF m = guarded THEN <<"G">> ELSE <<>>],
                 !.exports = [m \in Modules |-> CASE m = "A" -> a [] m = "B" -> b [] OTHER -> {}]] :
     tOwner \in {"A", "B", "none"}, cOwner \in {"A", "B", "none"}, dOwner \in {"A", "none"},
     guarded \in {"B", "none"}, a \in SUBSET {"t", "C"}, b \in SUBSET {"t", "C"}}

\* Handlers of every kind, as methods of K and L and as functions, declared in
\* the root or in an imported module, and blueprints that name them.
Http(path) == [kind |-> "http", method |-> "GET", path |-> path]
Tagged(kind, tag) == [kind |-> kind, method |-> "none", path |-> tag]
Called(kind, name) == Tagged(kind, <<name>>)
With(r, fn) == [kind |-> r.kind, method |-> r.method, path |-> r.path, name |-> fn, fn |-> fn]
From(kind, source, name, fn) ==
  [kind |-> kind, method |-> "none", path |-> source, name |-> name, fn |-> fn]
Ided(r, id, fn) == [kind |-> r.kind, method |-> r.method, path |-> r.path, id |-> id, fn |-> fn]
Wanted(r, id) == [kind |-> r.kind, method |-> r.method, path |-> r.path, id |-> id]

ClassMethods ==
  [c \in Classes |->
     CASE c = "K" -> <<With(Http(<<"items", "*">>), "getItem"), With(Http(<<"items", "new">>), "newItem"),
                       From("schedule", <<"nightly">>, "tidy", "tidy"), From("schedule", <<>>, "sweep", "sweep")>>
       [] c = "L" -> <<From("consumer", <<"orders">>, "consume", "consume"),
                       From("schedule", <<"weekly">>, "tidy", "tidyWeekly"),
                       With(Called("websocket", "chat"), "onChat"),
                       With(Called("custom", "admin"), "admin"), With(Http(<<"lost">>), "lost")>>
       [] OTHER -> <<>>]
Decorated == [c \in Classes |-> CASE c = "K" -> {"http"} [] c = "L" -> {"consumer", "websocket"}
                                  [] OTHER -> {}]
Names == [g \in Classes \cup {"isAdmin"} |-> CASE g = "G" -> "jwt" [] g = "isAdmin" -> "admin"
                                               [] OTHER -> "none"]
NoRoute(kind) == Tagged(kind, <<"default">>)
Functions == <<Ided(Http(<<"files", "+">>), "none", "files"), Ided(NoRoute("http"), "app.hello", "hello"),
               Ided(Called("custom", "job"), "app.job", "job"),
               Ided(NoRoute("http"), "app.twice", "one"),
               Ided(Tagged("consumer", <<>>), "app.twice", "two"),
               Ided(Tagged("schedule", <<"nightly", "tidy">>), "none", "report"),
               Ided(Tagged("consumer", <<>>), "app.orders", "drain"),
               Ided(Tagged("consumer", <<>>), "none", "any")>>
JobExport == [kind |-> "custom", fn |-> "job"]
Importable == [id \in {"app.plain", "app.other", "app.again"} |->
              CASE id = "app.plain" -> <<[kind |-> "plain", fn |-> "plain"]>>
                [] id = "app.other" -> <<JobExport>>
                [] id = "app.again" -> <<[kind |-> "consumer", fn |-> "x"], JobExport>>]
Segments == ("app.L.consume" :> "consume") @@ ("app.orders" :> "orders") @@ ("app.K.tidy" :> "tidy")
            @@ ("app.L.tidy" :> "tidy") @@ ("app.K.sweep" :> "sweep")
Blueprint ==
  <<Wanted(Http(<<"items", "*">>), "none"), Wanted(Http(<<"items", "new">>), "none"),
    Wanted(Http(<<"files", "+">>), "none"), Wanted(Http(<<"hello">>), "app.hello"),
    Wanted(Http(<<"twice">>), "app.twice"), Wanted(Http(<<"none">>), "none"),
    Wanted(Http(<<"lost">>), "app.other"), Wanted(Http(<<"plain">>), "app.plain"),
    Wanted(NoRoute("guard"), "jwt"), Wanted(NoRoute("guard"), "admin"), Wanted(NoRoute("guard"), "absent"),
    Wanted(Called("websocket", "chat"), "none"), Wanted(Called("consumer", "orders"), "app.L.consume"),
    Wanted(Called("consumer", "events"), "app.orders"), Wanted(Called("schedule", "nightly"), "app.K.tidy"),
    Wanted(Called("schedule", "weekly"), "app.L.tidy"), Wanted(Called("schedule", "hourly"), "app.K.sweep"),
    Wanted(Called("custom", "admin"), "none"), Wanted(Called("custom", "other"), "app.job"),
    Wanted(Called("custom", "third"), "app.again"), Wanted(Called("custom", "fourth"), "app.none")>>

Shuffle == {<<"K", "L">>, <<"L", "K">>}
HandlerApps ==
  {[Empty EXCEPT !.imports = Chain,
                 !.providers = [m \in Modules |-> IF m = p THEN <<Given("t", <<>>), Class("L")>> ELSE <<>>],
                 !.exports = [m \in Modules |-> IF m = p THEN {"t"} ELSE {}],
                 !.controllers = [m \in Modules |-> IF m \in w THEN c ELSE <<>>],
                 !.guards = [m \in Modules |-> IF m = g THEN <<"isAdmin", "G">> ELSE <<>>],
                 !.functions = [m \in Modules |-> IF m = f THEN Functions ELSE <<>>],
                 !.blueprint = Blueprint] :
     p \in Modules, w \in {{"Root"}, {"A", "B"}, {}}, c \in Shuffle, g \in {"Root", "B"}, f \in Modules}

Apps == ImportApps \cup BoundaryApps \cup HandlerApps
=============================================================================
