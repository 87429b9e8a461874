----------------------------- MODULE MCContainer -----------------------------
(***************************************************************************)
(* Wirings of the container small enough for TLC.  Tokens in capitals are  *)
(* classes, the others are strings.                                        *)
(***************************************************************************)
EXTENDS Container

Class(c) == [NoProvider EXCEPT !.kind = "class", !.useClass = c]
Factory(inject) == [NoProvider EXCEPT !.kind = "factory", !.inject = inject]
Closing(p) == [p EXCEPT !.onClose = TRUE]

\* Classes nobody registered (C lacks its @Injectable()), an alias for one of
\* them, and a factory that injects both.  A needs a value that is registered
\* later, if ever; B or the factory may be replaced.
MixedTokens == {"A", "B", "C", "alias", "all", "cfg"}
MixedClasses == {"A", "B", "C"}
MixedDeps ==
  [c \in MixedClasses |-> CASE c = "A" -> <<"B", "cfg">>
                            [] c = "B" -> <<>>
                            [] c = "C" -> <<"B">>]
MixedWiring ==
  [t \in MixedTokens |-> CASE t = "alias" -> Class("A")
                           [] t = "all"   -> Factory(<<"alias", "B">>)
                           [] OTHER       -> NoProvider]
Value == [NoProvider EXCEPT !.kind = "value"]
MixedLate == {<<"B", Value>>, <<"all", Closing(Class("B"))>>}

\* A cycle of classes that are not registered.
LooseTokens == {"X", "Y", "log"}
LooseClasses == {"X", "Y"}
LooseDeps == [c \in LooseClasses |-> IF c = "X" THEN <<"log", "Y">> ELSE <<"log", "X">>]
LooseWiring == [t \in LooseTokens |-> IF t = "log" THEN Factory(<<>>) ELSE NoProvider]

\* A diamond of factories: top injects left and right, both inject base.
DiamondTokens == {"top", "left", "right", "base"}
DiamondWiring ==
  [t \in DiamondTokens |-> CASE t = "top"  -> Factory(<<"left", "right">>)
                             [] t = "base" -> Factory(<<>>)
                             [] OTHER      -> Factory(<<"base">>)]
NoDeps == [c \in {} |-> <<>>]
=============================================================================
