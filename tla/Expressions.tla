----------------------------- MODULE Expressions -----------------------------
(***************************************************************************)
(* The conditions of a query, a scan or a conditional write, and the       *)
(* expressions that buildKeyConditionExpression and buildFilterExpression  *)
(* of datastore/src/providers/dynamodb/expressions.ts make of them.  An    *)
(* expression is a sequence of tokens: parentheses, AND, OR, and a test    *)
(* with its placeholder <<prefix, counter>>.  Expressions are TLC's        *)
(* business alone: nothing is proved about them.                           *)
(***************************************************************************)
EXTENDS Naturals, SequencesExt, FiniteSetsExt, TLC

\* The values of a condition are a tuple: one, the two bounds of a range, or none.
Condition(name, operator, value) ==
    [kind |-> "condition", name |-> name, operator |-> operator, value |-> value]
AllOf(conditions) == [kind |-> "and", of |-> conditions]
AnyOf(conditions) == [kind |-> "or", of |-> conditions]

Token(what) == [what |-> what, slot |-> <<>>]
Test(cond, slot) == [what |-> cond.operator, slot |-> slot]
Nothing == [text |-> <<>>, names |-> <<>>, values |-> <<>>, counter |-> 0]

-----------------------------------------------------------------------------
(* Building.  `so` carries the names, values and counter built so far, as  *)
(* the code's shared objects do.  startsWith and contains are built as the *)
(* comparisons are and stand for no test of their own.                     *)

BuildSingleCondition(cond, so) ==
    LET slot == <<"f", so.counter>>
    IN  [text |-> <<Test(cond, slot)>>, names |-> so.names @@ (slot :> cond.name),
         values |-> so.values @@ (slot :> cond.value), counter |-> so.counter + 1]

Join(parts, operator) ==
    FoldLeft(LAMBDA text, part : IF text = <<>> THEN part
                                 ELSE text \o <<Token(operator)>> \o part, <<>>, parts)

RECURSIVE BuildExpressionNode(_, _, _)
BuildGroup(children, operator, so, depth) ==
    LET built == FoldLeft(
            LAMBDA done, child :
                LET node == BuildExpressionNode(child, done.so, depth + 1)
                IN  [so |-> node, parts |-> Append(done.parts, node.text)],
            [so |-> so, parts |-> <<>>], children)
        text == Join(built.parts, operator)
    IN  [built.so EXCEPT !.text =
            IF Len(built.parts) # 1 /\ depth > 0 THEN <<Token("(")>> \o text \o <<Token(")")>>
            ELSE text]
BuildExpressionNode(expr, so, depth) ==
    IF expr.kind = "condition" THEN BuildSingleCondition(expr, so)
    ELSE BuildGroup(expr.of, IF expr.kind = "or" THEN "OR" ELSE "AND", so, depth)

\* A filter is optional: <<>> or <<expression>>.
BuildFilterExpression(filter) ==
    IF filter = <<>> THEN Nothing ELSE BuildExpressionNode(filter[1], Nothing, 0)

\* The key's equality and, if there is one, the range condition.
BuildKeyConditionExpression(key, range) ==
    LET conds == <<key>> \o range
    IN  [text |-> Join([i \in DOMAIN conds |-> <<Test(conds[i], <<"k", i - 1>>)>>], "AND"),
         names |-> [s \in {<<"k", i - 1>> : i \in DOMAIN conds} |-> conds[s[2] + 1].name],
         values |-> [s \in {<<"k", i - 1>> : i \in DOMAIN conds} |-> conds[s[2] + 1].value],
         counter |-> Len(conds)]

-----------------------------------------------------------------------------
(* What a condition says of an item (a function from its attributes), and  *)
(* what DynamoDB makes of an expression: AND binds closer than OR.         *)

Holds(operator, name, value, item) ==
    IF name \notin DOMAIN item THEN operator = "ne"
    ELSE CASE operator = "eq" -> item[name] = value[1]
           [] operator = "ne" -> item[name] # value[1]
           [] operator = "lt" -> item[name] < value[1]
           [] operator = "le" -> item[name] <= value[1]
           [] operator = "gt" -> item[name] > value[1]
           [] operator = "ge" -> item[name] >= value[1]
           [] operator = "between" -> value[1] <= item[name] /\ item[name] <= value[2]
           [] operator = "exists" -> TRUE

RECURSIVE Meaning(_, _)
Meaning(expr, item) ==
    CASE expr.kind = "condition" -> Holds(expr.operator, expr.name, expr.value, item)
      [] expr.kind = "and" -> \A i \in DOMAIN expr.of : Meaning(expr.of[i], item)
      [] expr.kind = "or" -> \E i \in DOMAIN expr.of : Meaning(expr.of[i], item)

Level(text, i) ==
    Cardinality({j \in 1 .. i : text[j].what = "("}) - Cardinality({j \in 1 .. i : text[j].what = ")"})
Splits(text, operator) == {i \in DOMAIN text : text[i].what = operator /\ Level(text, i) = 0}

\* An operand is missing: DynamoDB refuses the request.
Refused(text) ==
    \/ text = <<>>
    \/ \E i \in DOMAIN text :
          /\ text[i].what \in {"AND", "OR", "("}
          /\ i = Len(text) \/ text[i + 1].what \in {"AND", "OR", ")"}

RECURSIVE Evaluate(_, _, _, _)
Evaluate(text, names, values, item) ==
    LET ors == Splits(text, "OR")
        ands == Splits(text, "AND")
        left(i) == Evaluate(SubSeq(text, 1, i - 1), names, values, item)
        right(i) == Evaluate(SubSeq(text, i + 1, Len(text)), names, values, item)
    IN  IF ors # {} THEN left(Min(ors)) \/ right(Min(ors))
        ELSE IF ands # {} THEN left(Min(ands)) /\ right(Min(ands))
        ELSE IF text[1].what = "(" THEN Evaluate(SubSeq(text, 2, Len(text) - 1), names, values, item)
        ELSE Holds(text[1].what, names[text[1].slot], values[text[1].slot], item)

-----------------------------------------------------------------------------
(* The command of a query or a scan, and what the store makes of it: which *)
(* items it reads, which of them it answers, and whether it refuses.       *)

Key(options) == BuildKeyConditionExpression(options.key[1], options.range)
Filter(options) == BuildFilterExpression(options.filter)

\* The command carries one map of names and one of values for both expressions.
Names(options) ==
    IF options.mode = "query" THEN Filter(options).names @@ Key(options).names
    ELSE Filter(options).names
Values(options) ==
    IF options.mode = "query" THEN Filter(options).values @@ Key(options).values
    ELSE Filter(options).values

InIndex(options, item) ==
    options.mode = "query" => Evaluate(Key(options).text, Names(options), Values(options), item)
Passes(options, item) ==
    options.filter # <<>> => Evaluate(Filter(options).text, Names(options), Values(options), item)
Rejected(options) == options.filter # <<>> /\ Refused(Filter(options).text)

\* What the caller asked for.
Wanted(options, item) ==
    /\ options.mode = "query" =>
          \A c \in {options.key[1]} \cup ToSet(options.range) : Meaning(c, item)
    /\ options.filter # <<>> => Meaning(options.filter[1], item)
=============================================================================
