----------------------------- MODULE MacroTypes -----------------------------
(***************************************************************************)
(* The types of a macro (app/agents/qa/macro/parser.py, grammar.py)        *)
(* against the values that its runs meet (binding.py, runner.py).  Declared *)
(* types tell `int` from `float`; a value that the game sends has only a    *)
(* shape, a number.  Of some readers the parser knows the shape, of others  *)
(* the game decides it, and what is checked of those is checked when the    *)
(* value is there.                                                          *)
(*                                                                         *)
(* A text is [main, helper], two `def`s [returns, params, body]; params     *)
(* are names with their types.  An expression is [k, on, val, of]: a        *)
(* "lit" has its value, a "name" and a "reader" the name it goes `on`, and  *)
(* `of` are the expressions in it: the target of a reader, the argument of  *)
(* a "call" of the helper, the sides of a "compare" and of arithmetic.  A   *)
(* statement is [op, on, type, of].  Bodies have no branches here:          *)
(* MacroText has those, and the blocks of the names.                        *)
(***************************************************************************)
EXTENDS Integers, Sequences, FiniteSets, SequencesExt

CONSTANT TypedTexts   \* bound: the texts that are read, in families

VARIABLES
    typed,        \* the text under the parser
    complaints    \* why it is refused: {"types", "fraction", "form"}; or {"unread"}

typeVars == <<typed, complaints>>

Types == {"int", "float", "string", "bool", "object"}   \* DECLARABLE_TYPES
Numbers == {"int", "float"}                             \* NUMBER_RETURNS
ShapeOf == [t \in Types |-> IF t \in Numbers THEN "number" ELSE t]

Shapes == {"number", "string", "bool", "object", "vector", "other"}

\* COMPARISON_TABLE: what may be compared for equality, what for order; arithmetic
\* is for numbers only (ARITHMETIC_TABLE).
Comparable(op) == IF op = "==" THEN {"number", "string", "bool", "object"} ELSE {"number"}

\* READERS: the shape of a reader, "unknown" when the game decides it.
ReaderShape ==
    [scene |-> "string", text |-> "string", exists |-> "bool", actionable |-> "bool",
     static |-> "unknown", member |-> "unknown"]
Aimed == {"text", "exists", "actionable", "member"}

\* The names of a scope and one more.
Knowing(names, n, v) == [m \in DOMAIN names \cup {n} |-> IF m = n THEN v ELSE names[m]]

Computing == {"+", "/", "min"}

-----------------------------------------------------------------------------
(* The parser.                                                             *)

Complain(why, holds) == IF holds THEN {why} ELSE {}

\* _reject_type_mismatch: an `int` goes into a `float`, not the other way round.
LiteralMismatch(type, val) ==
    Complain("types", ShapeOf[type] # val.shape)
        \cup Complain("fraction", type = "int" /\ val.num = "part")

\* mutant: numbers are numbers
NameMismatch_Numbers(wanted, given) == Complain("types", ShapeOf[wanted] # ShapeOf[given])

\* _reject_name_mismatch
NameMismatch(wanted, given) ==
    Complain("types", ShapeOf[wanted] # ShapeOf[given])
        \cup Complain("fraction", wanted = "int" /\ given = "float")

\* _target: a target is a name declared `object`, or a selector.
TargetMismatch(types, e) ==
    IF e.k = "selector" THEN {}
    ELSE IF e.k = "name" THEN Complain("types", types[e.on] # "object") ELSE {"form"}

\* _argument: a literal or a name, never something computed.
ArgumentMismatch(types, wanted, e) ==
    IF e.k = "lit" THEN LiteralMismatch(wanted, e.val)
    ELSE IF wanted = "object" THEN TargetMismatch(types, e)
    ELSE IF e.k = "name" THEN NameMismatch(wanted, types[e.on])
    ELSE {"form"}

Judgement(why, shape, frac) == [why |-> why, shape |-> shape, frac |-> frac]

ParamType(def) == def.params["p"]

\* _arithmetic, _extremum, _arithmetic_side, _may_have_fraction: only a def that
\* returns a number computes.
Arithmetic(def, e, l, r) ==
    Judgement(Complain("form", \/ def.returns \notin Numbers
                               \/ {e.of[1].k, e.of[2].k} \cap {"selector", "find", "compare"} # {})
                \cup Complain("types", {l.shape, r.shape} \ {"number", "unknown"} # {})
                \cup l.why \cup r.why,
              "number", e.k = "/" \/ l.frac \/ r.frac)

\* _operand, _reader, _number_call: what is wrong with an expression, its shape, and
\* whether it may have a fraction.
RECURSIVE Operand(_, _, _, _)
Operand(t, def, types, e) ==
    CASE e.k = "lit" -> Judgement({}, e.val.shape, e.val.num = "part")
      [] e.k = "name" -> Judgement({}, ShapeOf[types[e.on]], types[e.on] = "float")
      [] e.k = "selector" -> Judgement({}, "object", FALSE)
      [] e.k = "reader" ->
           Judgement(IF e.on \in Aimed THEN TargetMismatch(types, e.of[1]) ELSE {},
                     ReaderShape[e.on], FALSE)
      [] e.k = "call" ->
           Judgement(Complain("form", t.helper.returns \notin Numbers)
                       \cup ArgumentMismatch(types, ParamType(t.helper), e.of[1]),
                     "number", t.helper.returns = "float")
      [] e.k \in Computing ->
           Arithmetic(def, e, Operand(t, def, types, e.of[1]), Operand(t, def, types, e.of[2]))
      [] OTHER -> Judgement({"form"}, "unknown", FALSE)

\* _number_value
NumberMismatch(t, def, types, declared, e) ==
    LET o == Operand(t, def, types, e) IN
    o.why \cup Complain("form", e.k \in {"selector", "find", "compare"})
          \cup Complain("types", o.shape \notin {"number", "unknown"})
          \cup Complain("fraction", declared = "int" /\ o.frac)

\* _comparison, _reject_comparison: two shapes that are known must be one; a selector
\* stands against an object only.
ComparisonMismatch(e, l, r) ==
    LET known == {l.shape, r.shape} \ {"unknown"} IN
    l.why \cup r.why
      \cup Complain("types", Cardinality(known) = 2 \/ ~(known \subseteq Comparable(e.on)))
      \cup Complain("form", \/ (e.of[1].k = "selector" /\ r.shape = "unknown")
                            \/ (e.of[2].k = "selector" /\ l.shape = "unknown"))

\* _condition: a comparison, a reader that is a bool, or a predicate.
ConditionMismatch(t, def, types, e) ==
    CASE e.k = "compare" ->
           ComparisonMismatch(e, Operand(t, def, types, e.of[1]), Operand(t, def, types, e.of[2]))
      [] e.k = "reader" ->
           LET o == Operand(t, def, types, e) IN
           o.why \cup Complain("types", o.shape \notin {"bool", "unknown"})
      [] e.k = "call" ->
           Complain("form", t.helper.returns # "bool")
             \cup ArgumentMismatch(types, ParamType(t.helper), e.of[1])
      [] OTHER -> {"form"}

\* _assigned_value, _compute_value, _read_value, _require_object
AssignedMismatch(t, def, types, declared, e) ==
    CASE e.k = "lit" -> LiteralMismatch(declared, e.val)
      [] e.k \in {"find", "selector"} -> Complain("types", declared # "object")
      [] e.k = "reader" ->
           Operand(t, def, types, e).why
             \cup Complain("types", \/ declared = "object"
                                    \/ ReaderShape[e.on] \notin {"unknown", ShapeOf[declared]})
      [] def.returns \in Numbers /\ (e.k \in Computing \/ (e.k = "call" /\ t.helper.returns \in Numbers)) ->
           Complain("types", declared \notin Numbers) \cup NumberMismatch(t, def, types, declared, e)
      [] OTHER -> {"form"}

\* _return, _number_return
ReturnMismatch(t, def, types, e) ==
    IF def.returns \in Numbers THEN NumberMismatch(t, def, types, def.returns, e)
    ELSE IF e.k = "lit" THEN Complain("form", e.val.shape # "bool")
    ELSE ConditionMismatch(t, def, types, e)

\* _range
RangeMismatch(types, e) == Complain("form", types[e.on] # "int")

StatementMismatch(t, def, types, st) ==
    CASE st.op = "bind" -> AssignedMismatch(t, def, types, st.type, st.of)
      [] st.op = "test" -> ConditionMismatch(t, def, types, st.of)
      [] st.op = "return" -> ReturnMismatch(t, def, types, st.of)
      [] st.op = "aim" -> TargetMismatch(types, st.of)
      [] st.op = "range" -> RangeMismatch(types, st.of)

DefMismatch(t, def) ==
    LET Read(r, st) ==
            [why |-> r.why \cup StatementMismatch(t, def, r.types, st),
             types |-> IF st.op = "bind" THEN Knowing(r.types, st.on, st.type) ELSE r.types]
    IN  FoldLeft(Read, [why |-> {}, types |-> def.params], def.body).why

TypesInit == (\E texts \in TypedTexts : typed \in texts) /\ complaints = {"unread"}

ReadTypes ==
    /\ complaints = {"unread"}
    /\ complaints' = DefMismatch(typed, typed.main) \cup DefMismatch(typed, typed.helper)
    /\ UNCHANGED typed

-----------------------------------------------------------------------------
(* The runs.  A value is [code |-> "ok", shape, num, game]: num is zero,   *)
(* whole or part of a number, game whether the game decided what it is.    *)
(* A failure has its code; game is then whether the game is to blame.      *)

Value(shape, num, game) == [code |-> "ok", shape |-> shape, num |-> num, game |-> game]
Fails(code, game) == [code |-> code, shape |-> "", num |-> "", game |-> game]
Nums(ns, game) == {Value("number", n, game) : n \in ns}
Plain(shape) == Value(shape, "", FALSE)

\* What a parameter holds on entry (_checked, _aim of macro_tools.py).
Entering(type) ==
    CASE type = "int" -> Nums({"zero", "whole"}, FALSE)
      [] type = "float" -> Nums({"zero", "whole", "part"}, FALSE)
      [] OTHER -> {Plain(type)}

\* resolve_target
Resolved(v) ==
    IF v.shape = "object" THEN {Plain("object"), Fails("missing", TRUE)} ELSE {Fails("aimless", FALSE)}

\* read: the game may have nothing to show; an object may show no text.
FromTheGame ==
    Nums({"zero", "whole", "part"}, TRUE) \cup {Value(s, "", TRUE) : s \in Shapes \ {"number"}}

Arrives(reader) ==
    CASE ReaderShape[reader] = "unknown" -> FromTheGame \cup {Fails("missing", TRUE)}
      [] reader = "text" -> {Plain("string"), Value("other", "", TRUE)}
      [] OTHER -> {Plain(ReaderShape[reader])}

\* _apply, calculate: what the numbers of two kinds may give.
Sums(a, b) ==
    IF a = "zero" THEN {b}
    ELSE IF b = "zero" THEN {a}
    ELSE IF a = b THEN {"zero", "whole", "part"} \ (IF a = "whole" THEN {"part"} ELSE {})
    ELSE {"part"}

Outcome(op, a, b) ==
    CASE op = "+" -> Sums(a, b)
      [] op = "min" -> {a, b}
      [] op = "/" -> IF a = "zero" THEN {"zero"} ELSE {"whole", "part"}

Calculate(op, l, r, blame) ==
    IF {l.shape, r.shape} # {"number"} THEN {Fails("arithmetic", blame)}
    ELSE IF op = "/" /\ r.num = "zero" THEN {Fails("zero", TRUE)}
    ELSE Nums(Outcome(op, l.num, r.num), l.game \/ r.game)

\* compare
Compare(op, l, r, blame) ==
    IF l.shape # r.shape \/ l.shape \notin Comparable(op) THEN {Fails("comparison", blame)}
    ELSE {Plain("bool")}

\* What a name may hold.
Fits(type, v) == v.shape = ShapeOf[type] /\ (type = "int" /\ v.num = "part" => v.game)

\* _assign, read_to_bind: a value that is read must have the shape of the declared
\* type; anything else is taken as it is ("misheld" when it should not have been).
Bound(type, e, v) ==
    IF v.code # "ok" THEN v
    ELSE IF e.k = "reader" /\ type = "object" THEN Fails("crash", FALSE)
    ELSE IF e.k = "reader" /\ v.shape # ShapeOf[type] THEN Fails("comparison", v.game)
    ELSE IF ~Fits(type, v) THEN Fails("misheld", FALSE) ELSE v

RECURSIVE Evaluate(_, _, _), Ran(_, _, _)

\* _helper_arguments, _call
HelperGives(t, e, names) ==
    LET type == ParamType(t.helper)
        given == Evaluate(t, e.of[1], names)
        taken == IF type = "object" THEN UNION {Resolved(v) : v \in given} ELSE given
    IN  UNION {IF v.code # "ok" THEN {v} ELSE Ran(t, t.helper, [p |-> v]) :
                 v \in {Bound(type, e.of[1], v) : v \in taken}}

\* _value, _evaluate, operand_value
Evaluate(t, e, names) ==
    CASE e.k = "lit" -> {e.val}
      [] e.k = "name" -> {names[e.on]}
      [] e.k = "selector" -> {Plain("object")}
      [] e.k = "find" -> {Plain("object"), Fails("missing", TRUE)}
      [] e.k = "reader" ->
           IF e.on \notin Aimed THEN Arrives(e.on)
           ELSE UNION {IF v.code = "ok" \/ (v.code = "missing" /\ e.on = "exists")
                       THEN Arrives(e.on) ELSE {v} :
                         v \in UNION {Resolved(o) : o \in Evaluate(t, e.of[1], names)}}
      [] e.k = "call" -> HelperGives(t, e, names)
      [] OTHER ->
           LET Blame(l, r) == (e.of[1].k = "reader" /\ l.game) \/ (e.of[2].k = "reader" /\ r.game)
               Both(l, r) ==
                   IF l.code # "ok" THEN {l}
                   ELSE IF r.code # "ok" THEN {r}
                   ELSE IF e.k = "compare" THEN Compare(e.on, l, r, Blame(l, r))
                   ELSE Calculate(e.k, l, r, Blame(l, r))
           IN  UNION {Both(l, r) : l \in Evaluate(t, e.of[1], names), r \in Evaluate(t, e.of[2], names)}

\* evaluate, require_number: what a condition, or a def, must come to.
Required(shape, code, e, v) ==
    IF v.code = "ok" /\ v.shape # shape THEN Fails(code, e.k = "reader" /\ v.game) ELSE v

\* _for: int(count)
Counted(v) == IF v.shape = "number" THEN v ELSE Fails("crash", FALSE)

\* _assign, _returned, and the statements that meet a value
Did(t, def, st, names) ==
    CASE st.op = "bind" -> {Bound(st.type, st.of, v) : v \in Evaluate(t, st.of, names)}
      [] st.op = "test" -> {Required("bool", "comparison", st.of, v) : v \in Evaluate(t, st.of, names)}
      [] st.op = "return" ->
           IF def.returns \in Numbers
           THEN {IF v.code = "ok" /\ ~Fits(def.returns, v) THEN Fails("misheld", FALSE) ELSE v :
                   v \in {Required("number", "arithmetic", st.of, w) : w \in Evaluate(t, st.of, names)}}
           ELSE {Required("bool", "comparison", st.of, v) : v \in Evaluate(t, st.of, names)}
      [] st.op = "aim" -> UNION {Resolved(v) : v \in Evaluate(t, st.of, names)}
      [] st.op = "range" -> {Counted(v) : v \in Evaluate(t, st.of, names)}

\* What a `def` comes to, from the values of its names: the value that it returns.
Ran(t, def, names) ==
    LET Step(runs, st) ==
            UNION {IF r.out.code # "ok" THEN {r}
                   ELSE {[out |-> v,
                          names |-> IF st.op = "bind" THEN Knowing(r.names, st.on, v) ELSE r.names] : v \in Did(t, def, st, r.names)} : r \in runs}
    IN  {r.out : r \in FoldLeft(Step, {[out |-> Plain("other"), names |-> names]}, def.body)}

Entries(params) ==
    LET Enter(n, all) == {Knowing(names, n, v) : names \in all, v \in Entering(params[n])}
    IN  FoldSet(Enter, {[n \in {} |-> ""]}, DOMAIN params)

ComesTo(t) == UNION {Ran(t, t.main, names) : names \in Entries(t.main.params)}

-----------------------------------------------------------------------------
(* Properties.                                                             *)

\* What goes wrong with a stored text is the game's: something is missing, a divisor
\* is zero, or a value that only the game decides came in another shape, and was
\* caught there and then.  And some run goes through.
StoredTypesHold ==
    complaints = {} =>
        /\ \A v \in ComesTo(typed) :
              \/ v.code \in {"ok", "missing", "zero"}
              \/ v.code \in {"comparison", "arithmetic"} /\ v.game
        /\ \E v \in ComesTo(typed) : v.code = "ok"

\* A text that is refused for a shape could never have run to its end.
ShapesAreRefusedRightly ==
    "types" \in complaints /\ "form" \notin complaints => \A v \in ComesTo(typed) : v.code # "ok"

\* The types that are checked when a macro is stored say what its runs will meet: no
\* name ever holds a value of another shape than was declared for it, none declared
\* `int` a fraction that the macro itself computed, nothing is aimed at that is no
\* object, and a comparison, a condition, a sum or a `return` fails on the shape of a
\* value only where the game decides that shape; and no text is refused for a shape
\* that could have run.
\* (parser.py:710-814, 1020-1180, 1242-1406, 1811-2171, 2457-2535; binding.py:788-1114)
TypesAreReadRight == StoredTypesHold /\ ShapesAreRefusedRightly
=============================================================================
