----------------------------- MODULE MCMacroRun -----------------------------
(***************************************************************************)
(* Macros for TLC: the runs of a program (MacroRun), and what the parser   *)
(* says of a text against its runs (MacroText), and of its types            *)
(* (MacroTypes).  Each is explored by itself: in a behaviour one of them    *)
(* moves.                                                                   *)
(***************************************************************************)
EXTENDS MacroRun, MacroText, MacroTypes

VARIABLE part

-----------------------------------------------------------------------------
(* A macro with every kind of statement:                                   *)
(*    1 assign                                                             *)
(*    2 while:  3 if:  4 action  else:  5 action                           *)
(*              6 wait_until                                               *)
(*    7 match:  case: 8 action   case: 9 checkpoint                        *)
(*   10 for:   11 action                                                   *)
(*   12 require                                                            *)

ProgramKind ==
    <<"assign", "while", "if", "action", "action", "wait", "match", "action",
      "checkpoint", "for", "action", "require">>

Part(from, to) == [first |-> from, last |-> to]

ProgramBodies ==
    [n \in 1..12 |->
        CASE n = 2  -> <<Part(3, 6)>>
          [] n = 3  -> <<Part(4, 4), Part(5, 5)>>
          [] n = 7  -> <<Part(8, 8), Part(9, 9)>>
          [] n = 10 -> <<Part(11, 11)>>
          [] OTHER  -> <<>>]

-----------------------------------------------------------------------------
(* The texts: every body up to a size, of a few kinds of statements.       *)

S(op, on, type, bodies) == [op |-> op, on |-> on, type |-> type, bodies |-> bodies]
Leaf(op, on) == S(op, on, "", <<>>)

RECURSIVE Texts(_, _, _)
Split(n, op, leaves, blocks) ==
    UNION {{S(op, "", "", <<a, b>>) : a \in Texts(i, leaves, blocks), b \in Texts(n - i, leaves, blocks)}
             : i \in 1..n}
StatementsOf(n, leaves, blocks) ==
    IF n = 1 THEN leaves
    ELSE (IF "if" \in blocks THEN Split(n - 1, "if", leaves, blocks) ELSE {})
         \cup {S(op, "x", "A", <<a>>) : op \in blocks \cap Looping, a \in Texts(n - 1, leaves, blocks)}
         \cup (IF "match" \in blocks
               THEN {s \in Split(n - 1, "match", leaves, blocks) : s.bodies[2] # <<>>} ELSE {})
Texts(n, leaves, blocks) ==
    IF n = 0 THEN {<<>>}
    ELSE UNION {{<<s>> \o rest : s \in StatementsOf(i, leaves, blocks), rest \in Texts(n - i, leaves, blocks)}
                  : i \in 1..n}
UpTo(n, leaves, blocks) == UNION {Texts(i, leaves, blocks) : i \in 1..n}

Def(returns, body) == [returns |-> returns, params |-> NoNames, body |-> body]
Macro(entry, defs, imports) == [entry |-> entry, defs |-> defs, imports |-> imports]
Alone == [n \in {} |-> {}]

KeyOps == {Leaf("hold", "key"), Leaf("release", "key")}
TimeOps == {Leaf("hold", "time"), Leaf("release", "time")}
Stops == {Leaf("checkpoint", ""), Leaf("wait", "")}
NameOps == {S("bind", "x", t, <<>>) : t \in {"A", "B"}} \cup {S("use", "x", "A", <<>>)}
CallOps == {Leaf("call", "lib"), Leaf("call", "help")}

Holding ==
    {Macro("main", [main |-> Def("none", b)], Alone)
       : b \in UpTo(4, KeyOps \cup {Leaf("checkpoint", "")}, {"if", "while", "match"})
               \cup UpTo(3, KeyOps \cup TimeOps \cup Stops, {"if"})}

Naming ==
    {Macro("main", [main |-> Def("none", b)], Alone) : b \in UpTo(4, NameOps, {"if", "for", "while"})}

\* An imported macro was stored before; its helper has the name of the caller's.
Libs ==
    {m \in {Macro("lib", [lib |-> Def("none", b), help |-> Def("none", h)], Alone)
              : b \in UpTo(2, KeyOps \cup {Leaf("call", "help"), Leaf("checkpoint", "")}, {}),
                h \in Texts(1, KeyOps, {})}
       : Judged(m) = "stored"}

Importing ==
    {Macro("main", [main |-> Def("none", b), help |-> Def("none", h)], [lib |-> l])
       : b \in UpTo(3, KeyOps \cup CallOps, {}),
         h \in Texts(1, KeyOps \cup CallOps \cup {Leaf("call", "main")}, {}), l \in Libs}

\* An import under the name of the caller's helper.
Clashing == {[m EXCEPT !.imports = [help |-> m.imports["lib"]]] :
               m \in {i \in Importing : "lib" \notin Called(i.defs["main"].body) \cup Called(i.defs["help"].body)}}

Asking ==
    {Macro("main", [main |-> Def("none", b), value |-> Def("value", v)], Alone)
       : b \in UpTo(2, {Leaf("ask", "value"), Leaf("call", "value")}, {"if"}),
         v \in UpTo(4, {Leaf("return", ""), S("bind", "x", "A", <<>>)}, {"if"})}

MCSources == Holding \cup Naming \cup Importing \cup Clashing \cup Asking
AnySource == Macro("main", [main |-> Def("none", <<>>)], Alone)

-----------------------------------------------------------------------------
(* The typed texts: every expression of a few leaves, in every place.      *)

E(k, on, val, of) == [k |-> k, on |-> on, val |-> val, of |-> of]
Lit(val) == E("lit", "", val, <<>>)
Name(n) == E("name", n, Plain(""), <<>>)
Reader(r, of) == E("reader", r, Plain(""), <<of>>)
Two(k, on, l, r) == E(k, on, Plain(""), <<l, r>>)
Help(of) == E("call", "help", Plain(""), <<of>>)

Params == [i |-> "int", f |-> "float", s |-> "string", b |-> "bool", o |-> "object"]

Literals == {Lit(Value("number", "whole", FALSE)), Lit(Value("number", "part", FALSE)),
             Lit(Plain("string")), Lit(Plain("bool"))}
Names == {Name(n) : n \in DOMAIN Params}
Readers == {Reader(r, Name("o")) : r \in DOMAIN ReaderShape}
Selector == E("selector", "", Plain(""), <<>>)
Leaves == Literals \cup Names \cup Readers \cup {Selector}
FewLeaves == {Lit(Value("number", "whole", FALSE)), Name("i"), Name("f"), Name("s"),
              Reader("member", Name("o")), Reader("text", Name("o"))}
Of(ops, ls, rs) == {Two(k, "", l, r) : k \in ops, l \in ls, r \in rs}
Compared(ls, rs) == {Two("compare", op, l, r) : op \in {"==", ">"}, l \in ls, r \in rs}

Stm(op, on, type, of) == [op |-> op, on |-> on, type |-> type, of |-> of]
Return(e) == Stm("return", "", "", e)
Written(returns, params, body) == [returns |-> returns, params |-> params, body |-> body]
Idle == Written("bool", [p |-> "int"], <<Return(Lit(Plain("bool")))>>)
ByItself(returns, body) == [main |-> Written(returns, Params, body), helper |-> Idle]

Results ==
    Leaves \cup {Reader("text", n) : n \in Names} \cup Of(Computing, Leaves, Leaves)
      \cup Of({"+", "/"}, Of({"+", "/"}, FewLeaves, FewLeaves), FewLeaves)
      \cup Compared(Leaves, Leaves) \cup Compared(Of({"+"}, FewLeaves, FewLeaves), FewLeaves)

Returning == {{ByItself(returns, <<Return(e)>>) : e \in Results} : returns \in {"int", "float", "bool"}}

Uses(returns) ==
    IF returns = "none"
    THEN {Stm("aim", "", "", Name("x")), Stm("range", "", "", Name("x"))}
           \cup {Stm("test", "", "", e) : e \in Compared({Name("x")}, Leaves) \cup Readers}
    ELSE {Return(e) : e \in {Name("x")} \cup Of({"+", "/"}, {Name("x")}, FewLeaves) \cup Compared({Name("x")}, FewLeaves)}

Sides == Leaves \cup {E("find", "", Plain(""), <<>>)} \cup Of({"+", "/"}, FewLeaves, FewLeaves)

Binding ==
    UNION {{{ByItself(returns, <<Stm("bind", "x", type, e), use>>) : e \in Sides} :
              type \in Types, use \in Uses(returns)} : returns \in {"none", "int", "bool"}}

HelpWith(main, takes, returns) ==
    {[main |-> Written(main, Params, <<Return(c)>>), helper |-> Written(returns, [p |-> takes], <<Return(e)>>)] :
       c \in {Help(a) : a \in Leaves}
               \cup {Two("compare", ">", Help(a), Lit(Value("number", "whole", FALSE))) : a \in Leaves},
       e \in {Name("p"), Two("+", "", Name("p"), Lit(Value("number", "whole", FALSE))),
              Two("compare", "==", Name("p"), Name("p")), Reader("actionable", Name("p"))}}

Helping ==
    {HelpWith(main, takes, returns) :
       main \in {"int", "bool"}, takes \in Types, returns \in {"int", "float", "bool"}}

MCTypedTexts == Returning \cup Binding \cup Helping
AnyTyped == ByItself("bool", <<Return(Lit(Plain("bool")))>>)

-----------------------------------------------------------------------------

MacroInit ==
    /\ part \in {"run", "text", "types"}
    /\ Init
    /\ IF part = "text" THEN TextInit ELSE source = AnySource /\ verdict = "unread"
    /\ IF part = "types" THEN TypesInit ELSE typed = AnyTyped /\ complaints = {"unread"}

MacroNext ==
    /\ UNCHANGED part
    /\ \/ part = "run" /\ Next /\ UNCHANGED <<textVars, typeVars>>
       \/ part = "text" /\ Parse /\ UNCHANGED <<vars, typeVars>>
       \/ part = "types" /\ ReadTypes /\ UNCHANGED <<vars, textVars>>

MacroSpec == MacroInit /\ [][MacroNext]_<<part, vars, textVars, typeVars>> /\ Fairness

(* What the parser accepts is what runs well: neither a text it stores nor *)
(* a value it declares a type of goes wrong in a way it set out to refuse, *)
(* and what it refuses would have (parser.py, binding.py).                 *)
DefinitionsAreReadRight == TextsAreReadRight /\ TypesAreReadRight
=============================================================================
