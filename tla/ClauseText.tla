----------------------------- MODULE ClauseText -----------------------------
(***************************************************************************)
(* The clauses of a template as the explorer shows them: who signs and     *)
(* observes, and the condition of the ensure clause.  The engine service   *)
(* reads them out of the compiled package (DalfParser.scala), where a      *)
(* clause is an expression that the compiler has wrapped: in a function of *)
(* the module applied to the contract, in bindings, type applications and  *)
(* references to interned expressions.                                     *)
(*                                                                         *)
(* An expression is what it is, a name, and the expressions in it.  A      *)
(* reference holds what it refers to, the name of a value its definition   *)
(* when the module has one.  A text is a sequence of words and signs.  The *)
(* readers give up at a depth of 20 or 30, which MaxWraps wrappers do not  *)
(* reach.                                                                  *)
(***************************************************************************)
EXTENDS Integers, Sequences, FiniteSets
LOCAL INSTANCE SequencesExt

CONSTANTS
  RecordFields,  \* the fields of the contract
  MaxWraps       \* bound: wrappers around a clause

ASSUME ClauseConstantsOK == MaxWraps \in Nat

VARIABLE clause  \* a clause of a template, compiled, with what it says

clauseVars == <<clause>>

E(is, name, parts) == [is |-> is, name |-> name, parts |-> parts]
Var(x)       == E("var", x, <<>>)
Lit(n)       == E("lit", n, <<>>)
Proj(f)      == E("proj", f, <<Var("this")>>)
Builtin(op)  == E("builtin", op, <<>>)
Applied(f, args) == E("app", "", <<f>> \o args)
Abs(x, body) == E("abs", x, <<body>>)
Val(v, def)  == E("val", v, def)
Let(x, bound, body) == E("let", x, <<bound, body>>)
Case(scrut, alts)   == E("case", "", <<scrut>> \o alts)
ListExpr(es) == IF es = <<>> THEN E("nil", "[]", <<>>) ELSE E("cons", "", es)

TypeApplied(e) == E("tyapp", "", <<e>>)
Interned(e)    == E("ref", "", <<e>>)

\* The compiler's names for the functions it makes of clauses.
MadeNames == {"$$csignatory", "$$censure"}

-----------------------------------------------------------------------------
(***************************************************************************)
(* The engine service.                                                     *)
(***************************************************************************)

RECURSIVE Dereferenced(_)
Dereferenced(e) == IF e.is = "ref" THEN Dereferenced(e.parts[1]) ELSE e

RECURSIVE Peeled(_)
Peeled(e) == IF Dereferenced(e).is = "tyapp" THEN Peeled(Dereferenced(e).parts[1]) ELSE Dereferenced(e)

Joined(texts, sign) ==
  FlattenSeq([i \in DOMAIN texts |-> IF i = 1 THEN texts[i] ELSE <<sign>> \o texts[i]])

\* renderExpr2.
RECURSIVE Rendered(_)
Rendered(e) ==
  LET parts == [i \in DOMAIN e.parts |-> Rendered(e.parts[i])]
  IN CASE e.is \in {"var", "lit", "builtin", "val", "nil"} -> <<e.name>>
       [] e.is = "proj" -> parts[1] \o <<".", e.name>>
       [] e.is = "app"  -> IF Len(parts) = 2 THEN parts[1] \o <<" ">> \o parts[2]
                           ELSE parts[1] \o <<"(">> \o Joined(Tail(parts), ",") \o <<")">>
       [] e.is = "cons" -> <<"[">> \o Joined(parts, ",") \o <<"]">>
       [] e.is = "let"  -> parts[2]
       [] e.is = "case" -> <<"case", " ">> \o parts[1] \o <<" ", "of ...">>
       [] OTHER         -> parts[1]

\* simplifyExpr.
FieldOf(text) ==
  IF Len(text) = 3 /\ SubSeq(text, 1, 2) = <<"this", ".">> THEN <<text[3]>> ELSE text

Split(text) ==
  LET cuts == SetToSortSeq({0, Len(text) + 1} \cup {i \in DOMAIN text : text[i] = ","}, <)
  IN [i \in 1..Len(cuts) - 1 |-> SubSeq(text, cuts[i] + 1, cuts[i + 1] - 1)]

Simplified(text) ==
  IF Len(text) > 1 /\ Head(text) = "[" /\ text[Len(text)] = "]"
  THEN LET entries == Split(SubSeq(text, 2, Len(text) - 1))
       IN Joined([i \in DOMAIN entries |-> FieldOf(entries[i])], ",")
  ELSE FieldOf(text)

\* extractFieldProjections.  What is under a case is not looked at.
RECURSIVE Projections(_)
Projections(e) ==
  LET r == Dereferenced(e)
      within == FlattenSeq([i \in DOMAIN r.parts |-> Projections(r.parts[i])])
  IN CASE r.is = "proj" -> <<r.name>>
       [] r.is \in {"app", "abs", "tyapp", "cons", "let", "val"} -> within
       [] OTHER -> <<>>

\* The first of each.
Distinct(s) ==
  LET firsts == {i \in DOMAIN s : \A j \in 1..i - 1 : s[j] # s[i]}
      order == SetToSortSeq(firsts, <)
  IN [k \in DOMAIN order |-> s[order[k]]]

HasMadeName(text) == ToSet(text) \cap MadeNames # {}
FieldList(fields) == Joined([i \in DOMAIN fields |-> <<fields[i]>>], ",")

\* renderExprInlined: instead of a name of the compiler's, the fields that the
\* expression looks at; if there are none, what its function returns.
Inlined(e) ==
  LET text == Rendered(e)
      fields == Distinct(Projections(e))
      r == Dereferenced(e)
      definition == IF r.is = "app" /\ Peeled(r.parts[1]).is = "val"
                    THEN Peeled(r.parts[1]).parts ELSE <<>>
      returned == IF definition = <<>> THEN text ELSE Simplified(Rendered(definition[1]))
  IN CASE ~HasMadeName(text)     -> text
       [] fields # <<>>          -> FieldList(fields)
       [] ~HasMadeName(returned) -> returned
       [] OTHER                  -> text

\* renderExprWithBindings, for the operands of a comparison.
Operand(e, bindings) ==
  LET r == Dereferenced(e)
  IN CASE r.is = "proj"                              -> <<r.name>>
       [] r.is = "var" /\ r.name \in DOMAIN bindings -> bindings[r.name]
       [] OTHER                                      -> Rendered(r)

\* builtinToOperator knows five comparisons and four operations of arithmetic,
\* which are taken for comparisons as well.
Tests     == {">", "=="}
Operators == Tests \cup {"+"}

\* A comparison is a builtin applied to two operands, at once or one by one.
Infix(app, bindings) ==
  LET fun == Dereferenced(app.parts[1])
      nested == fun.is = "app"
      operands == IF nested /\ Len(fun.parts) = 2 /\ Len(app.parts) = 2
                  THEN <<fun.parts[2], app.parts[2]>>
                  ELSE Tail(IF nested THEN fun.parts ELSE app.parts)
      op == Peeled(IF nested THEN fun.parts[1] ELSE fun)
  IN IF op.is = "builtin" /\ op.name \in Operators /\ Len(operands) > 1
     THEN Operand(operands[Len(operands) - 1], bindings) \o <<op.name>>
            \o Operand(operands[Len(operands)], bindings)
     ELSE <<>>

FirstFound(texts) ==
  LET found == SelectSeq(texts, LAMBDA t : t # <<>>)
  IN IF found = <<>> THEN <<>> ELSE found[1]

\* tryRenderComparison, with the texts of the variables that are bound.
RECURSIVE Comparison(_, _)
Comparison(e, bindings) ==
  LET r == Dereferenced(e)
      bound == [x \in DOMAIN bindings \cup {r.name} |->
                  IF x = r.name THEN Operand(r.parts[1], bindings) ELSE bindings[x]]
  IN CASE r.is = "app" -> Infix(r, bindings)
       [] r.is \in {"abs", "tyapp"} -> Comparison(r.parts[1], bindings)
       [] r.is = "let" -> Comparison(r.parts[2], bound)
       [] r.is \in {"case", "val"} ->
            FirstFound([i \in DOMAIN r.parts |-> Comparison(r.parts[i], bindings)])
       [] OTHER -> <<>>

\* renderEnsureExpr.
RECURSIVE EnsureText(_)
EnsureText(e) ==
  LET r == Dereferenced(e)
      fun == Peeled(r.parts[1])
      texts == CASE r.is \in {"abs", "case", "val"} -> r.parts
                 [] r.is = "let"                    -> Tail(r.parts)
                 [] r.is = "app" /\ fun.is = "val"  -> fun.parts
                 [] OTHER                           -> <<>>
      whole == r.is # "app" \/ fun.name \in MadeNames
      first == Comparison(r, [x \in {} |-> <<>>])
  IN IF first # <<>> THEN first
     ELSE FirstFound([i \in DOMAIN texts |->
            IF whole THEN EnsureText(texts[i]) ELSE Comparison(texts[i], [x \in {} |-> <<>>])])

\* What the template's definition says of the clause.
ShownParties(e) == Simplified(Inlined(e))

ShownEnsure(e) ==
  LET inlined == Inlined(e)
      fields == Distinct(Projections(e))
  IN CASE EnsureText(e) # <<>>   -> [by |-> "comparison", text |-> EnsureText(e)]
       [] inlined = <<"True">>   -> [by |-> "nothing", text |-> <<>>]
       [] ~HasMadeName(inlined)  -> [by |-> "text", text |-> inlined]
       [] fields # <<>>          -> [by |-> "text", text |-> FieldList(fields) \o <<" (condition)">>]
       [] OTHER                  -> [by |-> "nothing", text |-> <<>>]

-----------------------------------------------------------------------------
(***************************************************************************)
(* The compiler.  says is the parties of the clause, or the comparisons of *)
(* the condition in the order they are made; sums the arithmetic in it;    *)
(* plain that it has neither conditions on parties, nor "or" and "not".    *)
(***************************************************************************)

Clause(kind, expr, says) ==
  [kind |-> kind, expr |-> expr, says |-> says, sums |-> {}, plain |-> TRUE, wraps |-> 0]

Compared(a, op, b) ==
  {Applied(TypeApplied(Builtin(op)), <<a, b>>), Applied(Builtin(op), <<a, b>>),
   Applied(Interned(Applied(TypeApplied(Interned(Builtin(op))), <<a>>)), <<b>>)}

Signers ==
  {Clause("parties", ListExpr([i \in DOMAIN fields |-> Proj(fields[i])]), ToSet(fields)) :
     fields \in {<<>>} \cup {<<f>> : f \in RecordFields}
                  \cup {<<f, g>> : f, g \in RecordFields}}
  \cup {Clause("parties", Applied(Val("toParties", <<>>), <<Proj(f)>>), {f}) : f \in RecordFields}

\* Sums are compared, or named by a case and compared then; a function of the
\* module compares its parameter.
Conditions ==
  LET positive(e) == Applied(Builtin(">"), <<e, Lit("0")>>)
      sum(f, g) == Applied(Builtin("+"), <<Proj(f), Proj(g)>>)
      summed(f, g, e, says) == [Clause("ensure", e, <<says>>) EXCEPT !.sums = {<<f, "+", g>>}]
  IN UNION {{Clause("ensure", e, <<<<f, op, "0">>>>) : e \in Compared(Proj(f), op, Lit("0"))}
              : f \in RecordFields, op \in Tests}
     \cup {Clause("ensure", Var("True"), <<>>)}
     \cup {summed(f, g, positive(sum(f, g)), Rendered(sum(f, g)) \o <<">", "0">>) :
              f, g \in RecordFields}
     \cup {summed(f, g, Case(sum(f, g), <<positive(Var("s"))>>), <<"s", ">", "0">>) :
              f, g \in RecordFields}
     \cup {Clause("ensure", Applied(Val("f", <<Abs("x", positive(Var("x")))>>), <<Proj(f)>>),
                  <<<<"x", ">", "0">>>>) : f \in RecordFields}

\* The compiled clause becomes this one, which says this.
Becoming(expr, says, plain) ==
  clause' = [clause EXCEPT !.expr = expr, !.says = says, !.plain = plain, !.wraps = @ + 1]

MadeFunction ==
  LET name == IF clause.kind = "parties" THEN "$$csignatory" ELSE "$$censure"
  IN Becoming(Applied(Val(name, <<Abs("this", clause.expr)>>), <<Var("this")>>),
              clause.says, clause.plain)

MadeInterned == Becoming(Interned(clause.expr), clause.says, clause.plain)

MoreParties ==
  /\ clause.kind = "parties"
  /\ \E f \in RecordFields :
       LET more == clause.says \cup {f}
           appended(e) == Applied(Val("++", <<>>), <<clause.expr, ListExpr(<<e>>)>>)
       IN \/ Becoming(appended(Proj(f)), more, clause.plain)
          \/ Becoming(Let("x", Proj(f), appended(Var("x"))), more, clause.plain)
          \/ Becoming(Case(Proj("flag"), <<clause.expr, ListExpr(<<Proj(f)>>)>>), more, FALSE)

\* "and" and "or" are cases; "not" is a function of another package.
MoreConditions ==
  /\ clause.kind = "ensure"
  /\ \/ Becoming(Applied(Val("not", <<>>), <<clause.expr>>), clause.says, FALSE)
     \/ \E f \in RecordFields :
          LET e == Applied(Builtin(">"), <<Var("x"), Lit("0")>>)
              more == clause.says \o <<<<f, ">", "0">>>>
              with(body) == Let("x", Proj(f), body)
          IN \/ Becoming(with(Case(clause.expr, <<e, Var("False")>>)), more, clause.plain)
             \/ Becoming(with(Case(clause.expr, <<Var("True"), e>>)), more, FALSE)

ClauseInit(open) ==
  clause \in IF open THEN Signers \cup Conditions ELSE {Clause("ensure", Var("True"), <<>>)}

ClauseNext ==
  /\ clause.wraps < MaxWraps
  /\ MadeFunction \/ MadeInterned \/ MoreParties \/ MoreConditions

-----------------------------------------------------------------------------
ClauseTypeOK ==
  /\ clause.kind \in {"parties", "ensure"} /\ clause.plain \in BOOLEAN
  /\ clause.wraps \in 0..MaxWraps
  /\ IF clause.kind = "parties" THEN clause.says \subseteq RecordFields
     ELSE \A text \in ToSet(clause.says) : text[Len(text) - 1] \in Tests

\* However the compiler wraps a clause, a list of fields that is shown for its
\* parties has only fields whose parties it names, and all of them unless some
\* depend on a condition; what is shown of its condition as a comparison is one
\* of those it makes, or a sum that it computes, and without "or" and "not" there
\* is always one.
ClausesShown ==
  IF clause.kind = "parties"
  THEN LET entries == Split(ShownParties(clause.expr))
           fields == {entries[i][1] : i \in DOMAIN entries}
           isList == \A i \in DOMAIN entries : Len(entries[i]) = 1 /\ entries[i][1] \in RecordFields
       IN isList => fields \subseteq clause.says /\ (clause.plain => fields = clause.says)
  ELSE LET shown == ShownEnsure(clause.expr)
           some == shown.by = "comparison"
       IN /\ some => shown.text \in ToSet(clause.says) \cup clause.sums
          /\ clause.plain => (some <=> clause.says # <<>>)
=============================================================================
