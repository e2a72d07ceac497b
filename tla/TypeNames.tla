------------------------------ MODULE TypeNames ------------------------------
(***************************************************************************)
(* The type of a field, from the package to the form.  The engine service  *)
(* writes it down as text (renderType2 of DalfParser.scala), the gateway   *)
(* passes the text on (mapEngineField of package-parser.ts), and the form  *)
(* of a command guesses from the text which input to draw, and for an      *)
(* optional or a list what is inside (argument-form.tsx).                  *)
(*                                                                         *)
(* A text is its sequence of words and parentheses.  A name may begin like *)
(* that of a builtin type and go on ("Listing"); it is then the record of  *)
(* its beginning and its end.                                              *)
(***************************************************************************)
EXTENDS Integers, Sequences
LOCAL INSTANCE SequencesExt

CONSTANTS
  PlainNames,    \* bound: types without arguments
  MaxDepth       \* bound: the depth of types

ASSUME TypeNamesConstantsOK == MaxDepth \in Nat

VARIABLE field   \* a field, or the field inside it: its type, and the text

fieldVars == <<field>>

Word(begin, end) == [begin |-> begin, end |-> end]
Name(w) == Word(w, "")
Open  == Name("(")
Close == Name(")")

-----------------------------------------------------------------------------
\* A type is a name and its arguments.  A map has two, and a look-alike of a
\* builtin type may have none or one.
Type(name, args) == [name |-> name, args |-> args]

LookAlikes == {Word("List", "ing"), Word("Optional", "ity"), Word("ContractId", "s")}

TypesOver(inner) ==
  LET unary == {Name("List"), Name("Optional"), Name("ContractId")} \cup LookAlikes
  IN {Type(n, <<t>>) : n \in unary, t \in inner}
       \cup {Type(Name("GenMap"), <<Type(Name("Text"), <<>>), t>>) : t \in inner}

Types ==
  LET plain == {Type(n, <<>>) : n \in {Name(p) : p \in PlainNames} \cup LookAlikes}
      upTo[d \in 0..MaxDepth] ==
        IF d = 0 THEN plain ELSE plain \cup TypesOver(upTo[d - 1])
  IN upTo[MaxDepth]

-----------------------------------------------------------------------------
(***************************************************************************)
(* The engine service.                                                     *)
(***************************************************************************)

Bracketed(text) == IF Len(text) > 1 THEN <<Open>> \o text \o <<Close>> ELSE text

\* An argument that has a space in it is put in parentheses.
RECURSIVE RenderType(_)
RenderType(type) ==
  <<type.name>> \o
    FlattenSeq([i \in DOMAIN type.args |-> Bracketed(RenderType(type.args[i]))])

-----------------------------------------------------------------------------
(***************************************************************************)
(* The form.                                                               *)
(***************************************************************************)

\* The rest are single words that are compared as they are; records would need
\* a dot in their name, and names come without their modules.
InferInputType(text) ==
  LET begin == Head(text).begin
      whole == Len(text) = 1 /\ Head(text).end = ""
  IN CASE begin = "Bool" /\ whole  -> "bool"
       [] begin = "Int64" /\ whole -> "number"
       [] begin = "Party" /\ whole -> "party"
       [] begin = "ContractId"     -> "contractId"
       [] begin = "Optional"       -> "optional"
       [] begin = "List"           -> "list"
       [] OTHER                    -> "text"

\* Mutant: the group of the pattern is greedy and keeps the last parenthesis.
ExtractGreedily(text) ==
  IF Len(text) > 1 /\ text[2] = Open THEN SubSeq(text, 3, Len(text))
  ELSE IF Len(text) > 1 THEN Tail(text) ELSE <<Name("Text")>>

\* extractOptionalInner and extractListInner: what follows the name, without a
\* parenthesis at its beginning and one at its end.
ExtractInner(text) ==
  LET name == Head(text)
      rest == (IF name.end = "" THEN <<>> ELSE <<Name(name.end)>>) \o Tail(text)
      open == IF rest # <<>> /\ Head(rest) = Open THEN Tail(rest) ELSE rest
  IN IF open = <<>> THEN <<Name("Text")>>
     ELSE IF Len(open) > 1 /\ Last(open) = Close THEN Front(open)
     ELSE open

FieldInit(on) ==
  field \in {[type |-> t, text |-> RenderType(t)] :
               t \in IF on THEN Types ELSE {Type(Name("Text"), <<>>)}}

\* The field inside an optional one that is Some, or of a row of a list.
Inside ==
  /\ InferInputType(field.text) \in {"optional", "list"}
  /\ field.type.name \in {Name("Optional"), Name("List")}
  /\ field' = [type |-> field.type.args[1], text |-> ExtractInner(field.text)]

-----------------------------------------------------------------------------
FieldTypeOK ==
  /\ field.type = Type(Name("Text"), <<>>) \/ field.type \in Types
  /\ field.text # <<>>

\* The input a type calls for.
InputOf(type) ==
  CASE type.name = Name("Bool")       -> "bool"
    [] type.name = Name("Int64")      -> "number"
    [] type.name = Name("Party")      -> "party"
    [] type.name = Name("ContractId") -> "contractId"
    [] type.name = Name("Optional")   -> "optional"
    [] type.name = Name("List")       -> "list"
    [] OTHER                          -> "text"

\* However deep a field is nested, the form draws the input its type calls for,
\* and what it shows is the text of that type, unless the name of the type only
\* begins like that of an optional, a list or a contract id, which the form
\* takes it for.
InputsMatch ==
  /\ field.text = RenderType(field.type)
  /\ InferInputType(field.text) = InputOf(field.type)
       <=> field.type.name \notin LookAlikes
=============================================================================
