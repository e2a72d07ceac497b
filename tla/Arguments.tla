------------------------------ MODULE Arguments ------------------------------
(***************************************************************************)
(* One argument of a command, from the form (argument-form.tsx) to a       *)
(* Daml-LF value.  To execute or simulate online the gateway guesses the   *)
(* type of a value from its JSON (objectToValue of command-service.ts and  *)
(* interactive-submission-service.ts); to trace or simulate offline the    *)
(* engine service reads it as text of the type the package declares        *)
(* (stringToTypedValue of EngineExecutor.scala), and so it reads the       *)
(* payloads of contracts, which the gateway made JSON of (valueToObject).  *)
(*                                                                         *)
(* Texts are told apart by what a conversion may take them for: a number,  *)
(* a party (it has a "::"), a contract id, "null", something with a quote  *)
(* in it, and other words.  Fractions in Int64 fields are left out.        *)
(***************************************************************************)
EXTENDS Integers, Sequences
LOCAL INSTANCE SequencesExt

CONSTANTS
  ArgumentTypes,   \* bound: types, outermost constructor first
  MaxItems         \* bound: the rows of a list

Scalars == {"Bool", "Int64", "Numeric", "Party", "Text", "ContractId", "Record"}

ASSUME ArgumentsConstantsOK ==
  /\ MaxItems \in Nat
  /\ \A t \in ArgumentTypes :
       /\ t \in Seq(Scalars \cup {"Optional", "List"})
       /\ Last(t) \in Scalars /\ ToSet(Front(t)) \cap Scalars = {}

Words == {"word", "number", "party", "cid", "null", "quoted"}

VARIABLE arg   \* the field: its type, its value, and what the form keeps

argVars == <<arg>>

\* A JSON value; str is a text, the digits of a number or a truth value.
Json(kind, str) == [json |-> kind, str |-> str, items |-> <<>>]
JsonArray(items) == [json |-> "array", str |-> "", items |-> items]

Undefined == Json("undefined", "")
Filled(v) == v # Undefined

\* A Daml-LF value; items are those of a list or of an optional.
Lf(kind, str) == [lf |-> kind, str |-> str, items |-> <<>>]
LfOf(kind, items) == [lf |-> kind, str |-> "", items |-> items]

Exception == Lf("exception", "")

-----------------------------------------------------------------------------
(***************************************************************************)
(* The form.                                                               *)
(***************************************************************************)

\* What the input of a type can hold.  Numeric and Record types are typed as
\* text, since only "numeric" itself is a number field and a record without a
\* dot in its name is none.
FormInputs(scalar) ==
  CASE scalar = "Bool"  -> {Json("boolean", b) : b \in {"true", "false"}}
    [] scalar = "Int64" -> {Json("number", "number"), Undefined}
    [] OTHER -> {Json("string", s) : s \in Words} \cup {Undefined}

\* OptionalField keeps beside its value whether it shows Some; by row for the
\* rows of a list, whose keys are their indices.
Rows == 1..MaxItems

ArgInit(on) ==
  arg \in [type : IF on THEN ArgumentTypes ELSE {<<"Text">>},
           value : {Undefined}, some : {[r \in Rows |-> FALSE]}, removed : {FALSE}]

IsList == Head(arg.type) = "List"
Items  == arg.value.items
Element == IF IsList THEN Tail(arg.type) ELSE arg.type
IsOptional == Head(Element) = "Optional"

Put(r, v) == IF IsList THEN JsonArray([Items EXCEPT ![r] = v]) ELSE v
Mounted == IF IsList THEN DOMAIN Items ELSE {1}

Enter(r) ==
  /\ r \in Mounted /\ (IsOptional => arg.some[r])
  /\ \E v \in FormInputs(Last(Element)) : arg' = [arg EXCEPT !.value = Put(r, v)]

Toggle(r) ==
  /\ IsOptional /\ r \in Mounted
  /\ arg' = [arg EXCEPT !.some[r] = ~@,
                        !.value = IF arg.some[r] THEN Put(r, Undefined) ELSE @]

AddItem ==
  /\ IsList /\ Len(Items) < MaxItems
  /\ arg' = [arg EXCEPT !.value = JsonArray(Append(Items, Undefined)),
                        !.some[Len(Items) + 1] = FALSE]

\* The last row goes, whichever item was removed.
RemoveItem(r) ==
  /\ IsList /\ r \in DOMAIN Items
  /\ arg' = [arg EXCEPT !.value = JsonArray(RemoveAt(Items, r)),
                        !.removed = TRUE]

\* setArgs({}), when the choice changes to one with a parameter like this one.
Cleared ==
  /\ Filled(arg.value)
  /\ arg' = [arg EXCEPT !.value = Undefined]

ArgNext ==
  (\E r \in Rows : Enter(r) \/ Toggle(r) \/ RemoveItem(r)) \/ AddItem \/ Cleared

-----------------------------------------------------------------------------
(***************************************************************************)
(* The conversions.                                                        *)
(***************************************************************************)

GuessText(v) ==                          \* mutant: numbers are no numerics
  IF v.str = "party" THEN Lf("party", v.str) ELSE Lf("text", v.str)

Guess(v) ==
  IF v.str = "party" THEN Lf("party", v.str)
  ELSE IF v.str = "number" THEN Lf("numeric", v.str)
  ELSE Lf("text", v.str)

\* An item of a list that was not filled in arrives as null.
RECURSIVE ObjectToValue(_)
ObjectToValue(v) ==
  CASE v.json = "undefined" -> Lf("unit", "")
    [] v.json = "string"    -> Guess(v)
    [] v.json = "number"    -> Lf("int64", v.str)
    [] v.json = "boolean"   -> Lf("bool", v.str)
    [] v.json = "array"     ->
         LfOf("list", [i \in DOMAIN v.items |-> ObjectToValue(v.items[i])])

\* flattenPayload; a field that is not filled in is not sent at all and read as
\* an empty text.  item.toString leaves the escapes of a text in a list.
Flatten(v) == [v EXCEPT !.str = IF v.json = "null" THEN "null" ELSE @]

FlattenItem(v) ==
  [v EXCEPT !.str = CASE v.json \in {"undefined", "null"} -> "null"
                      [] v.json = "string" /\ v.str = "quoted" -> "escaped"
                      [] OTHER -> @]

Read(scalar, raw) ==
  LET ok(texts, kind) == IF raw.json # "array" /\ raw.str \in texts
                         THEN Lf(kind, raw.str) ELSE Exception
  IN CASE scalar = "Party"      -> ok({"word", "number", "party", "cid", "null",
                                       "true", "false"}, "party")
       [] scalar = "Int64"      -> ok({"number"}, "int64")
       [] scalar = "Numeric"    -> ok({"number"}, "numeric")
       [] scalar = "Bool"       -> ok({"true", "false"}, "bool")
       [] scalar = "ContractId" -> ok({"cid"}, "contractId")
       [] scalar = "Text"       -> Lf("text", raw.str)
       [] scalar = "Record"     ->
            Lf(IF raw.str = "party" THEN "party" ELSE "text", raw.str)

\* An exception in a list makes a text of all of it, and what is not an array
\* an empty list.
RECURSIVE StringToTypedValue(_, _)
StringToTypedValue(raw, type) ==
  CASE Head(type) = "Optional" ->
         IF raw.json # "array" /\ raw.str \in {"", "null"} THEN LfOf("optional", <<>>)
         ELSE LET inner == StringToTypedValue(raw, Tail(type))
              IN IF inner = Exception THEN Exception
                 ELSE LfOf("optional", <<inner>>)
    [] Head(type) = "List" ->
         LET read == [i \in DOMAIN raw.items |->
                        StringToTypedValue(FlattenItem(raw.items[i]), Tail(type))]
         IN IF Exception \in ToSet(read) THEN Lf("text", "array")
            ELSE LfOf("list", read)
    [] OTHER -> Read(Head(type), raw)

RECURSIVE ValueToObject(_)
ValueToObject(v) ==
  CASE v.lf = "bool"     -> Json("boolean", v.str)
    [] v.lf = "list"     ->
         JsonArray([i \in DOMAIN v.items |-> ValueToObject(v.items[i])])
    [] v.lf = "optional" ->
         IF v.items = <<>> THEN Json("null", "") ELSE ValueToObject(v.items[1])
    [] OTHER             -> Json("string", v.str)

-----------------------------------------------------------------------------
(***************************************************************************)
(* The ledger's side: values of a type.                                    *)
(***************************************************************************)

LfName == [Bool |-> "bool", Int64 |-> "int64", Numeric |-> "numeric",
           Party |-> "party", Text |-> "text", ContractId |-> "contractId",
           Record |-> "record"]

RECURSIVE Typed(_, _)
Typed(v, type) ==
  CASE Head(type) = "Optional" ->
         v.lf = "optional" /\ \A i \in DOMAIN v.items : Typed(v.items[i], Tail(type))
    [] Head(type) = "List" ->
         v.lf = "list" /\ \A i \in DOMAIN v.items : Typed(v.items[i], Tail(type))
    [] OTHER -> v.lf = LfName[Head(type)]

Texts(scalar) ==
  CASE scalar = "Bool" -> {"true", "false"}
    [] scalar = "Text" -> Words
    [] scalar = "ContractId" -> {"cid"}
    [] scalar = "Party" -> {"party"}
    [] scalar = "Record" -> {"fields"}
    [] OTHER -> {"number"}

RECURSIVE LedgerValues(_)
LedgerValues(type) ==
  CASE Head(type) = "Optional" ->
         {LfOf("optional", s) : s \in BoundedSeq(LedgerValues(Tail(type)), 1)}
    [] Head(type) = "List" ->
         {LfOf("list", s) : s \in BoundedSeq(LedgerValues(Tail(type)), MaxItems)}
    [] OTHER -> {Lf(LfName[Head(type)], s) : s \in Texts(Head(type))}

-----------------------------------------------------------------------------
\* A field that is not sent is none, if it is an optional one.
Online ==
  IF Filled(arg.value) THEN ObjectToValue(arg.value)
  ELSE IF Head(arg.type) = "Optional" THEN LfOf("optional", <<>>)
  ELSE Exception

Offline == StringToTypedValue(Flatten(arg.value), arg.type)

\* The scalars of a value, and whether one of them has a text of a set.
Leaves(v) == IF v.json = "array" THEN ToSet(v.items) ELSE {v}

RECURSIVE Holds(_, _)
Holds(v, s) == v.str = s \/ \E i \in DOMAIN v.items : Holds(v.items[i], s)

\* Texts that no conversion takes for something else.
Unmistakable(scalar, s) ==
  CASE scalar = "Text"    -> s \notin {"number", "party"}
    [] scalar = "Party"   -> s = "party"
    [] scalar = "Numeric" -> s = "number"
    [] OTHER              -> scalar \in {"Bool", "Int64"}

ArgTypeOK ==
  /\ arg.type \in ArgumentTypes /\ arg.removed \in BOOLEAN
  /\ arg.some \in [Rows -> BOOLEAN]
  /\ arg.value.json \in {"undefined", "boolean", "number", "string", "array"}
  /\ Len(Items) <= MaxItems

\* A command means the same however it is run.  What the participant accepts
\* for a field the engine reads as the same value, and a field without
\* optionals that is filled in with texts that look like their type is
\* accepted; only a quote in a list comes out differently.  A payload that is
\* shown to the engine is the one on the ledger, except for records, quotes in
\* lists, and a text "null" where there may be none.  And what the form shows
\* as None is not sent, unless rows of a list have moved.
ArgumentsTyped ==
  LET quoted == IsList /\ Holds(arg.value, "quoted")
  IN /\ Typed(Online, arg.type) /\ ~quoted => Offline = Online
     /\ /\ Filled(arg.value) /\ ~IsOptional
        /\ \A v \in Leaves(arg.value) : Filled(v) /\ Unmistakable(Last(arg.type), v.str)
        => Typed(Online, arg.type)
     /\ \A v \in LedgerValues(arg.type) :
          StringToTypedValue(Flatten(ValueToObject(v)), arg.type) = v <=>
            /\ ~Holds(v, "fields")
            /\ ~(IsList /\ Holds(v, "quoted"))
            /\ ~("Optional" \in ToSet(arg.type) /\ Holds(v, "null"))
     /\ IsOptional /\ ~arg.removed =>
          \A r \in Mounted : ~arg.some[r] =>
            ~Filled(IF IsList THEN Items[r] ELSE arg.value)
=============================================================================
