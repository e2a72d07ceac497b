---------------------------- MODULE PackageReply ----------------------------
(***************************************************************************)
(* The modules, templates and choices of a package: from the archive that  *)
(* the participant has, through the engine service or, when that does not  *)
(* answer, through the gateway's own reader, into the cache.               *)
(*                                                                         *)
(* A package of Daml-LF 2.x has no names in its definitions, but the       *)
(* places of names in a table, whose entries are places in the table of    *)
(* strings; its types may be places in a table of types too.  Places count *)
(* from 0.  The archives of Daml-LF 1.x, which the engine service reads    *)
(* by other functions, are left out, and of a definition what the explorer *)
(* and the forms do not take from it by name: clauses (ClauseText), how a  *)
(* type is written down (TypeNames), keys, interfaces, listed types.       *)
(***************************************************************************)
EXTENDS Integers, Sequences, FiniteSets
LOCAL INSTANCE SequencesExt

CONSTANTS
  Compiled,      \* the modules of the package: their data types and templates
  MaxPackageAsks \* bound: requests for the package

ASSUME PackageConstantsOK == MaxPackageAsks \in Nat

VARIABLES
  archive,  \* the package as far as it is written: tables and modules
  engineUp, \* does the engine service answer
  detail    \* requests on their way, what is cached, what was sent

packageVars == <<archive, engineUp, detail>>

-----------------------------------------------------------------------------
(***************************************************************************)
(* The compiler writes a package, one definition after the other.  A name  *)
(* enters the tables when it is first used.                                *)
(***************************************************************************)

Extended(table, entries) ==
  FoldLeft(LAMBDA t, e : IF e \in ToSet(t) THEN t ELSE Append(t, e), table, entries)
PlaceIn(table, entry) == (CHOOSE i \in DOMAIN table : table[i] = entry) - 1

\* A type is a builtin or the name of a data type, of this module or another.
Basic(word) == [is |-> "builtin", name |-> <<word>>]
Con(name)      == [is |-> "con", name |-> name]

Empty == [types |-> <<>>, templates |-> <<>>]
Definitions ==
  UNION {{<<i, list, k>> : k \in DOMAIN Compiled[i][list]}
           : i \in DOMAIN Compiled, list \in DOMAIN Empty}

\* The types, dotted names and strings in a definition, in order.
TypesIn(list, d) ==
  IF list = "types" THEN [k \in DOMAIN d.fields |-> d.fields[k].type]
  ELSE [k \in DOMAIN d.choices |-> d.choices[k].arg]
NamesIn(list, d) ==
  LET named == SelectSeq(TypesIn(list, d), LAMBDA t : t.is = "con")
  IN <<d.name>> \o [k \in DOMAIN named |-> named[k].name]
StringsIn(list, d) ==
  FlattenSeq(NamesIn(list, d))
    \o (IF list = "types" THEN [k \in DOMAIN d.fields |-> d.fields[k].name]
        ELSE <<"arg">> \o [k \in DOMAIN d.choices |-> d.choices[k].name])

PlacesOf(name, strings) == [k \in DOMAIN name |-> PlaceIn(strings, name[k])]
NamePlace(name, p) == PlaceIn(p.names, PlacesOf(name, p.strings))

TypeMessage(t, p) ==
  [is |-> t.is, at |-> IF t.is = "con" THEN NamePlace(t.name, p) ELSE 0,
   word |-> IF t.is = "con" THEN "" ELSE t.name[1]]
TypeRef(t, p) ==
  IF p.refs THEN [is |-> "ref", at |-> PlaceIn(p.interned, TypeMessage(t, p)), word |-> ""]
  ELSE TypeMessage(t, p)

DefinitionMessage(list, d, p) ==
  IF list = "types"
  THEN [name |-> NamePlace(d.name, p), record |-> d.record,
        fields |-> [k \in DOMAIN d.fields |->
                      [name |-> PlaceIn(p.strings, d.fields[k].name),
                       type |-> TypeRef(d.fields[k].type, p)]]]
  ELSE [name |-> NamePlace(d.name, p),
        choices |-> [k \in DOMAIN d.choices |->
                       [name |-> PlaceIn(p.strings, d.choices[k].name),
                        binder |-> PlaceIn(p.strings, "arg"),
                        arg |-> TypeRef(d.choices[k].arg, p)]]]

\* The tables with what a definition of this name, or with these, adds.
WithStrings(p, strings) == [p EXCEPT !.strings = Extended(@, strings)]
WithNames(p, names) ==
  [p EXCEPT !.names = Extended(@, [k \in DOMAIN names |-> PlacesOf(names[k], p.strings)])]
WithTypes(p, types) ==
  IF p.refs
  THEN [p EXCEPT !.interned = Extended(@, [k \in DOMAIN types |-> TypeMessage(types[k], p)])]
  ELSE p

Complete == archive.left = {}

WriteDefinition ==
  /\ \E def \in archive.left :
       LET i == def[1]
           list == def[2]
           d == Compiled[i][list][def[3]]
           m == Compiled[i].name
           p == WithTypes(WithNames(WithStrings(archive.package, m \o StringsIn(list, d)),
                                    <<m>> \o NamesIn(list, d)), TypesIn(list, d))
       IN /\ \A other \in archive.left : i <= other[1]
          /\ archive' = [left |-> archive.left \ {def},
                         package |-> [p EXCEPT !.modules[i].name = NamePlace(m, p),
                                               !.modules[i][list] = Append(@, DefinitionMessage(list, d, p))]]
  /\ UNCHANGED <<engineUp, detail>>

-----------------------------------------------------------------------------
(***************************************************************************)
(* The readers.                                                            *)
(***************************************************************************)

\* resolveStr, resolveDN and resolveType.
StringAt(p, at) == IF at + 1 \in DOMAIN p.strings THEN p.strings[at + 1] ELSE "<str>"
NameAt(p, at) ==
  IF at + 1 \in DOMAIN p.names
  THEN [k \in DOMAIN p.names[at + 1] |-> StringAt(p, p.names[at + 1][k])]
  ELSE <<"<dn>">>

RECURSIVE ResolvedType(_, _)
ResolvedType(p, type) ==
  IF type.is = "ref" /\ type.at + 1 \in DOMAIN p.interned
  THEN ResolvedType(p, p.interned[type.at + 1]) ELSE type

\* renderType2: of a name, the last part.
TypeWord(p, type) ==
  LET t == ResolvedType(p, type)
  IN CASE t.is = "con"     -> Last(NameAt(p, t.at))
       [] t.is = "builtin" -> t.word
       [] OTHER            -> "<interned_type>"

\* mutant: types are found by the last part of their name.
DataTypesByLast(p, m, name) ==
  SelectSeq(m.types, LAMBDA dt : Last(NameAt(p, dt.name)) = Last(name))

\* dataTypeMap, whose keys are the names of the module's types with all their
\* parts; a later one replaces an earlier.
DataTypes(p, m, name) == SelectSeq(m.types, LAMBDA dt : NameAt(p, dt.name) = name)

FieldsOfRecord(p, dt) ==
  IF dt.record
  THEN [k \in DOMAIN dt.fields |-> [name |-> StringAt(p, dt.fields[k].name),
                                    type |-> TypeWord(p, dt.fields[k].type)]]
  ELSE <<>>

\* The module that the type of the argument is of is not looked at.
ChoiceParams(p, m, c) ==
  LET t == ResolvedType(p, c.arg)
      found == IF t.is = "con" THEN DataTypes(p, m, NameAt(p, t.at)) ELSE <<>>
  IN IF found # <<>> THEN FieldsOfRecord(p, Last(found))
     ELSE <<[name |-> StringAt(p, c.binder), type |-> TypeWord(p, c.arg)]>>

ParsedTemplate(p, m, t) ==
  LET name == NameAt(p, t.name)
      found == DataTypes(p, m, name)
  IN [name |-> name,
      fields |-> IF found = <<>> THEN <<>> ELSE FieldsOfRecord(p, Last(found)),
      choices |-> [k \in DOMAIN t.choices |->
                     [name |-> StringAt(p, t.choices[k].name),
                      parameters |-> ChoiceParams(p, m, t.choices[k])]]]

\* parsePackageFromProto2.
ModulesOfPackage(p) ==
  [i \in DOMAIN p.modules |->
     [name |-> NameAt(p, p.modules[i].name),
      templates |-> [k \in DOMAIN p.modules[i].templates |->
                       ParsedTemplate(p, p.modules[i], p.modules[i].templates[k])]]]

\* The lists of a package by their numbers, as far as a reader of the gateway
\* or the engine service says what they hold.
FieldsAt(p, num) ==
  CASE num = 1 -> p.modules
    [] num = 7 -> p.strings
    [] num = 8 -> p.names
    [] OTHER   -> <<>>

\* tryParsePackage of the gateway, which takes the modules of a package from
\* another number than the one they have; there are none.
LocalModules(p) == FieldsAt(p, 2)

-----------------------------------------------------------------------------
(***************************************************************************)
(* The route.                                                              *)
(***************************************************************************)

NoDetail == [have |-> FALSE, modules |-> <<>>]
Detail(modules) == [have |-> TRUE, modules |-> modules]

\* The cache is asked first; without it the bytes are fetched and parsed.
AskPackage ==
  /\ Complete /\ detail.asks < MaxPackageAsks
  /\ detail' = IF detail.cached.have
               THEN [detail EXCEPT !.asks = @ + 1, !.sent = detail.cached]
               ELSE [detail EXCEPT !.asks = @ + 1, !.pending = @ + 1]
  /\ UNCHANGED <<archive, engineUp>>

\* parseDalfViaEngine.  The engine service may also refuse the archive, which
\* is too large or which it cannot read.  Whatever comes of it is cached, over
\* what another request cached in the meantime.
PackageParsed ==
  /\ detail.pending > 0
  /\ \E byEngine \in {engineUp, FALSE} :
       LET d == Detail(IF byEngine THEN ModulesOfPackage(archive.package)
                       ELSE LocalModules(archive.package))
       IN detail' = [detail EXCEPT !.pending = @ - 1, !.cached = d, !.sent = d,
                       !.missed = @ \/ ~byEngine]
  /\ UNCHANGED <<archive, engineUp>>

\* The participant cannot be reached.
PackageFails ==
  /\ detail.pending > 0
  /\ detail' = [detail EXCEPT !.pending = @ - 1]
  /\ UNCHANGED <<archive, engineUp>>

CacheExpires ==
  /\ detail.cached.have
  /\ detail' = [detail EXCEPT !.cached = NoDetail]
  /\ UNCHANGED <<archive, engineUp>>

EngineSwitches ==
  /\ detail.asks > 0 /\ engineUp' = ~engineUp
  /\ UNCHANGED <<archive, detail>>

PackageInit(open) ==
  /\ archive \in [left : {IF open THEN Definitions ELSE {}},
                  package : [strings : {<<>>}, names : {<<>>}, interned : {<<>>},
                             refs : IF open THEN BOOLEAN ELSE {TRUE},
                             modules : {[i \in DOMAIN Compiled |->
                                           [name |-> 0, types |-> <<>>, templates |-> <<>>]]}]]
  /\ engineUp \in IF open THEN BOOLEAN ELSE {TRUE}
  /\ detail = [asks |-> 0, pending |-> 0, cached |-> NoDetail, sent |-> NoDetail,
               missed |-> FALSE]

PackageNext ==
  \/ WriteDefinition \/ AskPackage \/ PackageParsed \/ PackageFails
  \/ CacheExpires \/ EngineSwitches

-----------------------------------------------------------------------------
PackageTypeOK ==
  /\ archive.left \subseteq Definitions /\ Len(archive.package.modules) = Len(Compiled)
  /\ engineUp \in BOOLEAN /\ detail.missed \in BOOLEAN
  /\ detail.asks \in 0..MaxPackageAsks /\ detail.pending \in 0..detail.asks

FieldsDeclared(d) ==
  [k \in DOMAIN d.fields |-> [name |-> d.fields[k].name, type |-> Last(d.fields[k].type.name)]]

\* What is to be shown of a template.  The argument of a choice is a record of
\* the module or, like that of Archive, a type of another package.
Declared(m, t) ==
  LET typed(name) == {d \in ToSet(m.types) : d.name = name}
      fields(name) == FieldsDeclared(CHOOSE d \in typed(name) : TRUE)
      parameters(c) == IF typed(c.arg.name) # {} THEN fields(c.arg.name)
                       ELSE <<[name |-> "arg", type |-> Last(c.arg.name)]>>
  IN [name |-> t.name, fields |-> fields(t.name),
      choices |-> [k \in DOMAIN t.choices |->
                     [name |-> t.choices[k].name, parameters |-> parameters(t.choices[k])]]]

AsDeclared(modules) ==
  /\ DOMAIN modules = DOMAIN Compiled
  /\ \A i \in DOMAIN modules :
       /\ modules[i].name = Compiled[i].name
       /\ ToSet(modules[i].templates) = {Declared(Compiled[i], t) : t \in ToSet(Compiled[i].templates)}

\* A package of Daml-LF 2.x is shown with its modules and templates, their
\* fields, choices and parameters, in whatever order its definitions and tables
\* are written (a choice whose argument is a type of another package has the
\* argument as its one parameter, or the fields of a type of the module that has
\* the same name); or it is shown empty, which happens only if the engine
\* service missed a request or refused it, and goes on while that answer is
\* cached, the service being back or not.
PackageShown ==
  \A d \in {detail.sent, detail.cached} :
    d.have => AsDeclared(d.modules) \/ (d.modules = <<>> /\ detail.missed)
=============================================================================
