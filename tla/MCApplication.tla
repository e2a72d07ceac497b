--------------------------- MODULE MCApplication ---------------------------
(***************************************************************************)
(* The instance of Application for TLC: two packages that share the name   *)
(* of a template, and templates that share the name of a choice; every     *)
(* scalar type, alone, optional and in a list; updates with an archived    *)
(* contract and without events; and a library of two packages of the       *)
(* user's and one of the system's, with links into it that name a package  *)
(* or a template that is gone.                                             *)
(***************************************************************************)
EXTENDS Application

MCCatalog ==
  [p |-> [T |-> {"c"}, U |-> {"c"}], q |-> [T |-> {"d"}]]

MCPackageNames == [p |-> "a", q |-> "b"]

MCArgumentTypes ==
  {<<s>> : s \in Scalars} \cup {<<"Optional", s>> : s \in Scalars}
    \cup {<<"List", s>> : s \in Scalars} \cup {<<"List", "Optional", "Text">>}

MCContent == [
  u |-> <<[type |-> "created", template |-> "T", contract |-> "c", party |-> "p"],
          [type |-> "archived", template |-> "U", contract |-> "d", party |-> Nobody]>>,
  v |-> <<[type |-> "archived", template |-> "T", contract |-> "c", party |-> Nobody]>>,
  w |-> <<>>]

MCLibrary == <<
  [id |-> "a1", name |-> "app", user |-> TRUE, templates |-> <<"Iou">>],
  [id |-> "l1", name |-> "lib", user |-> TRUE, templates |-> <<"Lot">>],
  [id |-> "s1", name |-> "sys", user |-> FALSE, templates |-> <<"Iou">>]>>

MCAddresses == {[package |-> "lib", template |-> "Lot"],
                [package |-> Unnamed, template |-> "Gone"]}

MCLedger == <<
  [workflow |-> "w", trace |-> "t", span |-> 1, created |-> {1, 2}, used |-> {},
   seen |-> <<{"p"}, {"p", "q"}>>],
  [workflow |-> "w", trace |-> "t", span |-> 1, created |-> {}, used |-> {1},
   seen |-> <<{"q"}, {"p"}, {"q"}>>],
  [workflow |-> "none", trace |-> "t", span |-> 2, created |-> {}, used |-> {2},
   seen |-> <<{}>>]>>

\* A template with a choice of its own, whose argument has the name that the
\* record of a variant ends in, and Archive, whose argument is of another
\* package; and a template of a module with a type that has that name.
MCCompiled ==
  LET typed(name, type) == [name |-> name, type |-> type]
      record(name, fields) == [name |-> name, record |-> TRUE, fields |-> fields]
      choice(name) == [name |-> name, arg |-> Con(<<name>>)]
      party == typed("p", Basic("Party"))
  IN <<[name |-> <<"A", "B">>,
        types |-> <<record(<<"T">>, <<party, typed("u", Con(<<"U">>))>>),
                    record(<<"U", "Give">>, <<typed("n", Basic("Int64"))>>),
                    record(<<"Give">>, <<typed("to", Basic("Party"))>>),
                    [name |-> <<"U">>, record |-> FALSE, fields |-> <<>>]>>,
        templates |-> <<[name |-> <<"T">>, choices |-> <<choice("Give"), choice("Archive")>>]>>],
       [name |-> <<"C">>,
        types |-> <<record(<<"T">>, <<party>>), record(<<"Archive">>, <<typed("n", Basic("Text"))>>)>>,
        templates |-> <<[name |-> <<"T">>, choices |-> <<choice("Archive")>>]>>]>>

\* A create by one, an exercise of another's contract that returns what it
\* creates for both, and one that returns a value and fetches.
MCTraceable ==
  {[actAs |-> {"p"}, nodes |-> <<LfNode("create", InputContract, {"p"}, {}, NoId)>>],
   [actAs |-> {"p"},
    nodes |-> <<LfNode("consuming", InputContract, {"q"}, {"p"}, MadeContract),
                LfNode("create", MadeContract, {"p", "q"}, {}, NoId)>>],
   [actAs |-> {"p", "q"},
    nodes |-> <<LfNode("nonconsuming", InputContract, {"p"}, {"q"}, ReturnedValue),
                LfNode("fetch", OtherContract, {}, {}, NoId)>>]}

\* Two contracts on the first page of the list, one of them with the archival
\* no update was found for, and one on the second.
MCSheets == <<{"c", "d"}, {"f"}>>

MCHistories ==
  LET event(update, offset, children) ==
        [update |-> update, offset |-> offset, children |-> children]
      none == event(NoContract, FALSE, {})
  IN [c |-> [creation |-> event(NoContract, TRUE, {}), archived |-> FALSE,
             exercises |-> <<event("u", TRUE, {"e"})>>, archival |-> none],
      d |-> [creation |-> event("v", TRUE, {}), archived |-> TRUE,
             exercises |-> <<event("v", TRUE, {})>>, archival |-> none],
      f |-> [creation |-> none, archived |-> FALSE, exercises |-> <<>>,
             archival |-> none]]

\* Codes whose names suggest their category, another one or none, and a kind.
MCCodeNames == [
  CONTRACT_NOT_FOUND |-> [words |-> {"NOT_FOUND", "CONTRACT_NOT_FOUND"},
                          seeded |-> "InvalidGivenCurrentSystemStateResourceMissing"],
  MISSING_FIELD |-> [words |-> {"MISSING"}, seeded |-> "InvalidIndependentOfSystemState"],
  DAML_AUTHORIZATION_ERROR |-> [words |-> {"AUTH"}, seeded |-> "none"],
  CONTRACT_NOT_ACTIVE |-> [words |-> {"CONTRACT_NOT_ACTIVE"},
                           seeded |-> "ContentionOnSharedResources"]]

\* Each in Canton's format with a category of its own, one with an unknown one,
\* and messages of the transport.
MCFailures ==
  LET failure(canton, code, number, grpc, details) ==
        [canton |-> canton, code |-> code, number |-> number, grpc |-> grpc,
         details |-> details, seconds |-> 56]
      all == {"ErrorInfo", "RequestInfo", "RetryInfo", "ResourceInfo"}
  IN {failure(TRUE, "CONTRACT_NOT_FOUND", 4, 5, all),
      failure(TRUE, "MISSING_FIELD", 1, 3, {"ErrorInfo"}),
      failure(TRUE, "DAML_AUTHORIZATION_ERROR", 2, 7, {}),
      failure(TRUE, "CONTRACT_NOT_ACTIVE", 6, 10, {"RetryInfo"}),
      failure(TRUE, "CONTRACT_NOT_FOUND", 14, 5, {}),
      failure(FALSE, "none", 0, 13, {"RequestInfo"}),
      failure(FALSE, "none", 0, 4, {})}
=============================================================================
