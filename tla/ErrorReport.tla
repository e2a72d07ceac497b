----------------------------- MODULE ErrorReport -----------------------------
(***************************************************************************)
(* How a failure at the participant is told to the user.  A failed call    *)
(* (canton/services/shared.ts) or a failed completion becomes a            *)
(* CommandError (canton/errors.ts); a route puts it into its answer or     *)
(* throws it to the error handler; the errors tab opens it, with an        *)
(* explanation that GET /errors/:errorCode finds for its code              *)
(* (routes/errors.ts, error-detail.tsx), and the simulation tab sorts it   *)
(* into kinds (simulation-result.tsx).                                     *)
(*                                                                         *)
(* Names of codes are taken for the words that the code looks for in them. *)
(***************************************************************************)
EXTENDS Integers, Sequences, FiniteSets, Queries

CONSTANTS
  CodeNames,       \* the words in each error code, and its category in the migrations
  Failures,        \* what goes wrong at the participant
  MaxErrorRows,    \* bound: the failed completions that are listed
  MaxExplanations  \* bound: the questions for an explanation

NoName == "none"

\* A failed call has a gRPC code that is not OK, and one in Canton's format names
\* an error code.
ASSUME ErrorConstantsOK ==
  /\ {MaxErrorRows, MaxExplanations} \subseteq Nat
  /\ \A f \in Failures : f.grpc \in 1..16 /\ (f.canton => f.code \in DOMAIN CodeNames)

BareCode == "GRPC_n"        \* the code of a message in no Canton format

CategoryNames == <<
  "InvalidIndependentOfSystemState", "AuthInterceptorInvalidAuthenticationCredentials",
  "InvalidGivenCurrentSystemStateOther", "InvalidGivenCurrentSystemStateResourceMissing",
  "InvalidGivenCurrentSystemStateResourceExists", "ContentionOnSharedResources",
  "DeadlineExceededRequestStateUnknown", "TransientServerFailure",
  "SystemInternalAssumptionViolated", "MaliciousOrFaultyBehaviour",
  "InternalUnsupportedOperation">>

\* The gRPC codes of the categories, in the same order; 13 is that of two.
GrpcCodes == <<3, 7, 9, 5, 6, 10, 4, 14, 13, 13, 12>>

Unforeseen == "SystemInternalAssumptionViolated"

VARIABLES
  failures,     \* the completions of the list, and the call that failed last
  errorOpen,    \* expandedId: the command whose errors are open
  explanations, \* error-explanation of each code
  questions     \* how often an explanation was asked for

errorVars == <<failures, errorOpen, explanations, questions>>

-----------------------------------------------------------------------------
(***************************************************************************)
(* canton/errors.ts.                                                       *)
(***************************************************************************)

CategoryIdToErrorCategory(number) ==
  IF number \in DOMAIN CategoryNames THEN CategoryNames[number] ELSE NoName

GrpcCodeToCategory(code) ==
  LET of == {i \in DOMAIN GrpcCodes : GrpcCodes[i] = code}
  IN IF Cardinality(of) = 1 THEN CategoryNames[CHOOSE i \in of : TRUE] ELSE Unforeseen

\* The protobuf decoder takes every nested message for text, and a text for the
\* bytes of a message: a character that is no digit counts as 0.
CharBits(byte) == IF byte \in 48..57 THEN byte - 48 ELSE 0

\* decodeRetryInfo of a delay of so many seconds, a tag and a byte: the tag is
\* not read as field 1.
RetryDelay(seconds) ==
  LET tag == CharBits(8) IN IF tag \div 8 = 1 THEN CharBits(seconds) ELSE 0

\* parseStatusDetails.  A failed call has its details wrapped in a status, whose
\* type is not one of those looked for.
DetailsOf(f, source) == IF source = "completion" THEN f.details ELSE {}

\* grpcErrorToCommandError.
CommandErrorOf(f, source) ==
  LET category == CategoryIdToErrorCategory(f.number)
      kept == DetailsOf(f, source)
  IN [errorCodeId |-> IF f.canton THEN f.code ELSE BareCode,
      categoryId |-> IF ~f.canton THEN GrpcCodeToCategory(f.grpc)
                     ELSE IF category # NoName THEN category ELSE Unforeseen,
      grpcStatusCode |-> f.grpc,
      correlationId |->
        IF f.canton THEN "prefix"
        ELSE IF "RequestInfo" \in kept THEN "request"
        ELSE IF source = "call" THEN "header" ELSE NoName,
      retryDelaySeconds |-> IF "RetryInfo" \in kept THEN RetryDelay(f.seconds) ELSE -1,
      resourceInfo |-> "ResourceInfo" \in kept]

\* mapErrorToResponse, of the codes that are errors.
GrpcToHttpStatus ==
  [code \in 1..16 |->
     CASE code = 1 -> 499
       [] code \in {3, 9, 11} -> 400
       [] code = 4 -> 504
       [] code = 5 -> 404
       [] code \in {6, 10} -> 409
       [] code = 7 -> 403
       [] code = 8 -> 429
       [] code = 12 -> 501
       [] code = 14 -> 503
       [] code = 16 -> 401
       [] OTHER -> 500]

\* A simulation or an execution that fails at the participant is an answer, any
\* other route throws the error.
AnswerStatus(f, route) ==
  IF route \in {"simulate", "execute"} THEN 200 ELSE GrpcToHttpStatus[f.grpc]

-----------------------------------------------------------------------------
(***************************************************************************)
(* routes/errors.ts.                                                       *)
(***************************************************************************)

\* What the migrations create, and what the route asks for.
Tables == {"error_categories", "error_codes"}
Queried == "canton_errors"

KnowledgeBaseRow(code) ==
  IF Queried \in Tables THEN <<CodeNames[code].seeded>> ELSE Missing

GuessOrder == <<
  [words |-> {"AUTH", "PERMISSION", "TOKEN"}, category |-> 2],
  [words |-> {"CONTENTION", "CONFLICT"}, category |-> 6],
  [words |-> {"NOT_FOUND", "MISSING"}, category |-> 4],
  [words |-> {"ALREADY_EXISTS", "DUPLICATE"}, category |-> 5],
  [words |-> {"INVALID", "MALFORMED"}, category |-> 1],
  [words |-> {"TIMEOUT", "DEADLINE"}, category |-> 7],
  [words |-> {"UNSUPPORTED", "UNIMPLEMENTED"}, category |-> 11]>>

WordsOf(code) == IF code = BareCode THEN {} ELSE CodeNames[code].words

GuessCategory(code) ==
  LET hits == {i \in DOMAIN GuessOrder : GuessOrder[i].words \cap WordsOf(code) # {}}
      first == CHOOSE i \in hits : \A j \in hits : i <= j
  IN IF hits = {} THEN NoName ELSE CategoryNames[GuessOrder[first].category]

\* The errors tab names no category with its question: the category that is
\* explained, or nothing and the route answers 404.
Explanation(code) ==
  IF KnowledgeBaseRow(code) # Missing THEN Value(KnowledgeBaseRow(code))
  ELSE GuessCategory(code)

-----------------------------------------------------------------------------
(***************************************************************************)
(* The errors tab and the simulation tab.                                  *)
(***************************************************************************)

\* What is drawn of the detail of an error: the banners, whose explanation it
\* has if any, and whether Retry waits.
DetailShown(error, entry) ==
  [denied |-> error.grpcStatusCode = 7 \/ error.categoryId = CategoryNames[2],
   unknownState |-> error.categoryId = CategoryNames[7],
   explains |-> IF entry.data = Missing THEN NoName ELSE Value(entry.data),
   waits |-> error.retryDelaySeconds > 0]

\* classifyError.
ClassifyError(error) ==
  LET has(words) == words \cap WordsOf(error.errorCodeId) # {}
  IN IF \/ error.categoryId = CategoryNames[2]
        \/ has({"PERMISSION_DENIED", "UNAUTHENTICATED", "NOT_AUTHORIZED",
                "AUTHORIZATION_FAILED"}) THEN "auth"
     ELSE IF \/ error.categoryId = CategoryNames[4]
             \/ has({"CONTRACT_NOT_FOUND", "CONTRACT_NOT_ACTIVE",
                     "INCONSISTENT_CONTRACT_KEY"}) THEN "missing_contract"
     ELSE IF has({"TEMPLATE_PRECONDITION_VIOLATED", "ENSURE_FAILED",
                  "DAML_INTERPRETATION_ERROR"}) THEN "ensure_violation"
     ELSE "generic"

Codes == DOMAIN CodeNames \cup {BareCode}

OpenErrors ==
  {CommandErrorOf(failures.listed[i].failure, "completion") :
     i \in {j \in DOMAIN failures.listed : failures.listed[j].command = errorOpen}}

ErrorInit(on) ==
  /\ failures = [listed |-> <<>>, call |-> Missing, route |-> NoName]
  /\ errorOpen = NoName /\ explanations = [c \in Codes |-> NoEntry]
  /\ questions = IF on THEN 0 ELSE MaxExplanations

\* The details of these errors appear: each asks for an explanation that is not
\* there and not on its way.
Appear(errors) ==
  LET new == {c \in {e.errorCodeId : e \in errors} :
                explanations[c].data = Missing /\ ~IsFetching(explanations[c])}
  IN /\ questions' = questions + Cardinality(new) /\ questions' <= MaxExplanations
     /\ explanations' = [c \in Codes |->
          IF c \in new THEN FetchStarted(explanations[c], Explanation(c))
          ELSE explanations[c]]

\* A completion, of a new command or of one that was submitted again, which may
\* be open.
CompletionFails(f) ==
  /\ Len(failures.listed) < MaxErrorRows
  /\ \E c \in {"first", "second"} :
       /\ failures' = [failures EXCEPT !.listed = Append(@, [command |-> c, failure |-> f])]
       /\ Appear(IF c = errorOpen THEN {CommandErrorOf(f, "completion")} ELSE {})
  /\ UNCHANGED errorOpen

\* Bound: a call fails before any error is opened, or not at all.
FailedCall(f) ==
  /\ failures.call = Missing /\ questions = 0
  /\ \E route \in {"simulate", "execute", "other"} :
       failures' = [failures EXCEPT !.call = <<f>>, !.route = route]
  /\ UNCHANGED <<errorOpen, explanations, questions>>

\* toggleExpanded.
ToggleError ==
  /\ failures.call = Missing
  /\ \E i \in DOMAIN failures.listed :
       errorOpen' = IF errorOpen = failures.listed[i].command THEN NoName
                    ELSE failures.listed[i].command
  /\ UNCHANGED failures
  /\ Appear(OpenErrors')

\* The answer, or after one more try the failure: of the network, or because the
\* code has no explanation.
ExplanationAnswered ==
  /\ \E c \in Codes :
       /\ IsFetching(explanations[c])
       /\ \/ /\ explanations[c].flying # <<NoName>>
             /\ explanations' = [explanations EXCEPT ![c] = FetchSucceeded(@)]
          \/ explanations' = [explanations EXCEPT ![c] = FetchFailed(@)]
  /\ UNCHANGED <<failures, errorOpen, questions>>

ErrorNext ==
  \/ \E f \in Failures : CompletionFails(f) \/ FailedCall(f)
  \/ ToggleError \/ ExplanationAnswered

-----------------------------------------------------------------------------
ErrorTypeOK ==
  /\ failures.listed \in Seq([command : {"first", "second"}, failure : Failures])
  /\ errorOpen \in {NoName, "first", "second"} /\ questions \in 0..MaxExplanations
  /\ explanations \in [Codes -> Entries({CategoryNames[i] : i \in 1..11} \cup {NoName})]

\* A failure is told alike whichever way it came and wherever it is shown: the
\* call that failed and a completion of the same failure have the same code and
\* category, and the same correlation id if the message is Canton's; a route
\* that does not make it its answer refuses with a status of its own; the
\* simulation says "auth" where the errors tab shows its banner for a category
\* of the number.
ToldAlike ==
  failures.call # Missing =>
    LET call == CommandErrorOf(Value(failures.call), "call")
    IN /\ failures.route = "other" => AnswerStatus(Value(failures.call), "other") >= 400
       /\ call.categoryId = CategoryNames[2] => ClassifyError(call) = "auth"
       /\ \A i \in DOMAIN failures.listed :
            failures.listed[i].failure = Value(failures.call) =>
              LET told == CommandErrorOf(failures.listed[i].failure, "completion")
              IN /\ told.errorCodeId = call.errorCodeId
                 /\ told.categoryId = call.categoryId
                 /\ Value(failures.call).canton => told.correlationId = call.correlationId

\* The explanation under an open error is for its code.  It contradicts the
\* category above it only where the words of the code suggest another one, since
\* the knowledge base is asked for a table that no migration creates; and an
\* error without such words has none.  Retry never waits.
ExplainedByCode ==
  \A error \in OpenErrors :
    LET shown == DetailShown(error, explanations[error.errorCodeId])
    IN /\ shown.explains \in {NoName, GuessCategory(error.errorCodeId)}
       /\ shown.explains # NoName => WordsOf(error.errorCodeId) # {}
       /\ ~shown.waits

ErrorsExplained == ToldAlike /\ ExplainedByCode
=============================================================================
