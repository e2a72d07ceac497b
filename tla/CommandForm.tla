---------------------------- MODULE CommandForm ----------------------------
(***************************************************************************)
(* The form of the debugger (command-builder.tsx) and the store that keeps *)
(* it while the user is on other pages (debugger-store.ts).  What a field  *)
(* offers depends on the fields before it, so changing one must reset the  *)
(* ones after it; this is done by effects, which also run when the form is *)
(* opened, and which a value from the URL switches off.                    *)
(***************************************************************************)
EXTENDS Integers, FiniteSets

CONSTANTS
  Catalog,       \* the choices of every template of every package
  PackageNames,  \* the name of every package; versions share one
  NoValue        \* an empty field

Packages == DOMAIN Catalog

ASSUME CatalogOK ==
  /\ NoValue \notin Packages
  /\ \A p \in Packages : \A t \in DOMAIN Catalog[p] :
       NoValue \notin {t} \cup Catalog[p][t]

VARIABLES
  link,     \* the last URL with values
  form,     \* the fields, when the form is open, and the URL it was opened at
  storeForm,    \* useDebuggerStore's form
  listed,   \* the list of packages, empty until it has arrived
  loaded,   \* the packages whose templates have arrived
  moved     \* whether a package or a template that was selected has been
            \* replaced since the form was opened

formVars == <<link, form, storeForm, listed, loaded, moved>>

NoUrl == [package |-> NoValue, template |-> NoValue, choice |-> NoValue,
          contract |-> NoValue]

\* A contract is told apart by its template; one that is entered while the form
\* does not know its template may be of any.
AnyContract == <<>>

UrlOf(p, t, c, contract) ==
  [package |-> p, template |-> t, choice |-> c, contract |-> contract]

\* The template explorer links to a choice.  A contract links to the debugger
\* with itself, its template and its package, a transaction with the choice of
\* its root exercise as well.
ExplorerLinks ==
  UNION {UNION {{UrlOf(p, t, c, NoValue) : c \in Catalog[p][t]} :
                t \in DOMAIN Catalog[p]} : p \in Packages}

FormLinks == ExplorerLinks \cup
  UNION {UNION {{UrlOf(p, t, c, <<p, t>>) : c \in {NoValue} \cup Catalog[p][t]} :
                t \in DOMAIN Catalog[p]} : p \in Packages}

\* The arguments by what they were typed for: none, one command, or several.
NoArgs == <<>>
Mixed  == <<NoValue>>

Fields == {"package", "template", "choice", "contract", "args"}

EmptyForm == [f \in Fields |-> IF f = "args" THEN NoArgs ELSE NoValue]

Closed == [open |-> FALSE, url |-> NoUrl, now |-> EmptyForm]

FormInit ==
  /\ link = NoUrl /\ form = Closed /\ storeForm = EmptyForm
  /\ listed = {} /\ loaded = {} /\ moved = FALSE

-----------------------------------------------------------------------------
(***************************************************************************)
(* Setters and effects.  A step of the form is what it shows and what is   *)
(* stored; every setter changes both.                                      *)
(***************************************************************************)

Set(step, changes) ==
  [shown  |-> [f \in Fields |-> IF f \in DOMAIN changes THEN changes[f]
                                                        ELSE step.shown[f]],
   stored |-> [f \in Fields |-> IF f \in DOMAIN changes THEN changes[f]
                                                        ELSE step.stored[f]]]

\* The effects of a new package, of a new template and of a new choice.
PackageEffect(url, step) ==
  IF url.template # NoValue THEN step
  ELSE Set(step, [template |-> NoValue, choice |-> NoValue, args |-> NoArgs])

TemplateKept(url, step) == step          \* mutant: the choice is not reset

TemplateEffect(url, step) ==
  IF url.choice # NoValue THEN step
  ELSE Set(step, [choice |-> NoValue, args |-> NoArgs])

ChoiceEffect(step) == Set(step, [args |-> NoArgs])

\* The effects that run because a field differs from what it was, each after
\* the ones that may have changed it.
AfterTemplate(url, before, step) ==
  LET one == IF step.shown.template # before.template
             THEN TemplateEffect(url, step) ELSE step
  IN IF one.shown.choice # before.choice THEN ChoiceEffect(one) ELSE one

AfterPackage(url, before, step) ==
  AfterTemplate(url, before, IF step.shown.package # before.package
                             THEN PackageEffect(url, step) ELSE step)

\* With a URL a package is selected for the user, unless one is that is listed:
\* the first with the name the URL has or, if there is none, the first.  Which
\* is first is left open.
AutoSelect(url, known, step) ==
  IF url = NoUrl \/ known = {} \/ step.shown.package \in known THEN {step}
  ELSE LET named == {p \in known : PackageNames[p] = PackageNames[url.package]}
       IN {Set(step, [package |-> p]) : p \in IF named # {} THEN named ELSE known}

-----------------------------------------------------------------------------
\* The form opens with the fields of the URL, then of the store, and all the
\* effects run.  None of them resets the contract.
FirstMount(url, store) ==
  [shown |-> [f \in Fields |->
                IF f \in {"template", "choice", "contract"} /\ url[f] # NoValue
                THEN url[f] ELSE store[f]], stored |-> store]

Opened(url, step) == ChoiceEffect(TemplateEffect(url, PackageEffect(url, step)))

Show(url, step) ==
  /\ form' = [open |-> TRUE, url |-> url, now |-> step.shown]
  /\ storeForm' = step.stored

OpenForm(url, store, known) ==
  \E step \in AutoSelect(url, known, FirstMount(url, store)) :
    Show(url, Opened(url, step)) /\ moved' = FALSE

\* The browser loads the page: every store is empty.  If the form is open this
\* is as if the user had left it before.
LoadPage(url) ==
  /\ ~form.open
  /\ link' = url
  /\ OpenForm(url, EmptyForm, {})
  /\ listed' = {} /\ loaded' = {}

\* The user goes to another page of the application,
LeaveForm ==
  /\ form.open
  /\ form' = Closed
  /\ UNCHANGED <<link, storeForm, listed, loaded, moved>>

\* and comes back, by the menu, with the browser's back button,
ReturnToForm ==
  /\ ~form.open
  /\ \E url \in {NoUrl, link} : OpenForm(url, storeForm, listed)
  /\ UNCHANGED <<link, listed, loaded>>

\* or from the template explorer; the stores are kept.
FollowLink(url) ==
  /\ ~form.open
  /\ link' = url
  /\ OpenForm(url, storeForm, listed)
  /\ UNCHANGED <<listed, loaded>>

NowStep == [shown |-> form.now, stored |-> storeForm]

\* GET /packages is answered, the first time or again.  A package that was
\* selected may be gone from the list of another ledger.
PackagesListed ==
  /\ listed' \in SUBSET Packages \ {{}, listed}
  /\ IF form.open
     THEN \E step \in AutoSelect(form.url, listed', NowStep) :
            /\ Show(form.url, AfterPackage(form.url, form.now, step))
            /\ moved' = (moved \/ form.now.package \notin {NoValue, step.shown.package})
     ELSE UNCHANGED <<form, storeForm, moved>>
  /\ UNCHANGED <<link, loaded>>

\* GET /packages/:id/templates is answered for the package that is selected.
DetailLoaded ==
  /\ form.open /\ form.now.package \notin loaded \cup {NoValue}
  /\ loaded' = loaded \cup {form.now.package}
  /\ UNCHANGED <<link, form, storeForm, listed, moved>>

SelectPackage(p) ==
  /\ form.open /\ p \in listed \ {form.now.package}
  /\ Show(form.url, AfterPackage(form.url, form.now,
                                 Set(NowStep, [package |-> p])))
  /\ moved' = TRUE
  /\ UNCHANGED <<link, listed, loaded>>

\* currentTemplate: the selected template, in the detail of the package.
TemplateKnown ==
  /\ form.open /\ form.now.package \in loaded
  /\ form.now.template \in DOMAIN Catalog[form.now.package]

SelectTemplate(t) ==
  /\ form.open /\ form.now.package \in loaded
  /\ t \in DOMAIN Catalog[form.now.package] \ {form.now.template}
  /\ Show(form.url, AfterTemplate(form.url, form.now,
                                  Set(NowStep, [template |-> t])))
  /\ moved' = TRUE
  /\ UNCHANGED <<link, listed, loaded>>

Offered == Catalog[form.now.package][form.now.template] \cup {NoValue}

SelectChoice(c) ==
  /\ TemplateKnown /\ c \in Offered \ {form.now.choice}
  /\ Show(form.url, ChoiceEffect(Set(NowStep, [choice |-> c])))
  /\ UNCHANGED <<link, listed, loaded, moved>>

\* The combobox is there when a choice is selected.  It offers the contracts of
\* the template if that is known, else all; the user may also clear it.
EnterContract ==
  /\ form.open /\ form.now.choice # NoValue
  /\ \E c \in {NoValue, IF TemplateKnown THEN <<form.now.package, form.now.template>>
                                         ELSE AnyContract} :
       Show(form.url, Set(NowStep, [contract |-> c]))
  /\ UNCHANGED <<link, listed, loaded, moved>>

\* What the arguments are typed for.
Context == <<form.now.package, form.now.template, form.now.choice>>

\* An argument is typed into the fields of the choice, or of the template for a
\* create; the other arguments stay.
TypeArgument ==
  /\ TemplateKnown /\ form.now.choice \in Offered
  /\ Show(form.url, Set(NowStep, [args |->
            IF form.now.args \in {NoArgs, Context} THEN Context ELSE Mixed]))
  /\ UNCHANGED <<link, listed, loaded, moved>>

FormNext ==
  \/ \E url \in {NoUrl} \cup FormLinks : LoadPage(url)
  \/ LeaveForm \/ ReturnToForm \/ PackagesListed \/ DetailLoaded \/ TypeArgument
  \/ EnterContract
  \/ \E url \in ExplorerLinks : FollowLink(url)
  \/ \E p \in Packages : SelectPackage(p)
  \/ \E t \in UNION {DOMAIN Catalog[p] : p \in Packages} : SelectTemplate(t)
  \/ \E c \in UNION {UNION {Catalog[p][t] : t \in DOMAIN Catalog[p]} : p \in Packages}
               \cup {NoValue} : SelectChoice(c)

-----------------------------------------------------------------------------
FormTypeOK ==
  /\ link \in {NoUrl} \cup FormLinks
  /\ form.url \in {NoUrl, link}
  /\ \A f \in {form.now, storeForm} : f.package \in Packages \cup {NoValue}
  /\ listed \subseteq Packages /\ moved \in BOOLEAN /\ loaded \subseteq Packages

\* The URL switches no effect off, or the form is as the URL filled it.
Undisturbed ==
  form.url = NoUrl \/ (~moved /\ form.now.package = form.url.package)

\* The choice and the arguments that Simulate, Trace and Execute send, when the
\* form lets them, are of one template: the choice is the template's (or none is
\* selected) and the arguments were typed for exactly that.  This needs every
\* effect, also those that run when the form opens, since what is stored may be
\* of another template than the URL's.  If the form was opened from a contract
\* or a transaction, the contract is of that template too.
\*
\* It is not so, and not claimed, once values from a URL have switched the
\* effects off and the package or the template was replaced, or another package
\* than the URL's was selected to begin with.  Of the contract nothing is claimed
\* in other forms, since no effect ever resets it; with a choice and no contract
\* what is sent is a create with the arguments of the choice.
FormCoherent ==
  TemplateKnown /\ Undisturbed =>
    /\ form.now.choice \in Offered
    /\ form.now.args \in {NoArgs, Context}
    /\ form.url.contract # NoValue =>
         form.now.contract \in {NoValue, AnyContract,
                                <<form.now.package, form.now.template>>}

-----------------------------------------------------------------------------
(***************************************************************************)
(* The inductive invariant behind it, which does not ask whether a package *)
(* has been loaded: it may be at any time.                                 *)
(***************************************************************************)

FormSpec == FormInit /\ [][FormNext]_formVars

\* A form without values from a URL.
Fitting ==
  form.now.package \in Packages
    /\ form.now.template \in DOMAIN Catalog[form.now.package]
  => form.now.choice \in Offered /\ form.now.args \in {NoArgs, Context}

\* A form as its URL filled it.
Linked ==
  LET url == form.url
  IN /\ form.now.template = url.template
     /\ form.now.package \in {NoValue, url.package} =>
          /\ form.now.choice \in Catalog[url.package][url.template] \cup {NoValue}
          /\ form.now.args \in {NoArgs, Context}
          /\ form.now.package = NoValue => form.now.args = NoArgs
          /\ url.contract # NoValue =>
               form.now.contract \in {NoValue, AnyContract,
                                      <<url.package, url.template>>}

FormInv ==
  /\ FormTypeOK
  /\ form.open /\ form.url = NoUrl => Fitting
  /\ form.open /\ form.url # NoUrl /\ ~moved => Linked
=============================================================================
