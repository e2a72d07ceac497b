----------------------------- MODULE SandboxPage -----------------------------
(***************************************************************************)
(* The sandbox page (frontend/src/features/sandbox-manager/page.tsx) with  *)
(* the routes it calls.  The list of sandboxes is polled; an effect keeps  *)
(* one of them selected, another selects a created one when it is listed.  *)
(* Two dialogs delete and reset, a loop connects the browser, a panel      *)
(* uploads packages and allocates parties.  Handlers read the connection   *)
(* and the selection of the moment they were clicked, and go on when the   *)
(* user leaves the page.                                                   *)
(***************************************************************************)
EXTENDS Integers, Sequences, FiniteSets, Queries

CONSTANTS
  SandboxIds,   \* the sandboxes there will have been
  Demo,         \* those of them that are the demonstration sandbox
  MaxTries,     \* the attempts of handleConnect
  MaxMishaps    \* bound: clicks, polls and doings of others

NoSandbox == "none"

ASSUME SandboxPageConstantsOK == NoSandbox \notin SandboxIds /\ MaxTries \in Nat \ {0}

VARIABLES
  gate,     \* the sandboxes of the gateway, oldest first, with their status
  used,     \* identifiers given away
  conn,     \* config.sandboxId and status of the connection store
  view,     \* the state of the page
  asks,     \* the dialogs "delete" and "reset" with their mutations
  loops,    \* the running calls of handleConnect
  calls,    \* the uploads and allocations of the panel
  departed, \* mutations and calls of a page that was left since
  mishaps   \* of MaxMishaps

sandboxPageVars == <<gate, used, conn, view, asks, loops, calls, departed, mishaps>>

StatusIn(sandboxes, id) ==
  LET at == {i \in DOMAIN sandboxes : sandboxes[i].id = id}
  IN IF at = {} THEN "gone" ELSE sandboxes[CHOOSE i \in at : TRUE].status

IdsOf(sandboxes) == {sandboxes[i].id : i \in DOMAIN sandboxes}

\* No two sandboxes have the same id.
Without(sandboxes, id) ==
  LET i == CHOOSE i \in DOMAIN sandboxes : sandboxes[i].id = id
  IN SubSeq(sandboxes, 1, i - 1) \o SubSeq(sandboxes, i + 1, Len(sandboxes))

WithStatus(sandboxes, id, status) ==
  [i \in DOMAIN sandboxes |-> IF sandboxes[i].id = id
                              THEN [id |-> id, status |-> status] ELSE sandboxes[i]]

NoAsk == [dialog |-> NoSandbox, target |-> NoSandbox, failed |-> FALSE,
          connected |-> FALSE, selected |-> FALSE]
NoCall == [target |-> NoSandbox, entered |-> FALSE, done |-> FALSE]

NoAsks  == [kind \in {"delete", "reset"} |-> NoAsk]
NoCalls == [kind \in {"dar", "party"} |-> NoCall]

\* The page is left: what it waits for goes on, and the next page, whose hooks
\* are new, knows nothing of it.
PageLeft ==
  LET asked == {kind \in DOMAIN asks : asks[kind].target # NoSandbox}
      called == {kind \in DOMAIN calls : calls[kind].target # NoSandbox}
  IN /\ asks' = NoAsks /\ calls' = NoCalls
     /\ departed' = departed
          \cup {[kind |-> kind, target |-> asks[kind].target,
                 connected |-> asks[kind].connected] : kind \in asked}
          \cup {[kind |-> kind, target |-> calls[kind].target, connected |-> FALSE] :
                   kind \in called}

Mishap == mishaps < MaxMishaps /\ mishaps' = mishaps + 1

-----------------------------------------------------------------------------
(***************************************************************************)
(* What is drawn.                                                          *)
(***************************************************************************)

SandboxList(v) == IF v.list.data = Missing THEN <<>> ELSE Value(v.list.data)

AutoSelectedOnce(v, c) ==            \* mutant: a selection is never looked at again
  IF v.selected # NoSandbox THEN v
  ELSE [v EXCEPT !.selected =
          IF SandboxList(v) = <<>> THEN NoSandbox ELSE SandboxList(v)[1].id]

\* The effect that selects: the selection while it is listed, else the sandbox
\* of the connection, else the first.
AutoSelected(v, c) ==
  LET ids == IdsOf(SandboxList(v))
  IN [v EXCEPT !.selected = IF ids = {} \/ ~v.mounted THEN NoSandbox
                            ELSE IF @ \in ids THEN @
                            ELSE IF c.sandbox \in ids THEN c.sandbox
                            ELSE SandboxList(v)[1].id]

\* The effect on the list, which runs when an answer differs from the one before.
PendingSelected(v) ==
  IF v.pending \in IdsOf(SandboxList(v))
  THEN [v EXCEPT !.selected = v.pending, !.pending = NoSandbox] ELSE v

NewView == [mounted |-> TRUE, list |-> NoEntry, selected |-> NoSandbox, pending |-> NoSandbox,
            early |-> FALSE, connecting |-> FALSE, error |-> FALSE]

\* connect and disconnect of the store clear every query; a page that is shown
\* asks again.
QueriesCleared(v, sandboxes) ==
  [v EXCEPT !.list = IF v.mounted THEN FetchStarted(NoEntry, sandboxes) ELSE NoEntry,
            !.selected = NoSandbox]

Invalidate(v, sandboxes) ==
  IF v.mounted THEN [v EXCEPT !.list = FetchRestarted(@, sandboxes)] ELSE v

Disconnected == [sandbox |-> NoSandbox, status |-> "disconnected"]

-----------------------------------------------------------------------------
\* The gateway and other users: a sandbox is added, ready, broken or removed.
GatewayChanges ==
  /\ Mishap
  /\ \/ \E id \in SandboxIds \ used :
          /\ gate' = Append(gate, [id |-> id, status |-> "provisioning"])
          /\ used' = used \cup {id}
     \/ \E id \in IdsOf(gate) :
          /\ gate' \in {WithStatus(gate, id, "running"), WithStatus(gate, id, "error"),
                        Without(gate, id)}
          /\ UNCHANGED used
  /\ UNCHANGED <<conn, view, asks, loops, calls, departed>>

\* Every 10 s, on focus and on mount.
PollSandboxes ==
  /\ view.mounted /\ ~IsFetching(view.list) /\ Mishap
  /\ view' = [view EXCEPT !.list = FetchStarted(@, gate)]
  /\ UNCHANGED <<gate, used, conn, asks, loops, calls, departed>>

SandboxesListed ==
  /\ IsFetching(view.list)
  /\ LET v == [view EXCEPT !.list = FetchSucceeded(@)]
         w == IF v.list.data = view.list.data THEN v ELSE PendingSelected(v)
     IN view' \in {AutoSelected(w, conn), [view EXCEPT !.list = FetchFailed(@)]}
  /\ UNCHANGED <<gate, used, conn, asks, loops, calls, departed, mishaps>>

\* A modal dialog keeps the rest of the page from the user.
NoDialog == view.mounted /\ \A kind \in DOMAIN asks : asks[kind].dialog = NoSandbox

\* A click on a row; one on the selected row selects nothing, and the effect
\* selects again.
SelectSandbox ==
  /\ NoDialog /\ Mishap
  /\ \E id \in IdsOf(SandboxList(view)) :
       view' = AutoSelected([view EXCEPT !.selected = IF @ = id THEN NoSandbox ELSE id], conn)
  /\ UNCHANGED <<gate, used, conn, asks, loops, calls, departed>>

\* The form answers with the new sandbox, which a poll may have listed before.
\* The list handleCreated looks into is older than the sandbox.
CreateOnPage ==
  /\ NoDialog /\ Mishap
  /\ \E id \in (SandboxIds \ used)
                 \cup {s \in IdsOf(gate) : StatusIn(gate, s) = "provisioning"} :
       /\ gate' = IF id \in used THEN gate
                  ELSE Append(gate, [id |-> id, status |-> "provisioning"])
       /\ used' = used \cup {id}
       /\ view' = Invalidate([view EXCEPT !.pending = id,
                                !.early = id \in IdsOf(SandboxList(view))], gate')
  /\ UNCHANGED <<conn, asks, loops, calls, departed>>

\* The buttons of the header; the demonstration sandbox has none.
OpenDialog ==
  /\ NoDialog /\ Mishap /\ view.selected \notin {NoSandbox} \cup Demo
  /\ \E kind \in DOMAIN asks :
       /\ LET status == StatusIn(SandboxList(view), view.selected)
          IN IF kind = "delete" THEN status # "provisioning" ELSE status = "running"
       /\ asks' = [asks EXCEPT ![kind].dialog = view.selected]
  /\ UNCHANGED <<gate, used, conn, view, loops, calls, departed>>

\* The button that confirms, which is off while a mutation of the dialog runs,
\* and the one that cancels, which is not.
Confirm ==
  /\ view.mounted
  /\ \E kind \in DOMAIN asks :
       /\ asks[kind].dialog # NoSandbox
       /\ \/ /\ asks[kind].target = NoSandbox
             /\ asks' = [asks EXCEPT ![kind].target = asks[kind].dialog,
                           ![kind].failed = FALSE,
                           ![kind].connected = conn.sandbox = asks[kind].dialog,
                           ![kind].selected = view.selected = asks[kind].dialog]
          \/ asks' = [asks EXCEPT ![kind].dialog = NoSandbox, ![kind].failed = FALSE]
  /\ UNCHANGED <<gate, used, conn, view, loops, calls, departed, mishaps>>

\* A sandbox is deleted at the gateway, the page being left as v; the page that
\* was connected to it when the user confirmed disconnects.
Deleted(id, connected, v) ==
  /\ id \in IdsOf(gate)
  /\ gate' = Without(gate, id)
  /\ conn' = IF connected THEN Disconnected ELSE conn
  /\ view' = IF connected THEN QueriesCleared(v, gate')
             ELSE AutoSelected(Invalidate(v, gate'), conn)

ResetAt(id) ==
  /\ StatusIn(gate, id) = "running"
  /\ gate' = WithStatus(gate, id, "provisioning")
  /\ view' = Invalidate(view, gate')
  /\ UNCHANGED conn

\* deleteSandbox and resetSandbox succeed or fail.  A success closes whichever
\* dialog of its kind is open by then.
DeletedOrReset ==
  \E kind \in DOMAIN asks :
    LET ask == asks[kind]
        done(error) == [asks EXCEPT ![kind].target = NoSandbox, ![kind].failed = error,
                          ![kind].dialog = IF error THEN ask.dialog ELSE NoSandbox]
        pick == IF ask.selected THEN NoSandbox ELSE view.selected
    IN /\ ask.target # NoSandbox
       /\ \/ asks' = done(TRUE) /\ UNCHANGED <<gate, conn, view>>
          \/ /\ kind = "delete" /\ asks' = done(FALSE)
             /\ Deleted(ask.target, ask.connected, [view EXCEPT !.selected = pick])
          \/ kind = "reset" /\ asks' = done(FALSE) /\ ResetAt(ask.target)
       /\ UNCHANGED <<used, loops, calls, departed, mishaps>>

\* The same and the ends of calls for a page that was left.
DepartedAnswered ==
  \E d \in departed :
    /\ departed' = departed \ {d}
    /\ \/ UNCHANGED <<gate, conn, view>>
       \/ d.kind = "delete" /\ Deleted(d.target, d.connected, view)
       \/ d.kind = "reset" /\ ResetAt(d.target)
       \/ /\ d.kind \in DOMAIN calls /\ StatusIn(gate, d.target) = "running"
          /\ view' = Invalidate(view, gate) /\ UNCHANGED <<gate, conn>>
    /\ UNCHANGED <<used, asks, loops, calls, mishaps>>

-----------------------------------------------------------------------------
\* handleConnect.
HandleConnect ==
  /\ NoDialog /\ Mishap /\ ~view.connecting
  /\ StatusIn(SandboxList(view), view.selected) = "running"
  /\ ~(conn.sandbox = view.selected /\ conn.status = "connected")
  /\ conn' = Disconnected
  /\ view' = [QueriesCleared(view, gate) EXCEPT !.connecting = TRUE, !.error = FALSE]
  /\ loops' = loops \cup {[id |-> view.selected, tries |-> 0, asked |-> FALSE, here |-> TRUE]}
  /\ UNCHANGED <<gate, used, asks, calls, departed>>

\* An attempt after its pause, and its answer; the first that succeeds leaves
\* for the dashboard, one that cannot be retried is the last.
Attempt ==
  \E l \in loops :
    /\ ~l.asked
    /\ loops' = (loops \ {l}) \cup {[l EXCEPT !.asked = TRUE, !.tries = @ + 1]}
    /\ conn' = [sandbox |-> l.id, status |-> "connecting"]
    /\ view' = AutoSelected(view, conn')
    /\ UNCHANGED <<gate, used, asks, calls, departed, mishaps>>

ConnectAnswered ==
  \E l \in loops :
    /\ l.asked
    /\ \/ /\ StatusIn(gate, l.id) = "running"
          /\ conn' = [conn EXCEPT !.status = "connected"]
          /\ loops' = {[m EXCEPT !.here = FALSE] : m \in loops \ {l}}
          /\ view' = [NewView EXCEPT !.mounted = FALSE]
          /\ PageLeft
       \/ /\ conn' = [conn EXCEPT !.status = "error"] /\ UNCHANGED <<asks, calls, departed>>
          /\ \/ /\ l.tries < MaxTries /\ UNCHANGED view
                /\ loops' = (loops \ {l}) \cup {[l EXCEPT !.asked = FALSE]}
             \/ /\ loops' = loops \ {l}
                /\ view' = IF l.here THEN [view EXCEPT !.connecting = FALSE, !.error = TRUE]
                           ELSE view
    /\ UNCHANGED <<gate, used, mishaps>>

\* The user leaves for another page and comes back to a new one.
LeaveOrReturn ==
  /\ NoDialog \/ ~view.mounted
  /\ Mishap
  /\ view' = IF view.mounted THEN [NewView EXCEPT !.mounted = FALSE, !.list = view.list]
             ELSE AutoSelected([NewView EXCEPT !.list = FetchStarted(view.list, gate)], conn)
  /\ loops' = {[l EXCEPT !.here = FALSE] : l \in loops}
  /\ PageLeft
  /\ UNCHANGED <<gate, used, conn>>

-----------------------------------------------------------------------------
\* DarUpload and PartiesTab, which are the same for every sandbox selected: a
\* file is chosen and sent to the sandbox shown, a name is typed and sent.
Submit ==
  /\ NoDialog /\ view.selected # NoSandbox /\ Mishap
  /\ \E kind \in DOMAIN calls :
       /\ calls[kind].target = NoSandbox
       /\ kind = "party" => StatusIn(SandboxList(view), view.selected) = "running"
       /\ calls' = [calls EXCEPT ![kind].target = view.selected, ![kind].entered = TRUE]
  /\ UNCHANGED <<gate, used, conn, view, asks, loops, departed>>

\* An effect clears the file when an upload ends after one that succeeded, the
\* handler the name after a success.
Submitted ==
  \E kind \in DOMAIN calls :
    /\ calls[kind].target # NoSandbox
    /\ \/ /\ StatusIn(gate, calls[kind].target) = "running"
          /\ calls' = [calls EXCEPT ![kind] =
                         [target |-> NoSandbox, entered |-> FALSE, done |-> TRUE]]
          /\ view' = Invalidate(view, gate)
       \/ /\ calls' = [calls EXCEPT ![kind].target = NoSandbox,
                         ![kind].entered = @ /\ ~(kind = "dar" /\ calls[kind].done)]
          /\ UNCHANGED view
    /\ UNCHANGED <<gate, used, conn, asks, loops, departed, mishaps>>

SandboxPageInit(open) ==
  /\ gate \in {<<>>} \cup (IF open THEN {<<[id |-> id, status |-> "running"]>> : id \in SandboxIds}
                          ELSE {})
  /\ used = IdsOf(gate) /\ conn = Disconnected
  /\ view = [NewView EXCEPT !.list = FetchStarted(NoEntry, gate)]
  /\ asks = NoAsks /\ calls = NoCalls
  /\ loops = {} /\ departed = {} /\ mishaps = 0

SandboxPageNext ==
  \/ GatewayChanges \/ PollSandboxes \/ SandboxesListed \/ SelectSandbox \/ CreateOnPage
  \/ OpenDialog \/ Confirm \/ DeletedOrReset \/ DepartedAnswered
  \/ HandleConnect \/ Attempt \/ ConnectAnswered \/ LeaveOrReturn \/ Submit \/ Submitted

-----------------------------------------------------------------------------
Named == SandboxIds \cup {NoSandbox}

SandboxPageTypeOK ==
  /\ IdsOf(gate) \subseteq used /\ used \subseteq SandboxIds
  /\ conn \in [sandbox : Named,
              status : {"disconnected", "connecting", "connected", "error"}]
  /\ {view.selected, view.pending} \subseteq Named
  /\ {view.mounted, view.early, view.connecting, view.error} \subseteq BOOLEAN
  /\ asks \in [{"delete", "reset"} ->
                 [dialog : Named, target : Named, failed : BOOLEAN,
                  connected : BOOLEAN, selected : BOOLEAN]]
  /\ loops \subseteq [id : SandboxIds, tries : 0..MaxTries, asked : BOOLEAN, here : BOOLEAN]
  /\ calls \in [{"dar", "party"} -> [target : Named, entered : BOOLEAN, done : BOOLEAN]]

\* The panel is never left on a sandbox the list no longer has, nor empty beside
\* a list that has one, whatever was deleted, created, connected or answered
\* late; a created sandbox waits to be selected only until it is listed, unless
\* it was listed before the page knew it was its own; and a page that shows
\* itself connecting has a loop that will say how it ended.
SandboxSelected ==
  view.mounted =>
    /\ IF SandboxList(view) = <<>> THEN view.selected = NoSandbox
       ELSE view.selected \in IdsOf(SandboxList(view))
    /\ view.pending \in IdsOf(SandboxList(view)) => view.early
    /\ view.connecting => \E l \in loops : l.here

-----------------------------------------------------------------------------
(***************************************************************************)
(* The inductive invariant behind it.                                      *)
(***************************************************************************)

SandboxPageStart == \E open \in BOOLEAN : SandboxPageInit(open)
SandboxPageSpec == SandboxPageStart /\ [][SandboxPageNext]_sandboxPageVars

SandboxRows(ids) == [id : ids, status : {"provisioning", "running", "error"}]

Listings == Seq(Seq(SandboxRows(SandboxIds)))

View == [mounted : BOOLEAN, list : [data : Listings, flying : Listings, failed : BOOLEAN],
         selected : Named, pending : Named, early : BOOLEAN, connecting : BOOLEAN,
         error : BOOLEAN]

SandboxPageInv ==
  /\ SandboxPageTypeOK /\ SandboxSelected
  /\ gate \in Seq(SandboxRows(used)) /\ view \in View
  /\ \A l \in loops : l.asked \/ l.tries < MaxTries
=============================================================================
