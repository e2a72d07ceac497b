-------------------------------- MODULE Feed --------------------------------
(***************************************************************************)
(* What the event stream promises to whoever listens: a socket is opened   *)
(* at an offset of the ledger and then receives updates in the order of    *)
(* the ledger, none of them twice, and skips none that it is required to   *)
(* deliver, until it ends.  Calls, retries, timers and filters do not show.*)
(***************************************************************************)
EXTENDS Integers, Sequences

CONSTANTS
  Sockets,    \* the listeners
  Updates,    \* the offsets of the ledger's updates
  Required    \* the updates every listener must receive

VARIABLE feed   \* feed[s]: the socket's status, start and received updates

Unopened == [status |-> "unopened", after |-> 0, received |-> <<>>]

\* The offset of the last update received, or where the feed starts.
Position(f) ==
  IF f.received = <<>> THEN f.after ELSE f.received[Len(f.received)]

Init == feed = [s \in Sockets |-> Unopened]

\* A socket is opened after an offset, or refused (it ends at once).
Open(s, from, status) ==
  /\ feed[s].status = "unopened"
  /\ feed' = [feed EXCEPT ![s] = [status |-> status, after |-> from,
                                  received |-> <<>>]]

\* u comes later than everything received, with nothing required in between.
MayDeliver(f, u) ==
  /\ f.status = "open"
  /\ Position(f) < u
  /\ \A r \in Required : ~(Position(f) < r /\ r < u)

Deliver(s, u) ==
  /\ MayDeliver(feed[s], u)
  /\ feed' = [feed EXCEPT ![s].received = Append(feed[s].received, u)]

\* Some feeds end, several of them at once when their session goes away.
End ==
  \E S \in SUBSET Sockets :
    /\ \A s \in S : feed[s].status = "open"
    /\ feed' = [s \in Sockets |-> IF s \in S
                                  THEN [feed[s] EXCEPT !.status = "ended"]
                                  ELSE feed[s]]

Next ==
  \/ \E s \in Sockets, from \in Updates \cup {0}, status \in {"open", "ended"} :
       Open(s, from, status)
  \/ \E s \in Sockets, u \in Updates : Deliver(s, u)
  \/ End

Spec == Init /\ [][Next]_feed
=============================================================================
