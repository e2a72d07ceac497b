--------------------------- MODULE MCEventStream ---------------------------
(***************************************************************************)
(* Small instances of EventStream for TLC.  The filter "all" lets every    *)
(* update through; "some" is not served the first update (a template       *)
(* filter) and drops the last (an event-type filter).                      *)
(***************************************************************************)
EXTENDS EventStream

MCFilters == {"all", "some"}

MCServed == [f \in MCFilters |-> IF f = "all" THEN Offsets ELSE Offsets \ {1}]

MCPasses == [f \in MCFilters |-> IF f = "all" THEN Offsets ELSE Offsets \ {MaxOffset}]
=============================================================================
