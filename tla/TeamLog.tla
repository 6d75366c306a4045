------------------------------- MODULE TeamLog -------------------------------
(***************************************************************************)
(* The team's event log (tools/team-log) and the slice files it speaks of  *)
(* (docs/slices).  The log is append-only and has one writer at a time;    *)
(* everybody else reads it: which findings are open, what is owed by which *)
(* slice, what CI said.                                                    *)
(*                                                                         *)
(* A record has the fields its readers look at; wording and actors nobody  *)
(* compares are left out.  Time is a clock that ticks with every append    *)
(* and with every thing that ends; a record may carry any other time.      *)
(*                                                                         *)
(* Bounds: MaxRecords records, MaxEdits edits of slice files.              *)
(***************************************************************************)
EXTENDS Integers, Sequences, FiniteSets

CONSTANTS
  Slices,        \* ids that have a file in docs/slices
  NoSlice,       \* an id without one
  Refs,          \* findings
  Offered,       \* the batches somebody may try to append
  Texts,         \* what an edit may leave in a slice file
  Folds,         \* <<s, t>>: s may be folded into t
  RequiredFrom,  \* the instant after which a deferral names its destination
  MaxTime,       \* how far from its beginning the clock's times reach
  MaxRecords, MaxEdits,
  None

(* A batch is a list; what its records say is for the schema to judge.     *)
ASSUME OfferedAssumption ==
  \A batch \in Offered : batch \in Seq({batch[n] : n \in DOMAIN batch})
ASSUME MaxTimeAssumption == MaxTime \in Nat

VARIABLES
  log,    \* the records, in file order
  file,   \* the slice files
  clock, edits

logVars == <<log, file, clock, edits>>

(* A slice file as Gate C leaves it: what it inherits, the refs each       *)
(* bullet of its inherited scope cites, its kind of gate, the arc42        *)
(* sections it declares, and whether it has acceptance criteria and        *)
(* quality scenarios.                                                      *)
Blank == [inherits |-> {}, bullets |-> None, light |-> FALSE, declared |-> {},
          criteria |-> TRUE, scenarios |-> TRUE]

LogInit ==
  /\ log = <<>> /\ clock = 0 /\ edits = 0
  /\ file = [s \in Slices |-> [status |-> "ready", folded |-> None, text |-> Blank]]

-----------------------------------------------------------------------------
(* Where a deferral may go.                                                *)

NonSliceDestinations == {"backlog", "retro", "gate", "human"}
SliceIds == Slices \cup {NoSlice}

(* The slice that holds the work of s now, None if the folds lead nowhere. *)
(* As many hops as there are slices is a cycle.                            *)
Resolved(s) ==
  LET Hop(t) == IF t \in Slices /\ file[t].folded # None THEN file[t].folded ELSE t
      at[n \in 0 .. Cardinality(Slices)] == IF n = 0 THEN s ELSE Hop(at[n - 1])
      end == at[Cardinality(Slices)]
  IN  IF end \in Slices /\ Hop(end) = end THEN end ELSE None

Destinations(r) == IF "deferred_to" \in DOMAIN r THEN r.deferred_to ELSE {}

(* Every slice named is itself the one that does the work.                 *)
CheckDestinations(r) == \A d \in Destinations(r) \cap SliceIds : Resolved(d) = d

-----------------------------------------------------------------------------
(* The schema.                                                             *)

(* The fields each event requires, of those modelled.                      *)
Events ==
  [finding_raised   |-> {"ref", "severity"},
   finding_ruled    |-> {"ref", "verdict"},
   finding_resolved |-> {"ref"},
   finding_routed   |-> {"ref", "deferred_to"},
   review_response  |-> {"ref", "resolution"},
   dcr_raised       |-> {},
   dcr_resolved     |-> {"ruling"},
   loopback         |-> {},
   agent_finish     |-> {"actor"},
   gate_decided     |-> {"gate", "decision"},
   arc42_updated    |-> {},
   check_run        |-> {"checks"}]

Verdicts == {"accepted", "narrowed", "rejected", "deferred", "escalated"}

(* A destination named, and each a slice id or one of the closed set.      *)
Named(r) == Destinations(r) # {} /\ Destinations(r) \subseteq SliceIds \cup NonSliceDestinations

(* The times a Date can be, past or future.                                *)
Instants == -MaxTime .. MaxTime

Valid(r) ==
  /\ {"ts", "event", "slice", "source"} \subseteq DOMAIN r
  /\ r.ts \in Instants
  /\ r.event \in DOMAIN Events /\ Events[r.event] \subseteq DOMAIN r
  /\ r.source \in {"derived", "reported", "narrated"}
  /\ r.event = "finding_raised" => r.severity \in {"BLOCKING", "MAJOR", "MINOR"}
  /\ r.event = "finding_ruled" =>
       /\ r.verdict \in Verdicts
       /\ r.verdict = "deferred" /\ r.ts > RequiredFrom => Named(r)
  /\ r.event = "finding_routed" => Named(r)
  /\ r.event = "review_response" => r.resolution \in {"fixed", "disputed", "accepted", "deferred"}
  /\ r.event = "dcr_resolved" =>
       /\ r.ruling \in {"a", "b", "c", "d"}
       /\ r.ruling = "c" => "failing_criterion" \in DOMAIN r

-----------------------------------------------------------------------------
(* Appending.                                                              *)

Filled(r, defaults) ==
  [x \in DOMAIN r \cup DOMAIN defaults |-> IF x \in DOMAIN r THEN r[x] ELSE defaults[x]]

(* A record that carries no time gets the present one, and an agent's      *)
(* record that names no span the next number of its slice and role: one    *)
(* more than the records whose span has that stem, whatever their event    *)
(* and whoever named it.  The other records carry ids of their own.        *)
Normalized(r, prior) ==
  LET stem == <<r.slice, r.actor>>
      same == {i \in DOMAIN prior : "span" \in DOMAIN prior[i] /\ prior[i].span.of = stem}
  IN  Filled(r, IF "actor" \in DOMAIN r
                THEN [ts |-> clock + 1, span |-> [of |-> stem, n |-> Cardinality(same) + 1]]
                ELSE [ts |-> clock + 1])

NormalizedAll(batch) ==
  [n \in 1 .. Len(batch) |-> Normalized(batch[n], log \o SubSeq(batch, 1, n - 1))]

(* All of the batch or, if one record is refused, none.  Only a collector  *)
(* may call its records derived.  Mutant: the first one is looked at only.  *)
AppendLeading(batch, allowDerived) ==
  LET records == NormalizedAll(batch)
      fine(i) == /\ records[i].source = "derived" => allowDerived
                 /\ CheckDestinations(records[i])
  IN  /\ Len(log) + Len(batch) <= MaxRecords
      /\ \A i \in DOMAIN records : fine(i)
      /\ Valid(records[1])
      /\ log' = log \o records
      /\ clock' = clock + 1
AppendRecords(batch, allowDerived) ==
  LET records == NormalizedAll(batch)
  IN  /\ Len(log) + Len(batch) <= MaxRecords
      /\ \A i \in DOMAIN records :
           /\ records[i].source = "derived" => allowDerived
           /\ Valid(records[i]) /\ CheckDestinations(records[i])
      /\ log' = log \o records
      /\ clock' = clock + 1

-----------------------------------------------------------------------------
(* The orchestrator's steps.                                               *)

AppendBatch(batch) == AppendRecords(batch, FALSE) /\ UNCHANGED <<file, edits>>

(* A slice file that is no tombstone is edited.                            *)
Edit(s) ==
  /\ edits < MaxEdits /\ file[s].folded = None
  /\ \E text \in Texts : file' = [file EXCEPT ![s].text = text]
  /\ edits' = edits + 1
  /\ UNCHANGED <<log, clock>>

Fold(s, t) ==
  /\ <<s, t>> \in Folds /\ file[s].folded = None /\ file[s].status # "done"
  /\ file' = [file EXCEPT ![s].folded = t]
  /\ UNCHANGED <<log, clock, edits>>

(* slice:close: some gate of the slice said exactly "approved".            *)
Close(s) ==
  /\ file[s].folded = None /\ file[s].status # "done"
  /\ \E i \in DOMAIN log : /\ log[i].event = "gate_decided" /\ log[i].slice = s
                           /\ log[i].decision = "approved"
  /\ file' = [file EXCEPT ![s].status = "done"]
  /\ UNCHANGED <<log, clock, edits>>

LogNext ==
  \/ \E batch \in Offered : AppendBatch(batch)
  \/ \E s \in Slices : Edit(s) \/ Close(s) \/ (\E t \in Slices : Fold(s, t))

-----------------------------------------------------------------------------
(* Reading: by time and, among equals, by place in the file.               *)

Later(i, j) == log[i].ts > log[j].ts \/ (log[i].ts = log[j].ts /\ i > j)

Newest(I) == CHOOSE i \in I : \A j \in I \ {i} : Later(i, j)
Oldest(I) == CHOOSE i \in I : \A j \in I \ {i} : Later(j, i)

Span(s, events) == {i \in DOMAIN log : log[i].slice = s /\ log[i].event \in events}
RefsOf(I) == {log[i].ref : i \in I}

Sending(r, event) ==
  {i \in DOMAIN log : /\ log[i].event = event /\ log[i].ref = r
                      /\ event = "finding_ruled" => log[i].verdict = "deferred"
                      /\ Destinations(log[i]) # {}}

(* deferralMap: where r went is what its last ruling with a destination    *)
(* says, else its last routing.  Mutant: what its first ruling said.       *)
WentFirst(r) ==
  LET ruled == Sending(r, "finding_ruled")  routed == Sending(r, "finding_routed")
  IN  CASE ruled # {}  -> log[Oldest(ruled)].deferred_to
        [] ruled = {} /\ routed # {} -> log[Newest(routed)].deferred_to
        [] OTHER -> {}
Went(r) ==
  LET ruled == Sending(r, "finding_ruled")  routed == Sending(r, "finding_routed")
  IN  CASE ruled # {}  -> log[Newest(ruled)].deferred_to
        [] ruled = {} /\ routed # {} -> log[Newest(routed)].deferred_to
        [] OTHER -> {}

RefsDeferredTo(s) == {r \in Refs : s \in Went(r)}
=============================================================================
