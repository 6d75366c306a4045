------------------------------ MODULE Schedule ------------------------------
(***************************************************************************)
(* The data of the service scheduler: resources, intervals, the versions   *)
(* of an appointment row and the two exclusion predicates PostgreSQL       *)
(* enforces on them (0003_appointment.sql).  No state: the abstract        *)
(* AppointmentBook and the detailed Scheduler both extend this module.     *)
(*                                                                         *)
(* One dealership: every composite foreign key of the appointment table    *)
(* pins bay and technician to the row's own dealership, so two dealerships *)
(* never share a resource.                                                 *)
(***************************************************************************)
EXTENDS Integers, FiniteSets

CONSTANTS
  Requests,       \* client requests; a booking's minted id is its request
  Ids,            \* appointment ids: the minted ones and those already stored
  Bays,           \* service bays of the dealership
  Techs,          \* technicians of the dealership
  Services,       \* service types
  Qualified,      \* Qualified[s]: technicians qualified for service type s
  Slots,          \* occupancy intervals [from, to)
  Commands,       \* the commands clients may send
  InitialTables,  \* the appointment tables a run may start from
  None            \* no such row, command or pair

(* The two exclusion constraints, in the order PostgreSQL evaluates them.  *)
Kinds == {"bay", "technician"}

Resources == Bays \cup Techs

(* A bay and a technician: the pair a row occupies, or a candidate pair.   *)
Places == {p \in [Kinds -> Resources] :
             p["bay"] \in Bays /\ p["technician"] \in Techs}

(* A committed or in-flight version of an appointment row.  rev stands for *)
(* updated_at: it differs from the version before whenever updated_at      *)
(* is set to now().                                                        *)
Versions == [at : Places, slot : Slots, service : Services,
             status : {"confirmed", "cancelled"}, rev : Nat]

Rows == Versions \cup {None}

(* tstzrange(starts_at, ends_at) is half-open: back-to-back is legal.      *)
Overlaps(s, t) == s.from < t.to /\ t.from < s.to

(* WHERE (status <> 'cancelled'): the rows the partial indexes hold.       *)
Occupies(v) == v # None /\ v.status # "cancelled"

(* The operator pair of one exclusion constraint: resource =, range &&.    *)
Clash(v, w, k) == v.at[k] = w.at[k] /\ Overlaps(v.slot, w.slot)

(* The bays of the dealership, and its technicians qualified for s.        *)
Candidates(s) == [k \in Kinds |-> IF k = "bay" THEN Bays ELSE Qualified[s]]

(* busyResources: what the advisory read reports occupied over slot s.     *)
Busy(t, s) ==
  [k \in Kinds |-> {t[a].at[k] : a \in {b \in Ids : Occupies(t[b]) /\ Overlaps(t[b].slot, s)}}]

(* A command.  A booking names the id it will be given; derives is the     *)
(* verdict of deriveInterval on the requested instant, owned that of the   *)
(* vehicle_owned_by_customer foreign key.                                  *)
CommandSet == [op : {"book", "move", "cancel"}, id : Ids, slot : Slots,
               service : Services, derives : BOOLEAN, owned : BOOLEAN]

(* No two occupying rows of a table share a bay or a technician over       *)
(* overlapping intervals.                                                  *)
ConflictFree(t) ==
  \A a, b \in Ids : \A k \in Kinds :
    a # b /\ Occupies(t[a]) /\ Occupies(t[b]) => ~ Clash(t[a], t[b], k)

ASSUME IdsAssumption == Requests \subseteq Ids
ASSUME SlotAssumption ==
  \A s \in Slots : s.from \in Int /\ s.to \in Int /\ s.from < s.to
ASSUME FiniteAssumption == IsFiniteSet(Bays) /\ IsFiniteSet(Techs)
ASSUME QualifiedAssumption == Qualified \in [Services -> SUBSET Techs]
ASSUME CommandAssumption == Commands \subseteq CommandSet
ASSUME NoneAssumption == None \notin Versions \cup CommandSet \cup Places
ASSUME InitialAssumption ==
  \A t \in InitialTables :
    /\ t \in [Ids -> Rows]
    /\ ConflictFree(t)
    /\ \A a \in Ids : t[a] # None => t[a].at["technician"] \in Qualified[t[a].service]
    /\ \A r \in Requests : t[r] = None
=============================================================================
