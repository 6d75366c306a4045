----------------------------- MODULE Scheduler -----------------------------
(***************************************************************************)
(* The write paths of the service scheduler against PostgreSQL: booking,   *)
(* rescheduling and cancelling, each request an asynchronous process whose *)
(* steps interleave at every await.  A booking or a move runs the attempt  *)
(* loop (attemptLoop.ts): one transaction per candidate pair, which takes  *)
(* its locks one at a time, writes its row version, and is adjudicated by  *)
(* the two exclusion constraints.                                          *)
(*                                                                         *)
(* UseLocks = FALSE removes the advisory locks: the constraints must then  *)
(* still decide every outcome, and only deadlock freedom may be lost.      *)
(*                                                                         *)
(* Bounds: each request is one command; at most MaxFaults statements fail. *)
(***************************************************************************)
EXTENDS Schedule

CONSTANTS
  Hash,         \* hashtext of a resource id; it may collide
  AttemptCap,   \* BOOKING_ATTEMPT_CAP
  UseLocks,     \* whether lockResources takes its locks
  MaxFaults     \* bound on failing statements and lost connections

(* hashtext returns an integer of four bytes.                              *)
MaxHash == 2147483647
Hashes == -MaxHash - 1 .. MaxHash

ASSUME HashAssumption == Hash \in [Resources -> Hashes]
ASSUME CapAssumption == AttemptCap \in Nat \ {0}
ASSUME UseLocksAssumption == UseLocks \in BOOLEAN
ASSUME FaultsAssumption == MaxFaults \in Nat

VARIABLES
  table,      \* the committed appointment rows
  cmd,        \* the command of each request that has arrived
  pc,         \* where each request is
  pair,       \* the candidate pair of the current attempt
  left,       \* the candidates not yet pruned; NoOrder before the shuffle
  busy,       \* the advisory read's snapshot, which orders the candidates
  attempts,   \* attempts made
  conflicts,  \* the booking.conflict log: the <<resource kind, id>> of each 23P01
  pending,    \* the row version the open transaction has written
  want,       \* advisory keys its statement has still to acquire
  held,       \* advisory keys it holds
  answer,     \* what the client has been told
  faults      \* failures so far

requestVars == <<pair, left, busy, attempts, conflicts>>
txVars      == <<pending, want, held>>
vars == <<table, cmd, pc, requestVars, txVars, answer, faults>>

Phases == {"idle", "advise", "find", "row", "keys", "bay", "technician",
           "commit", "cancel", "cancelling", "done"}

Answers == {"none", "confirmed", "moved", "cancelled", "not-found",
            "not-confirmed", "rejected", "aborted", "unknown-service",
            "no-bays", "exhausted", "capped", "no-verdict", "overrun", "error"}

Other(k) == IF k = "bay" THEN "technician" ELSE "bay"

Nothing == [k \in Kinds |-> {}]

(* An order's lists are never empty, so the empty one stands for null.     *)
NoOrder == Nothing

Live(r) == pc[r] \notin {"idle", "done"}

Target(r) == cmd[r].id

Goto(r, phase) == pc' = [pc EXCEPT ![r] = phase]

Init ==
  /\ table \in InitialTables
  /\ cmd = [r \in Requests |-> None]
  /\ pc = [r \in Requests |-> "idle"]
  /\ pair = [r \in Requests |-> None]
  /\ left = [r \in Requests |-> NoOrder]
  /\ busy = [r \in Requests |-> Nothing]
  /\ attempts = [r \in Requests |-> 0]
  /\ conflicts = [r \in Requests |-> {}]
  /\ pending = [r \in Requests |-> None]
  /\ want = [r \in Requests |-> {}]
  /\ held = [r \in Requests |-> {}]
  /\ answer = [r \in Requests |-> "none"]
  /\ faults = 0

-----------------------------------------------------------------------------
(* Locks.                                                                  *)

(* Mutant: classes numbered from 0.                                        *)
KeyOfFromZero(p, k) == <<IF k = "bay" THEN 0 ELSE 1, Hash[p[k]]>>

(* Advisory keys are <<class, hashtext>>: class 1 bays, class 2 technicians.*)
KeyOf(p, k) == <<IF k = "bay" THEN 1 ELSE 2, Hash[p[k]]>>

(* Mutant: keys that ignore the pair being left (before ADR-0030).         *)
LockKeysTaken(take, leave) == IF UseLocks THEN {KeyOf(take, k) : k \in Kinds} ELSE {}

(* The keys of a write that takes one pair and leaves another; a booking   *)
(* leaves the pair it takes.  Colliding hashes collapse into one key.      *)
LockKeys(take, leave) ==
  IF UseLocks THEN {KeyOf(p, k) : p \in {take, leave}, k \in Kinds} ELSE {}

(* ORDER BY class, hashtext(key).                                          *)
Before(x, y) == x[1] < y[1] \/ (x[1] = y[1] /\ x[2] <= y[2])

(* Mutant: keys acquired in any order.                                     *)
IsNextKeyUnordered(x, S) == x \in S

IsNextKey(x, S) == x \in S /\ \A y \in S : Before(x, y)

(* Who holds the row lock of an appointment: a mover from its FOR UPDATE   *)
(* to the end of its transaction, a cancellation from its UPDATE.          *)
HoldsRow(r, id) ==
  /\ cmd[r] # None /\ Target(r) = id /\ cmd[r].op # "book"
  /\ pc[r] \in {"keys", "bay", "technician", "commit", "cancelling"}

RowFree(r) == \A q \in Requests \ {r} : ~ HoldsRow(q, Target(r))

-----------------------------------------------------------------------------
(* Exclusion checks.  PostgreSQL inserts a version's bay entry, checks it, *)
(* then inserts and checks its technician entry.                           *)

Indexed(q, k) ==
  /\ pending[q] # None /\ Occupies(pending[q])
  /\ pc[q] \in {"technician", "commit"} \/ (k = "bay" /\ pc[q] = "bay")

(* Mutant: a row somebody is superseding does not make the check wait.     *)
InFlightInserted(r, k) ==
  {q \in Requests \ {r} :
     pending[q] # None /\ Target(q) # Target(r)
       /\ Indexed(q, k) /\ Clash(pending[q], pending[r], k)}

(* Transactions in progress whose outcome r's check of k must wait for:    *)
(* they have inserted a clashing version, or are superseding one.          *)
InFlight(r, k) ==
  {q \in Requests \ {r} :
     /\ pending[q] # None /\ Target(q) # Target(r)
     /\ \/ Indexed(q, k) /\ Clash(pending[q], pending[r], k)
        \/ Occupies(table[Target(q)]) /\ Clash(table[Target(q)], pending[r], k)}

(* Mutant: only no_bay_overlap is enforced.                                *)
TakenBay(r, k) ==
  /\ k = "bay"
  /\ \E a \in Ids \ {Target(r)} : Occupies(table[a]) /\ Clash(table[a], pending[r], k)

(* A clashing committed version that nobody is superseding: 23P01.         *)
Taken(r, k) ==
  \E a \in Ids \ {Target(r)} :
    /\ Occupies(table[a]) /\ Clash(table[a], pending[r], k)
    /\ ~ \E q \in Requests : pending[q] # None /\ Target(q) = a

-----------------------------------------------------------------------------
(* Ending a request.                                                       *)

(* Mutant: advisory locks of the session, which outlive the transaction.   *)
EndTransactionOnly(r) ==
  /\ pending' = [pending EXCEPT ![r] = None]
  /\ want' = [want EXCEPT ![r] = {}]
  /\ UNCHANGED held

(* Commit or rollback: the transaction's locks and its version are gone.   *)
EndTransaction(r) ==
  /\ pending' = [pending EXCEPT ![r] = None]
  /\ want' = [want EXCEPT ![r] = {}]
  /\ held' = [held EXCEPT ![r] = {}]

Reply(r, what) ==
  /\ answer' = [answer EXCEPT ![r] = what]
  /\ Goto(r, "done")

(* An answer given outside any transaction, with nothing written.          *)
Refuse(r, what) ==
  /\ Reply(r, what)
  /\ UNCHANGED <<table, cmd, requestVars, txVars, faults>>

-----------------------------------------------------------------------------
(* The attempt loop.                                                       *)

(* Candidates the advisory read called free are tried before the others.   *)
FreeFirst(S, taken) == IF S \ taken # {} THEN S \ taken ELSE S

(* The first pair of an order drawn from candidates c and snapshot b.  The *)
(* shuffle is drawn as its heads are needed: any member may come next.     *)
FirstPair(p, c, b) == \A k \in Kinds : p[k] \in FreeFirst(c[k], b[k])

(* Opens the attempt's own transaction on pair p.  A move first locks its  *)
(* row; a booking goes straight to the advisory locks.                     *)
BeginAttempt(r, p) ==
  /\ pair' = [pair EXCEPT ![r] = p]
  /\ attempts' = [attempts EXCEPT ![r] = @ + 1]
  /\ pending' = [pending EXCEPT ![r] = None]
  /\ held' = [held EXCEPT ![r] = {}]
  /\ want' = [want EXCEPT ![r] = IF cmd[r].op = "book" THEN LockKeys(p, p) ELSE {}]
  /\ Goto(r, IF cmd[r].op = "book" THEN "keys" ELSE "row")
  /\ UNCHANGED answer

(* Mutants: a conflict prunes the whole pair, or nothing.                  *)
PrunePair(r, k, service) ==
  IF left[r] = NoOrder
  THEN Candidates(service)
  ELSE [j \in Kinds |-> left[r][j] \ {pair[r][j]}]
PruneNothing(r, k, service) == IF left[r] = NoOrder THEN Candidates(service) ELSE left[r]

(* What is left once the pair's resource of kind k is refused: a move's    *)
(* first conflict draws the order over every candidate, pruning nothing;   *)
(* any other conflict prunes the refused resource.                         *)
Prune(r, k, service) ==
  IF left[r] = NoOrder
  THEN Candidates(service)
  ELSE [left[r] EXCEPT ![k] = @ \ {pair[r][k]}]

Exhausted(order) == \E k \in Kinds : order[k] = {}

(* The next candidate: both heads of a fresh order, or the next head of    *)
(* the pruned list beside the unchanged head of the other.                 *)
NextPair(r, k, order, p) ==
  IF left[r] = NoOrder
  THEN FirstPair(p, order, busy[r])
  ELSE /\ p[k] \in FreeFirst(order[k], busy[r][k])
       /\ p[Other(k)] = pair[r][Other(k)]

ServiceOf(r) == IF cmd[r].op = "book" THEN cmd[r].service ELSE table[Target(r)].service

StructuralBound(r) ==
  Cardinality(Bays) + Cardinality(Qualified[ServiceOf(r)])
    + (IF cmd[r].op = "book" THEN 0 ELSE 1)

(* 23P01 on kind k: the attempt rolls back, the conflict is logged, and    *)
(* the loop refuses or tries the next candidate.                           *)
Conflict(r, k) ==
  LET order == Prune(r, k, ServiceOf(r))
  IN  /\ conflicts' = [conflicts EXCEPT ![r] = @ \cup {<<k, pair[r][k]>>}]
      /\ left' = [left EXCEPT ![r] = order]
      /\ \/ /\ Exhausted(order)
            /\ Reply(r, "exhausted") /\ EndTransaction(r)
            /\ UNCHANGED <<pair, attempts>>
         \/ /\ ~ Exhausted(order) /\ attempts[r] >= AttemptCap
            /\ Reply(r, "capped") /\ EndTransaction(r)
            /\ UNCHANGED <<pair, attempts>>
         \/ /\ ~ Exhausted(order) /\ attempts[r] < AttemptCap
            /\ attempts[r] >= StructuralBound(r)
            /\ Reply(r, "overrun") /\ EndTransaction(r)
            /\ UNCHANGED <<pair, attempts>>
         \/ /\ ~ Exhausted(order) /\ attempts[r] < AttemptCap
            /\ attempts[r] < StructuralBound(r)
            /\ \E p \in Places : NextPair(r, k, order, p) /\ BeginAttempt(r, p)
      /\ UNCHANGED <<table, cmd, busy, faults>>

-----------------------------------------------------------------------------
(* The steps of a request.                                                 *)

Arrive(r) ==
  /\ pc[r] = "idle"
  /\ \E c \in Commands :
       /\ c.op = "book" => c.id = r
       /\ cmd' = [cmd EXCEPT ![r] = c]
       /\ Goto(r, CASE c.op = "book"   -> "advise"
                    [] c.op = "move"   -> "find"
                    [] c.op = "cancel" -> "cancel")
  /\ UNCHANGED <<table, requestVars, txVars, answer, faults>>

(* bookAppointment up to the loop: derive the interval, read candidates    *)
(* and occupancy, draw the order, mint the id.                             *)
AdviseRefused(r) ==
  /\ pc[r] = "advise"
  /\ LET c == Candidates(cmd[r].service)
     IN  \/ ~ cmd[r].derives /\ Refuse(r, "rejected")
         \/ cmd[r].derives /\ c["bay"] = {} /\ Refuse(r, "no-bays")
         \/ /\ cmd[r].derives /\ c["bay"] # {} /\ c["technician"] = {}
            /\ Refuse(r, "unknown-service")

Advise(r) ==
  /\ pc[r] = "advise" /\ cmd[r].derives
  /\ LET c == Candidates(cmd[r].service)
         b == Busy(table, cmd[r].slot)
     IN  /\ ~ Exhausted(c)
         /\ busy' = [busy EXCEPT ![r] = b]
         /\ left' = [left EXCEPT ![r] = c]
         /\ \E p \in Places : FirstPair(p, c, b) /\ BeginAttempt(r, p)
  /\ UNCHANGED <<table, cmd, conflicts, faults>>

(* rescheduleAppointment up to the loop: read the row without a lock, and  *)
(* derive the interval whatever its status; the row's own pair comes first.*)
FindRefused(r) ==
  /\ pc[r] = "find"
  /\ \/ table[Target(r)] = None /\ Refuse(r, "not-found")
     \/ table[Target(r)] # None /\ ~ cmd[r].derives /\ Refuse(r, "rejected")

(* Mutant: a move starts from any pair.                                    *)
FindAnyPair(r) ==
  /\ pc[r] = "find" /\ table[Target(r)] # None /\ cmd[r].derives
  /\ \E p \in Places : FirstPair(p, Candidates(ServiceOf(r)), Nothing) /\ BeginAttempt(r, p)
  /\ UNCHANGED <<table, cmd, left, busy, conflicts, faults>>

Find(r) ==
  /\ pc[r] = "find" /\ table[Target(r)] # None /\ cmd[r].derives
  /\ BeginAttempt(r, table[Target(r)].at)
  /\ UNCHANGED <<table, cmd, left, busy, conflicts, faults>>

(* lockAppointmentRow: wait for the row, then read the pair being left.    *)
LockRow(r) ==
  /\ pc[r] = "row" /\ RowFree(r)
  /\ want' = [want EXCEPT ![r] = LockKeys(pair[r], table[Target(r)].at)]
  /\ Goto(r, "keys")
  /\ UNCHANGED <<table, cmd, requestVars, pending, held, answer, faults>>

(* lockResources acquires its keys one at a time, in order.                *)
LockKey(r) ==
  /\ pc[r] = "keys"
  /\ \E x \in want[r] :
       /\ IsNextKey(x, want[r])
       /\ \A q \in Requests \ {r} : x \notin held[q]
       /\ want' = [want EXCEPT ![r] = @ \ {x}]
       /\ held' = [held EXCEPT ![r] = @ \cup {x}]
  /\ UNCHANGED <<table, cmd, pc, requestVars, pending, answer, faults>>

(* The INSERT's, or the guarded UPDATE's, new version and its bay entry.   *)
NewVersion(r) ==
  IF cmd[r].op = "book"
  THEN [at |-> pair[r], slot |-> cmd[r].slot, service |-> cmd[r].service,
        status |-> "confirmed", rev |-> 0]
  ELSE [table[Target(r)] EXCEPT !.at = pair[r], !.slot = cmd[r].slot, !.rev = @ + 1]

(* Mutant: the UPDATE without its guard on the status.                     *)
WritableAnyStatus(r) == TRUE

Writable(r) ==
  cmd[r].op = "move" => table[Target(r)].status = "confirmed"

Write(r) ==
  /\ pc[r] = "keys" /\ want[r] = {} /\ Writable(r)
  /\ pending' = [pending EXCEPT ![r] = NewVersion(r)]
  /\ Goto(r, "bay")
  /\ UNCHANGED <<table, cmd, requestVars, want, held, answer, faults>>

(* UPDATE ... WHERE status = 'confirmed' matched no row.                   *)
NotConfirmed(r) ==
  /\ pc[r] = "keys" /\ want[r] = {} /\ ~ Writable(r)
  /\ Reply(r, "not-confirmed") /\ EndTransaction(r)
  /\ UNCHANGED <<table, cmd, requestVars, faults>>

CheckPass(r) ==
  /\ pc[r] \in Kinds
  /\ ~ Taken(r, pc[r]) /\ InFlight(r, pc[r]) = {}
  /\ Goto(r, IF pc[r] = "bay" THEN "technician" ELSE "commit")
  /\ UNCHANGED <<table, cmd, requestVars, txVars, answer, faults>>

CheckFail(r) ==
  /\ pc[r] \in Kinds
  /\ Taken(r, pc[r])
  /\ Conflict(r, pc[r])

(* The foreign keys are checked at the end of the statement: only the      *)
(* vehicle's ownership can fail, since candidates satisfy the others.      *)
BadReference(r) ==
  /\ pc[r] = "commit" /\ cmd[r].op = "book" /\ ~ cmd[r].owned
  /\ Reply(r, "aborted") /\ EndTransaction(r)
  /\ UNCHANGED <<table, cmd, requestVars, faults>>

Acknowledgement(r) ==
  CASE cmd[r].op = "book"   -> "confirmed"
    [] cmd[r].op = "move"   -> "moved"
    [] cmd[r].op = "cancel" -> "cancelled"

Committable(r) ==
  \/ pc[r] = "commit" /\ (cmd[r].op = "book" => cmd[r].owned)
  \/ pc[r] = "cancelling"

Commit(r) ==
  /\ Committable(r)
  /\ table' = [table EXCEPT ![Target(r)] = pending[r]]
  /\ Reply(r, Acknowledgement(r)) /\ EndTransaction(r)
  /\ UNCHANGED <<cmd, requestVars, faults>>

(* Mutant: every cancellation stamps updated_at.                           *)
CancelledAgain(v) == [v EXCEPT !.status = "cancelled", !.rev = @ + 1]

(* cancelAppointmentById: one UPDATE, waiting only for the row lock; a     *)
(* replay writes the row as it was, updated_at included.                   *)
CancelledVersion(v) ==
  IF v.status = "cancelled" THEN v ELSE [v EXCEPT !.status = "cancelled", !.rev = @ + 1]

Cancel(r) ==
  /\ pc[r] = "cancel" /\ table[Target(r)] # None /\ RowFree(r)
  /\ pending' = [pending EXCEPT ![r] = CancelledVersion(table[Target(r)])]
  /\ Goto(r, "cancelling")
  /\ UNCHANGED <<table, cmd, requestVars, want, held, answer, faults>>

CancelMissing(r) ==
  /\ pc[r] = "cancel" /\ table[Target(r)] = None
  /\ Refuse(r, "not-found")

-----------------------------------------------------------------------------
(* Failures.                                                               *)

(* A statement or connection fails: rollback, and the error is rethrown.   *)
Fail(r) ==
  /\ Live(r) /\ faults < MaxFaults
  /\ faults' = faults + 1
  /\ Reply(r, "error") /\ EndTransaction(r)
  /\ UNCHANGED <<table, cmd, requestVars>>

(* The commit takes effect but its acknowledgement is lost.                *)
LoseCommit(r) ==
  /\ Committable(r) /\ faults < MaxFaults
  /\ faults' = faults + 1
  /\ table' = [table EXCEPT ![Target(r)] = pending[r]]
  /\ Reply(r, "error") /\ EndTransaction(r)
  /\ UNCHANGED <<cmd, requestVars>>

(* The requests r may be waiting for.                                      *)
Awaits(r) ==
  CASE pc[r] \in {"row", "cancel"} -> {q \in Requests \ {r} : HoldsRow(q, Target(r))}
    [] pc[r] = "keys" ->
         {q \in Requests \ {r} : \E x \in held[q] : IsNextKey(x, want[r])}
    [] pc[r] \in Kinds -> InFlight(r, pc[r])
    [] OTHER -> {}

Waiting == {r \in Requests : Awaits(r) # {}}

(* Every member of S waits for a member of S.                              *)
Stuck(S) == S # {} /\ \A r \in S : Awaits(r) \cap S # {}

(* deadlock_timeout fires in a member of a smallest cycle: 40P01, which    *)
(* the loop does not retry.                                                *)
Deadlock(r) ==
  /\ r \in Waiting
  /\ \E S \in SUBSET Waiting :
       /\ r \in S /\ Stuck(S)
       /\ \A T \in SUBSET S : Stuck(T) => T = S
  /\ Reply(r, "no-verdict") /\ EndTransaction(r)
  /\ UNCHANGED <<table, cmd, requestVars, faults>>

-----------------------------------------------------------------------------
Step(r) ==
  \/ AdviseRefused(r) \/ Advise(r) \/ FindRefused(r) \/ Find(r)
  \/ LockRow(r) \/ LockKey(r) \/ Write(r) \/ NotConfirmed(r)
  \/ CheckPass(r) \/ CheckFail(r) \/ BadReference(r) \/ Commit(r)
  \/ Cancel(r) \/ CancelMissing(r) \/ Deadlock(r)

(* Every request has been answered.                                        *)
Quiet == (\A r \in Requests : pc[r] = "done") /\ UNCHANGED vars

Next ==
  \/ \E r \in Requests : Arrive(r) \/ Step(r) \/ Fail(r) \/ LoseCommit(r)
  \/ Quiet

Spec == Init /\ [][Next]_vars

FairSpec == Spec /\ \A r \in Requests : WF_vars(Step(r))

-----------------------------------------------------------------------------
(* Properties.                                                             *)

(* Every variable holds a value of its type.                               *)
TypeOK ==
  /\ table \in [Ids -> Rows]
  /\ cmd \in [Requests -> CommandSet \cup {None}]
  /\ pc \in [Requests -> Phases]
  /\ pair \in [Requests -> Places \cup {None}]
  /\ left \in [Requests -> [Kinds -> SUBSET Resources]]
  /\ busy \in [Requests -> [Kinds -> SUBSET Resources]]
  /\ attempts \in [Requests -> Nat]
  /\ conflicts \in [Requests -> SUBSET (Kinds \X Resources)]
  /\ pending \in [Requests -> Rows]
  /\ want \in [Requests -> SUBSET ({1, 2} \X Int)]
  /\ held \in [Requests -> SUBSET ({1, 2} \X Int)]
  /\ answer \in [Requests -> Answers]
  /\ faults \in Nat

(* No two committed, uncancelled appointments share a bay or a technician  *)
(* over overlapping intervals, whatever the interleaving of bookings,      *)
(* moves, cancellations and failures (no_bay_overlap and                   *)
(* no_technician_overlap, 0003_appointment.sql).                           *)
NoDoubleBooking == ConflictFree(table)

(* With the advisory locks, no set of requests waits on itself: the row    *)
(* lock, the ordered keys and the exclusion checks never form a cycle, so  *)
(* 40P01 is an internal fault and not contention (lockResources).          *)
NoDeadlock == UseLocks => \A S \in SUBSET Waiting : ~ Stuck(S)

(* A refusal as "exhausted" names a kind of resource every candidate of    *)
(* which was refused by the database during this request (attemptLoop.ts). *)
ProvenTaken(r) ==
  \E k \in Kinds : \A x \in Candidates(ServiceOf(r))[k] : <<k, x>> \in conflicts[r]

ExhaustedIsProven ==
  \A r \in Requests : answer[r] = "exhausted" => ProvenTaken(r)

(* "every candidate bay (technician) was already occupied for this         *)
(* interval": the detail of every no-capacity answer (appointments.ts).    *)
EveryCandidateOccupied ==
  \A r \in Requests : answer[r] \in {"exhausted", "capped"} => ProvenTaken(r)

(* The attempt loop never overruns its structural bound, its "unreachable" *)
(* throw, nor the attempt cap.                                             *)
LoopBounded ==
  \A r \in Requests : answer[r] # "overrun" /\ attempts[r] <= AttemptCap

(* A stored row is never removed, and a cancelled one never changes again  *)
(* in any column, replays and racing moves included.                       *)
CancelledIsFinal ==
  [][\A a \in Ids : table[a] # None =>
       /\ table'[a] # None
       /\ table[a].status = "cancelled" => table'[a] = table[a]]_table

(* A candidate pair free over a slot in table t.                           *)
FreePair(t, service, slot) ==
  \E p \in Places :
    /\ p["technician"] \in Qualified[service]
    /\ \A k \in Kinds : p[k] \notin Busy(t, slot)[k]

(* A booking is refused as exhausted only when no pair is free: no         *)
(* spurious refusal (QS-3), as long as every request that arrived is a     *)
(* booking, so that occupancy only grows.                                  *)
NoSpuriousRefusal ==
  [][\A r \in Requests :
       /\ answer[r] = "none" /\ answer'[r] = "exhausted"
       /\ \A q \in Requests : cmd[q] # None => cmd[q].op = "book"
       => ~ FreePair(table, cmd[r].service, cmd[r].slot)]_vars

(* What a request's answer amounts to in the abstract specification.       *)
VerdictOf(what) ==
  CASE what = "none" -> "open"
    [] what \in {"confirmed", "moved", "cancelled"} -> "applied"
    [] what = "not-found" -> "absent"
    [] what = "not-confirmed" -> "not-confirmed"
    [] what = "error" -> "unknown"
    [] OTHER -> "refused"

Book == INSTANCE AppointmentBook WITH verdict <- [r \in Requests |-> VerdictOf(answer[r])]

(* The transactions, locks and retries implement the abstract book: each   *)
(* request takes effect at most once, atomically, exactly when it says so, *)
(* a refused one not at all (a refused move leaves the original standing). *)
ImplementsBook == Book!Spec

(* Every request that arrives is answered.                                 *)
Answered == \A r \in Requests : Live(r) ~> pc[r] = "done"
=============================================================================
