----------------------------- MODULE BookProofs -----------------------------
(***************************************************************************)
(* Scheduler implements AppointmentBook, for any resources, commands,      *)
(* hashes and cap, with or without the advisory locks: every step of the   *)
(* transactions, locks and retries is one step of the book or leaves it as *)
(* it is.                                                                  *)
(***************************************************************************)
EXTENDS LoopProofs

-----------------------------------------------------------------------------
(* Qualification: what a request tries, and every row, is of a technician  *)
(* qualified for the service.                                              *)

RowsQualified ==
  \A a \in Ids : table[a] # None => table[a].at["technician"] \in Qualified[table[a].service]

PairsQualified ==
  \A r \in Requests : InAttempt(r) => pair[r]["technician"] \in Qualified[ServiceOf(r)]

QualifiedInv == RowsQualified /\ PairsQualified

(* The version a commit stores is of a qualified technician.               *)
LEMMA RowsStep ==
  ASSUME TypeOK, PhaseOK, LockInv, QualifiedInv, [Next]_vars
  PROVE  RowsQualified'
<1>1. CASE table' = table
  BY <1>1 DEF QualifiedInv, RowsQualified
<1>2. CASE table' # table
  <2>1. PICK r \in Requests : Stores(r)
    BY <1>2, TableSteps
  <2>2. Succeeds(r) /\ PhaseOf(r) /\ cmd[r] # None
    BY <2>1 DEF LockInv, PhaseOK, PhaseOf, Stores
  <2>3. Target(r) \in Ids
    BY <2>2, CommandType DEF Target, TypeOK
  <2>4. pending[r].at["technician"] \in Qualified[pending[r].service]
    <3>1. CASE pc[r] = "commit"
      <4>1. pair[r]["technician"] \in Qualified[ServiceOf(r)] /\ pending[r] = NewVersion(r)
        BY <2>2, <3>1 DEF QualifiedInv, PairsQualified, InAttempt, Succeeds, Writing
      <4>2. CASE cmd[r].op = "book"
        BY <4>1, <4>2 DEF NewVersion, ServiceOf
      <4>3. CASE cmd[r].op # "book"
        <5>1. table[Target(r)] \in Versions
          BY <2>2, <2>3, <3>1, <4>3, RowIsVersion DEF PhaseOf, InAttempt, TypeOK
        <5> QED
          BY <4>1, <4>3, <5>1 DEF NewVersion, ServiceOf, Versions
      <4> QED
        BY <4>2, <4>3
    <3>2. CASE pc[r] = "cancelling"
      <4>1. table[Target(r)] # None /\ pending[r] = CancelledVersion(table[Target(r)])
        BY <2>2, <3>2 DEF Succeeds
      <4>2. table[Target(r)] \in Versions
        BY <2>3, <4>1, RowIsVersion DEF TypeOK
      <4> QED
        BY <2>3, <4>1, <4>2 DEF QualifiedInv, RowsQualified, CancelledVersion, Versions
    <3> QED
      BY <2>1, <3>1, <3>2 DEF Stores
  <2> QED
    BY <2>1, <2>4 DEF Stores, QualifiedInv, RowsQualified, TypeOK
<1> QED
  BY <1>1, <1>2

(* An attempt's pair is that of the row, or candidates of the service.     *)
LEMMA PairsStep ==
  ASSUME TypeOK, PhaseOK, LockInv, LoopInv, LoopInv', QualifiedInv, [Next]_vars
  PROVE  PairsQualified'
<1> SUFFICES ASSUME NEW r \in Requests, InAttempt(r)'
             PROVE  pair'[r]["technician"] \in Qualified[ServiceOf(r)]'
  BY DEF PairsQualified
<1>1. CASE left'[r] # NoOrder
  <2>1. Ordered(r)'
    BY <1>1 DEF LoopInv, LoopOf
  <2> QED
    BY <2>1 DEF Ordered, Candidates, Kinds
<1>2. CASE left'[r] = NoOrder
  <2>1. attempts'[r] = 1 /\ cmd'[r].op = "move"
    BY <1>2 DEF LoopInv, LoopOf
  <2>2. CASE pair'[r] = pair[r] /\ InAttempt(r) /\ cmd'[r] = cmd[r]
    <3>1. HasService(r)
      BY <2>2 DEF HasService, PhaseOK, PhaseOf, InAttempt
    <3> QED
      BY <2>2, <3>1, ServiceKept DEF QualifiedInv, PairsQualified
  <2>3. CASE Find(r)
    <3>1. cmd'[r] = cmd[r] /\ cmd[r] # None /\ cmd[r].op = "move" /\ table[Target(r)] # None
      BY <2>3 DEF Find, PhaseOK, PhaseOf
    <3>2. pair'[r] = table[Target(r)].at /\ Target(r) \in Ids
      BY <2>3, <3>1, CommandType DEF Find, BeginAttempt, Target, TypeOK
    <3>3. ServiceOf(r)' = table[Target(r)].service
      <4>1. HasService(r) /\ ServiceOf(r) = table[Target(r)].service
        BY <3>1 DEF HasService, ServiceOf
      <4> QED
        BY <3>1, <4>1, ServiceKept
    <3> QED
      BY <3>1, <3>2, <3>3 DEF QualifiedInv, RowsQualified
  <2>4. (pair'[r] = pair[r] /\ InAttempt(r) /\ cmd'[r] = cmd[r]) \/ Find(r)
    <3>1. ASSUME NEW q \in Requests \ {r}, Arrive(q) \/ Step(q) \/ Fail(q) \/ LoseCommit(q)
          PROVE  pair'[r] = pair[r] /\ pc'[r] = pc[r] /\ cmd'[r] = cmd[r]
      BY <3>1, LoopStepsAlone DEF LoopAlone
    <3>2. ~ Advise(r)
      <4>1. Advise(r) => cmd'[r].op = "book"
        BY DEF Advise, PhaseOK, PhaseOf
      <4> QED
        BY <2>1, <4>1
    <3>3. ~ CheckFail(r)
      <4> SUFFICES ASSUME CheckFail(r) PROVE FALSE
        OBVIOUS
      <4>1. Conflict(r, pc[r]) /\ pc[r] \in Kinds /\ LoopOf(r) /\ InAttempt(r)
        BY DEF CheckFail, LoopInv, InAttempt, Kinds
      <4>2. left'[r] = Prune(r, pc[r], ServiceOf(r))
        BY <4>1 DEF Conflict, TypeOK
      <4>3. Exhausted(left'[r])
        BY <1>2 DEF Exhausted, NoOrder, Nothing, Kinds
      <4>4. pc'[r] = "done"
        BY <4>1, <4>2, <4>3 DEF Conflict, Reply, Goto, TypeOK
      <4> QED
        BY <4>4 DEF InAttempt
    <3>4. CASE Arrive(r)
      BY <3>4, CommandAssumption DEF Arrive, Goto, InAttempt, CommandSet, TypeOK
    <3>5. CASE Commit(r) \/ LoseCommit(r)
      BY <3>5, StoresSteps DEF Stores, Ends, InAttempt, TypeOK
    <3>6. CASE \/ AdviseRefused(r) \/ FindRefused(r) \/ NotConfirmed(r) \/ BadReference(r)
               \/ CancelMissing(r) \/ Fail(r) \/ Deadlock(r)
      BY <3>6, EndsSteps DEF Ends, InAttempt, TypeOK
    <3>7. CASE LockRow(r) \/ LockKey(r) \/ Write(r) \/ CheckPass(r)
      BY <3>7 DEF LockRow, LockKey, Write, CheckPass, InAttempt, Kinds, requestVars
    <3>8. CASE Cancel(r)
      BY <3>8 DEF Cancel, Goto, InAttempt, TypeOK
    <3>9. CASE UNCHANGED vars
      BY <3>9 DEF vars, requestVars, InAttempt
    <3> QED
      BY <3>1, <3>2, <3>3, <3>4, <3>5, <3>6, <3>7, <3>8, <3>9 DEF Next, Step, Quiet, InAttempt
  <2> QED
    BY <2>2, <2>3, <2>4
<1> QED
  BY <1>1, <1>2

(* No booking and no move puts an unqualified technician on a service      *)
(* (candidateRepository.ts, rescheduleAppointment.ts).                     *)
THEOREM AllQualified == Spec => []QualifiedInv
<1>1. Init => QualifiedInv
  BY InitialAssumption DEF Init, QualifiedInv, RowsQualified, PairsQualified, InAttempt
<1>2. IInv /\ LockInv /\ LoopInv /\ LoopInv' /\ QualifiedInv /\ [Next]_vars => QualifiedInv'
  BY RowsStep, PairsStep DEF IInv, QualifiedInv
<1> QED
  BY <1>1, <1>2, LoopsKept, LocksHeld, Invariance, PTL DEF Spec

-----------------------------------------------------------------------------
(* The refinement: table and cmd are the book's own, and the verdict is    *)
(* what the answer amounts to.                                             *)

Told == [r \in Requests |-> VerdictOf(answer[r])]

(* The book reads the same data.                                           *)
LEMMA SameData ==
  /\ Book!Kinds = Kinds /\ Book!Places = Places
  /\ \A v : Book!Occupies(v) <=> Occupies(v)
  /\ \A v, w, k : Book!Clash(v, w, k) <=> Clash(v, w, k)
BY DEF Kinds, Places, Resources, Occupies, Clash, Overlaps, Book!Kinds, Book!Places,
       Book!Resources, Book!Occupies, Book!Clash, Book!Overlaps

(* The initial states are those of the book.                               *)
LEMMA InitBook ==
  ASSUME Init
  PROVE  Book!Init
<1>1. cmd \in [Requests -> {None}]
  BY DEF Init
<1>2. Told = [r \in Requests |-> "open"]
  BY DEF Init, Told, VerdictOf
<1> QED
  BY <1>1, <1>2 DEF Init, Book!Init, Told

(* A reply of r changes the book's verdict on r alone.                     *)
LEMMA ReplyTells ==
  ASSUME TypeOK, NEW r \in Requests, NEW what, Reply(r, what)
  PROVE  Book!Tell(r, VerdictOf(what))
<1>1. answer' = [answer EXCEPT ![r] = what]
  BY DEF Reply
<1>2. \A q \in Requests : VerdictOf(answer'[q]) = IF q = r THEN VerdictOf(what)
                                                  ELSE VerdictOf(answer[q])
  BY <1>1 DEF TypeOK
<1> QED
  BY <1>2 DEF Book!Tell

(* A request under way is pending in the book.                             *)
LEMMA UnderWay ==
  ASSUME TypeOK, PhaseOK, LoopInv, NEW r \in Requests, pc[r] \notin {"idle", "done"}
  PROVE  Book!Pending(r) /\ cmd[r] \in CommandSet /\ cmd[r].id \in Ids
                         /\ cmd[r].op \in {"book", "move", "cancel"}
<1>1. answer[r] = "none" /\ cmd[r] # None
  BY DEF LoopInv, LoopOf, PhaseOK, PhaseOf
<1> QED
  BY <1>1, CommandType DEF Book!Pending, VerdictOf, TypeOK

(* The verdicts of the answers that change nothing.                        *)
LEMMA DeclinedIs ==
  /\ VerdictOf("not-found") = "absent" /\ VerdictOf("not-confirmed") = "not-confirmed"
  /\ VerdictOf("error") = "unknown"
  /\ \A what \in {"rejected", "aborted", "unknown-service", "no-bays", "exhausted",
                  "capped", "no-verdict", "overrun"} : VerdictOf(what) = "refused"
BY DEF VerdictOf

(* Answers that store nothing decline.                                     *)
LEMMA DeclineStep ==
  ASSUME TypeOK, PhaseOK, LoopInv, NEW r \in Requests, pc[r] \notin {"idle", "done"},
         UNCHANGED <<table, cmd>>,
         NEW what \in {"not-found", "not-confirmed", "error", "rejected", "aborted",
                       "unknown-service", "no-bays", "exhausted", "capped", "no-verdict",
                       "overrun"},
         Reply(r, what),
         what = "not-found" => table[Target(r)] = None,
         what = "not-confirmed" => /\ table[Target(r)] # None
                                   /\ table[Target(r)].status = "cancelled"
  PROVE  Book!Decline(r)
<1>1. Book!Pending(r) /\ Book!Tell(r, VerdictOf(what))
  BY UnderWay, ReplyTells
<1>2. /\ VerdictOf(what) \in {"absent", "not-confirmed", "refused", "unknown"}
      /\ VerdictOf(what) = "absent" => what = "not-found"
      /\ VerdictOf(what) = "not-confirmed" => what = "not-confirmed"
  BY DeclinedIs
<1> QED
  BY <1>1, <1>2 DEF Book!Decline, Target

(* A version that passed both checks fits.                                 *)
LEMMA CommitFits ==
  ASSUME PassedClear, NEW r \in Requests, pc[r] = "commit"
  PROVE  Book!Fits(pending[r], Target(r))
BY SameData DEF PassedClear, Passed, Book!Fits, Kinds

(* A commit is a booking, a move or a cancellation of the book.            *)
LEMMA StoreStep ==
  ASSUME IInv, LockInv, LoopInv, QualifiedInv, NEW r \in Requests, Commit(r) \/ LoseCommit(r)
  PROVE  Book!Book(r) \/ Book!Move(r) \/ Book!Cancel(r)
<1>0. TypeOK /\ PhaseOK /\ PassedClear
  BY DEF IInv
<1>1. /\ Committable(r) /\ table' = [table EXCEPT ![cmd[r].id] = pending[r]] /\ cmd' = cmd
      /\ pc[r] \in {"commit", "cancelling"}
  BY DEF Commit, LoseCommit, Committable, Target
<1>2. /\ Book!Pending(r) /\ cmd[r].id \in Ids
      /\ cmd[r].op \in {"book", "move", "cancel"}
  BY <1>0, <1>1, UnderWay
<1>3. \E what \in {"applied", "unknown"} : Book!Tell(r, what)
  <2>1. CASE Commit(r)
    <3>1. VerdictOf(Acknowledgement(r)) = "applied"
      BY <1>2 DEF Acknowledgement, VerdictOf
    <3> QED
      BY <1>0, <2>1, <3>1, ReplyTells DEF Commit
  <2>2. CASE LoseCommit(r)
    BY <1>0, <2>2, DeclinedIs, ReplyTells DEF LoseCommit
  <2> QED
    BY <2>1, <2>2
<1>4. Book!Store(r, pending[r])
  BY <1>1, <1>3 DEF Book!Store
<1>5. Minted(r) /\ Succeeds(r) /\ PhaseOf(r)
  BY <1>0 DEF LockInv, PhaseOK
<1>6. CASE pc[r] = "commit"
  <2>1. /\ pair[r] \in Places /\ pending[r] = NewVersion(r) /\ Writable(r)
        /\ pair[r]["technician"] \in Qualified[ServiceOf(r)]
        /\ Book!Fits(pending[r], cmd[r].id)
    BY <1>0, <1>5, <1>6, CommitFits DEF Succeeds, Writing, QualifiedInv, PairsQualified,
                                        InAttempt, PhaseOf, TypeOK, Target
  <2>2. CASE cmd[r].op = "book"
    <3>1. cmd[r].owned /\ table[cmd[r].id] = None
      BY <1>1, <1>5, <1>6, <2>2 DEF Committable, Minted, Target, PhaseOf
    <3>2. Book!Book(r)
      BY <1>2, <1>4, <2>1, <2>2, <3>1, SameData DEF Book!Book, NewVersion, ServiceOf
    <3> QED
      BY <3>2
  <2>3. CASE cmd[r].op = "move"
    <3>1. table[cmd[r].id] # None /\ table[cmd[r].id].status = "confirmed"
      BY <1>5, <1>6, <2>1, <2>3 DEF Writable, PhaseOf, InAttempt, Target
    <3>2. Book!Move(r)
      BY <1>2, <1>4, <2>1, <2>3, <3>1, SameData DEF Book!Move, NewVersion, ServiceOf, Target
    <3> QED
      BY <3>2
  <2> QED
    BY <1>2, <1>5, <1>6, <2>2, <2>3 DEF PhaseOf, InAttempt
<1>7. CASE pc[r] = "cancelling"
  <2>1. /\ cmd[r].op = "cancel" /\ table[cmd[r].id] # None
        /\ pending[r] = CancelledVersion(table[cmd[r].id])
    BY <1>5, <1>7 DEF Succeeds, Target
  <2>2. Book!Cancel(r)
    BY <1>2, <1>4, <2>1 DEF Book!Cancel, CancelledVersion
  <2> QED
    BY <2>2
<1> QED
  BY <1>1, <1>6, <1>7

(* Every step is a step of the book, or leaves it as it is.                *)
LEMMA BookStep ==
  ASSUME IInv, LockInv, LoopInv, QualifiedInv, [Next]_vars
  PROVE  [Book!Next]_<<table, cmd, Told>>
<1>0. TypeOK /\ PhaseOK
  BY DEF IInv
<1> DEFINE Stutters == UNCHANGED <<table, cmd, Told>>
<1>1. ASSUME UNCHANGED <<table, cmd, answer>>
      PROVE  Stutters
  BY <1>1 DEF Told
<1>2. ASSUME NEW r \in Requests, Arrive(r)
      PROVE  Book!Arrive(r)
  <2>1. cmd[r] = None
    BY <1>2 DEF Arrive, LockInv, Minted
  <2> QED
    BY <1>2, <2>1 DEF Arrive, Book!Arrive
<1>3. ASSUME NEW r \in Requests,
             \/ Advise(r) \/ Find(r) \/ LockRow(r) \/ LockKey(r) \/ Write(r) \/ CheckPass(r)
             \/ Cancel(r)
      PROVE  Stutters
  BY <1>1, <1>3 DEF Advise, Find, LockRow, LockKey, Write, CheckPass, Cancel, BeginAttempt
<1>4. ASSUME NEW r \in Requests, CheckFail(r)
      PROVE  Stutters \/ Book!Decline(r)
  <2>1. /\ Conflict(r, pc[r]) /\ pc[r] \notin {"idle", "done"} /\ UNCHANGED <<table, cmd>>
    BY <1>4 DEF CheckFail, Conflict, Kinds
  <2>2. CASE \E p \in Places : BeginAttempt(r, p)
    BY <1>1, <2>1, <2>2 DEF BeginAttempt
  <2>3. CASE \E what \in {"exhausted", "capped", "overrun"} : Reply(r, what)
    BY <1>0, <2>1, <2>3, DeclineStep
  <2> QED
    BY <2>1, <2>2, <2>3 DEF Conflict
<1>5. ASSUME NEW r \in Requests,
             \/ AdviseRefused(r) \/ FindRefused(r) \/ NotConfirmed(r) \/ BadReference(r)
             \/ CancelMissing(r) \/ Fail(r) \/ Deadlock(r)
      PROVE  Book!Decline(r)
  <2>1. CASE AdviseRefused(r)
    <3>1. /\ pc[r] = "advise" /\ UNCHANGED <<table, cmd>>
          /\ \E what \in {"rejected", "no-bays", "unknown-service"} : Reply(r, what)
      BY <2>1 DEF AdviseRefused, Refuse
    <3> QED
      BY <1>0, <3>1, DeclineStep
  <2>2. CASE FindRefused(r)
    <3>1. /\ pc[r] = "find" /\ UNCHANGED <<table, cmd>>
          /\ \/ Reply(r, "not-found") /\ table[Target(r)] = None
             \/ Reply(r, "rejected")
      BY <2>2 DEF FindRefused, Refuse
    <3> QED
      BY <1>0, <3>1, DeclineStep
  <2>3. CASE NotConfirmed(r)
    <3>1. /\ pc[r] = "keys" /\ UNCHANGED <<table, cmd>> /\ Reply(r, "not-confirmed")
          /\ ~ Writable(r)
      BY <2>3 DEF NotConfirmed
    <3>2. table[Target(r)] # None /\ Target(r) \in Ids
      BY <1>0, <3>1, CommandType DEF Writable, PhaseOK, PhaseOf, InAttempt, Target, TypeOK
    <3>3. table[Target(r)].status = "cancelled"
      BY <1>0, <3>1, <3>2, RowIsVersion DEF Writable, Versions, TypeOK
    <3> QED
      BY <1>0, <3>1, <3>2, <3>3, DeclineStep
  <2>4. CASE BadReference(r)
    <3>1. pc[r] = "commit" /\ UNCHANGED <<table, cmd>> /\ Reply(r, "aborted")
      BY <2>4 DEF BadReference
    <3> QED
      BY <1>0, <3>1, DeclineStep
  <2>5. CASE CancelMissing(r)
    <3>1. /\ pc[r] = "cancel" /\ UNCHANGED <<table, cmd>> /\ Reply(r, "not-found")
          /\ table[Target(r)] = None
      BY <2>5 DEF CancelMissing, Refuse
    <3> QED
      BY <1>0, <3>1, DeclineStep
  <2>6. CASE Fail(r)
    <3>1. pc[r] \notin {"idle", "done"} /\ UNCHANGED <<table, cmd>> /\ Reply(r, "error")
      BY <2>6 DEF Fail, Live
    <3> QED
      BY <1>0, <3>1, DeclineStep
  <2>7. CASE Deadlock(r)
    <3>1. pc[r] \notin {"idle", "done"} /\ UNCHANGED <<table, cmd>> /\ Reply(r, "no-verdict")
      BY <2>7 DEF Deadlock, Waiting, Awaits, Kinds
    <3> QED
      BY <1>0, <3>1, DeclineStep
  <2> QED
    BY <1>5, <2>1, <2>2, <2>3, <2>4, <2>5, <2>6, <2>7
<1>6. CASE UNCHANGED vars
  BY <1>1, <1>6 DEF vars
<1>7. ASSUME NEW r \in Requests, Arrive(r) \/ Step(r) \/ Fail(r) \/ LoseCommit(r)
      PROVE  Stutters \/ Book!Next
  <2> HIDE DEF Stutters
  <2>1. CASE Arrive(r)
    BY <1>2, <2>1 DEF Book!Next
  <2>2. CASE Commit(r) \/ LoseCommit(r)
    BY <2>2, StoreStep DEF Book!Next
  <2>3. CASE CheckFail(r)
    BY <1>4, <2>3 DEF Book!Next
  <2>4. CASE \/ Advise(r) \/ Find(r) \/ LockRow(r) \/ LockKey(r) \/ Write(r)
             \/ CheckPass(r) \/ Cancel(r)
    BY <1>3, <2>4
  <2>5. CASE \/ AdviseRefused(r) \/ FindRefused(r) \/ NotConfirmed(r) \/ BadReference(r)
             \/ CancelMissing(r) \/ Fail(r) \/ Deadlock(r)
    BY <1>5, <2>5 DEF Book!Next
  <2> QED
    BY <1>7, <2>1, <2>2, <2>3, <2>4, <2>5 DEF Step
<1> QED
  BY <1>6, <1>7 DEF Next, Quiet

(* The transactions, locks and retries implement the abstract book: each   *)
(* request takes effect at most once, atomically, exactly when it says so, *)
(* and a refused one not at all.                                           *)
THEOREM Refinement == Spec => ImplementsBook
<1>1. Init => Book!Init
  BY InitBook
<1>2. IInv /\ LockInv /\ LoopInv /\ QualifiedInv /\ [Next]_vars
        => [Book!Next]_<<table, cmd, Told>>
  BY BookStep
<1>3. IInv /\ LockInv /\ LoopInv /\ QualifiedInv /\ [Next]_vars => [Book!Next]_Book!bookVars
  BY <1>2 DEF Book!bookVars, Told
<1> QED
  BY <1>1, <1>3, AllQualified, LoopsKept, LocksHeld, Invariance, PTL
     DEF Spec, ImplementsBook, Book!Spec
=============================================================================
