---------------------------- MODULE ServiceProofs ----------------------------
(***************************************************************************)
(* What clients of the service may count on, for any requests, resources   *)
(* and commands.  With the locks, contention is never answered 500, a move *)
(* to the interval its row already has stays where it is, and while no     *)
(* appointment changes a request is decided as if it were alone, and as    *)
(* availability said.  All rest on the invariants of Scheduler, every step *)
(* of whose is the service's.                                              *)
(***************************************************************************)
EXTENDS Service, BookProofs

-----------------------------------------------------------------------------
(* The service adds nothing to the write paths.                            *)

(* What clients do is to query, which touches no variable of Scheduler, or *)
(* to send a command.                                                      *)
LEMMA ServiceStep == [ServiceNext]_serviceVars => [Next]_vars
<1> SUFFICES ASSUME [ServiceNext]_serviceVars PROVE [Next]_vars
  OBVIOUS
<1>1. CASE UNCHANGED serviceVars \/ AllQuiet
  BY <1>1 DEF AllQuiet, serviceVars
<1>2. ASSUME NEW r \in Requests, Look(r)
      PROVE  UNCHANGED vars
  BY <1>2 DEF Look
<1>3. ASSUME NEW r \in Requests,
             Send(r) \/ Resend(r) \/ Step(r) \/ Fail(r) \/ LoseCommit(r)
      PROVE  Next
  BY <1>3 DEF Send, Resend, Next
<1> QED
  BY <1>1, <1>2, <1>3 DEF ServiceNext

(* Every behaviour of the service is one of Scheduler, whatever clients    *)
(* look at and whatever they repeat.                                       *)
THEOREM WritesAreSchedulers == ServiceSpec => Spec
<1>1. ServiceInit => Init
  BY DEF ServiceInit
<1> QED
  BY <1>1, ServiceStep, PTL DEF ServiceSpec, Spec

(* So its invariants hold.                                                 *)
WriteInv == IInv /\ LockInv /\ LoopInv

(* All three invariants of the writes hold whatever the service does.      *)
LEMMA WritesKeep == ServiceSpec => []WriteInv
BY WritesAreSchedulers, Invariance, LocksHeld, LoopsKept, PTL DEF WriteInv

-----------------------------------------------------------------------------
(* Contention is never a 500.                                              *)

(* The answers of each command that are neither a failure nor a verdict    *)
(* withheld.                                                               *)
Regular(r) ==
  /\ cmd[r] # None
  /\ cmd[r].op = "book" =>
       answer[r] \in {"confirmed", "rejected", "exhausted", "capped", "aborted",
                      "unknown-service"}
  /\ cmd[r].op = "move" =>
       answer[r] \in {"moved", "rejected", "not-found", "not-confirmed", "exhausted", "capped"}
  /\ cmd[r].op = "cancel" => answer[r] \in {"cancelled", "not-found"}

AllRegular ==
  UseLocks /\ Bays # {} /\ faults = 0 => \A r \in Requests : answer[r] # "none" => Regular(r)

(* What an answer given in a step of Scheduler may be.                     *)
LEMMA AnswerIs ==
  ASSUME WriteInv, LoopInv', UseLocks, Bays # {}, NEW r \in Requests, Step(r)
  PROVE  answer'[r] = answer[r] \/ Regular(r)'
<1>0. /\ TypeOK /\ PhaseOK /\ PhaseOf(r) /\ Succeeds(r)
      /\ cmd[r] \in CommandSet \cup {None}
  BY DEF WriteInv, IInv, PhaseOK, LockInv, TypeOK
<1>1. answer'[r] # "overrun"
  BY DEF LoopInv, LoopOf
<1>2. CASE AdviseRefused(r)
  <2>1. pc[r] = "advise" /\ cmd'[r] = cmd[r] /\ cmd[r] # None /\ cmd[r].op = "book"
    BY <1>0, <1>2 DEF AdviseRefused, Refuse, PhaseOf
  <2>2. answer'[r] \in {"rejected", "unknown-service"}
    BY <1>0, <1>2 DEF AdviseRefused, Refuse, Reply, TypeOK, Candidates, Kinds
  <2> QED
    BY <2>1, <2>2 DEF Regular
<1>3. CASE FindRefused(r)
  <2>1. pc[r] = "find" /\ cmd'[r] = cmd[r] /\ cmd[r] # None /\ cmd[r].op = "move"
    BY <1>0, <1>3 DEF FindRefused, Refuse, PhaseOf
  <2>2. answer'[r] \in {"rejected", "not-found"}
    BY <1>0, <1>3 DEF FindRefused, Refuse, Reply, TypeOK
  <2> QED
    BY <2>1, <2>2 DEF Regular
<1>4. CASE NotConfirmed(r)
  <2>1. cmd'[r] = cmd[r] /\ cmd[r] # None /\ cmd[r].op = "move"
    BY <1>0, <1>4 DEF NotConfirmed, Writable, PhaseOf
  <2>2. answer'[r] = "not-confirmed"
    BY <1>0, <1>4 DEF NotConfirmed, Reply, TypeOK
  <2> QED
    BY <2>1, <2>2 DEF Regular
<1>5. CASE CheckFail(r)
  <2>1. cmd'[r] = cmd[r] /\ cmd[r] # None /\ cmd[r].op # "cancel" /\ cmd[r].op \in {"book", "move"}
    BY <1>0, <1>5, CommandType DEF CheckFail, Conflict, PhaseOf, InAttempt, Kinds
  <2>2. answer'[r] \in {answer[r], "exhausted", "capped", "overrun"}
    BY <1>0, <1>5 DEF CheckFail, Conflict, BeginAttempt, Reply, TypeOK
  <2> QED
    BY <1>1, <2>1, <2>2 DEF Regular
<1>6. CASE BadReference(r)
  <2>1. cmd'[r] = cmd[r] /\ cmd[r] # None /\ cmd[r].op = "book" /\ answer'[r] = "aborted"
    BY <1>0, <1>6 DEF BadReference, Reply, TypeOK, PhaseOf
  <2> QED
    BY <2>1 DEF Regular
<1>7. CASE Commit(r)
  <2>1. cmd'[r] = cmd[r] /\ cmd[r] # None /\ cmd[r].op \in {"book", "move", "cancel"}
    BY <1>0, <1>7, CommandType DEF Commit, Committable, PhaseOf
  <2>2. answer'[r] = Acknowledgement(r)
    BY <1>0, <1>7 DEF Commit, Reply, TypeOK
  <2> QED
    BY <2>1, <2>2 DEF Regular, Acknowledgement
<1>8. CASE CancelMissing(r)
  <2>1. cmd'[r] = cmd[r] /\ cmd[r] # None /\ cmd[r].op = "cancel" /\ answer'[r] = "not-found"
    BY <1>0, <1>8 DEF CancelMissing, Refuse, Reply, TypeOK, PhaseOf, Succeeds
  <2> QED
    BY <2>1 DEF Regular
<1>9. CASE Deadlock(r)
  BY <1>0, <1>9, NoCircle DEF Deadlock, WriteInv
<1>10. CASE \/ Advise(r) \/ Find(r) \/ LockRow(r) \/ LockKey(r) \/ Write(r) \/ CheckPass(r)
            \/ Cancel(r)
  BY <1>10 DEF Advise, Find, LockRow, LockKey, Write, CheckPass, Cancel, BeginAttempt
<1> QED
  BY <1>2, <1>3, <1>4, <1>5, <1>6, <1>7, <1>8, <1>9, <1>10 DEF Step

(* Without a failure, answers stay regular.                                *)
LEMMA RegularStep ==
  ASSUME WriteInv, AllRegular, [Next]_vars, LoopInv'
  PROVE  AllRegular'
<1>0. TypeOK /\ PhaseOK
  BY DEF WriteInv, IInv
<1> SUFFICES ASSUME UseLocks, Bays # {}, faults' = 0, NEW q \in Requests, answer'[q] # "none"
             PROVE  Regular(q)'
  BY DEF AllRegular
<1>1. CASE UNCHANGED vars
  BY <1>1 DEF vars, requestVars, AllRegular, Regular
<1>2. ASSUME NEW r \in Requests, Arrive(r) \/ Step(r) \/ Fail(r) \/ LoseCommit(r)
      PROVE  Regular(q)'
  <2>1. Arrive(r) \/ Step(r)
    BY <1>0, <1>2 DEF Fail, LoseCommit, TypeOK
  <2>2. faults = 0
    BY <2>1, <1>0 DEF Arrive, Step, AdviseRefused, Advise, FindRefused, Find, LockRow, LockKey,
       Write, NotConfirmed, CheckPass, CheckFail, Conflict, BadReference, Commit, Cancel,
       CancelMissing, Deadlock, Refuse
  <2>3. answer[q] # "none" => Regular(q) /\ pc[q] = "done"
    BY <2>2 DEF AllRegular, WriteInv, LoopInv, LoopOf
  <2>4. CASE q # r
    BY <1>0, <1>2, <2>3, <2>4, LoopStepsAlone DEF LoopAlone, Regular
  <2>5. CASE q = r /\ Arrive(r)
    BY <2>3, <2>5 DEF Arrive
  <2>6. CASE q = r /\ Step(r)
    <3>1. pc[r] # "done" => answer[r] = "none"
      BY <2>3, <2>6
    <3>2. pc[r] # "done"
      BY <2>6 DEF Step, AdviseRefused, Advise, FindRefused, Find, LockRow, LockKey, Write,
         NotConfirmed, CheckPass, CheckFail, BadReference, Commit, Committable, Cancel,
         CancelMissing, Deadlock, Waiting, Awaits, Kinds
    <3> QED
      BY <2>6, <3>1, <3>2, AnswerIs
  <2> QED
    BY <2>1, <2>4, <2>5, <2>6
<1> QED
  BY <1>1, <1>2 DEF Next, Quiet

(* A regular answer has a status of its own.                               *)
LEMMA RegularStatus ==
  ASSUME TypeOK, NEW r \in Requests, answer[r] # "none" => Regular(r)
  PROVE  Status(r) # 500
<1>1. CASE answer[r] = "none"
  BY <1>1 DEF Status, Thrown
<1>2. CASE answer[r] # "none"
  <2>1. Regular(r) /\ cmd[r].op \in {"book", "move", "cancel"} /\ answer[r] \notin Thrown
    BY <1>2, CommandType DEF Regular, Thrown, TypeOK
  <2>2. CASE cmd[r].op = "book"
    <3>1. Status(r) = BookStatus(answer[r])
      BY <1>2, <2>1, <2>2 DEF Status
    <3>2. BookStatus(answer[r]) \in {201, 400, 409, 422}
      BY <2>1, <2>2 DEF Regular, BookStatus
    <3> QED
      BY <3>1, <3>2
  <2>3. CASE cmd[r].op = "move"
    <3>1. Status(r) = MoveStatus(answer[r])
      BY <1>2, <2>1, <2>3 DEF Status
    <3>2. MoveStatus(answer[r]) \in {200, 400, 404, 409}
      BY <2>1, <2>3 DEF Regular, MoveStatus
    <3> QED
      BY <3>1, <3>2
  <2>4. CASE cmd[r].op = "cancel"
    <3>1. Status(r) = CancelStatus(answer[r])
      BY <1>2, <2>1, <2>4 DEF Status
    <3>2. CancelStatus(answer[r]) \in {200, 404}
      BY <2>1, <2>4 DEF Regular, CancelStatus
    <3> QED
      BY <3>1, <3>2
  <2> QED
    BY <2>1, <2>2, <2>3, <2>4
<1> QED
  BY <1>1, <1>2

(* With the advisory locks, a 500 reports a failed statement or a          *)
(* dealership without bays, and never contention: every 40P01, and the     *)
(* loop's throw, is out of reach (the internal row of the taxonomy, QS-5). *)
THEOREM NeverContention == ServiceSpec => []ContentionIsNever500
<1>1. ServiceInit => AllRegular
  BY DEF ServiceInit, Init, AllRegular
<1>2. WriteInv /\ WriteInv' /\ AllRegular /\ [ServiceNext]_serviceVars => AllRegular'
  BY RegularStep, ServiceStep DEF WriteInv
<1>3. WriteInv /\ AllRegular => ContentionIsNever500
  BY RegularStatus DEF WriteInv, IInv, AllRegular, ContentionIsNever500
<1> QED
  BY <1>1, <1>2, <1>3, WritesKeep, PTL DEF ServiceSpec

-----------------------------------------------------------------------------
(* A repeated move stays in place.                                         *)

(* A row that has changed since a client learned of it shows it: updated_at*)
(* never comes back to what it was.                                        *)
Newer(v, w) == v # None => w # None /\ (w = v \/ w.rev > v.rev)

SeenBefore == /\ view \in [Requests -> [Ids -> Rows]]
              /\ \A r \in Requests, a \in Ids : Newer(view[r][a], table[a])

(* r moves a confirmed row to the interval it has, and which it had when r *)
(* arrived.                                                                *)
MovesToItself(r) ==
  /\ cmd[r] # None /\ cmd[r].op = "move"
  /\ table[Target(r)] # None /\ table[Target(r)] = view[r][Target(r)]
  /\ table[Target(r)].status = "confirmed" /\ table[Target(r)].slot = cmd[r].slot

(* Then the pair it tries is the row's own.                                *)
TriesItsOwn(r) == InAttempt(r) /\ MovesToItself(r) => pair[r] = table[Target(r)].at

StaysInv == SeenBefore /\ \A r \in Requests : TriesItsOwn(r)

(* A commit on a stored row writes it anew, or leaves it as it is.         *)
LEMMA RowGrows ==
  ASSUME TypeOK, PhaseOK, LockInv, [Next]_vars, NEW a \in Ids
  PROVE  Newer(table[a], table'[a])
<1> SUFFICES ASSUME table[a] # None, table'[a] # table[a]
             PROVE  table'[a] # None /\ table'[a].rev > table[a].rev
  BY DEF Newer
<1>1. PICK r \in Requests : Stores(r)
  BY TableSteps
<1>2. Minted(r) /\ Succeeds(r) /\ PhaseOf(r) /\ table \in [Ids -> Rows]
  BY DEF LockInv, PhaseOK, TypeOK
<1>3. a = Target(r) /\ table'[a] = pending[r]
  BY <1>1, <1>2 DEF Stores
<1>4. table[a] \in Versions /\ table[a].rev \in Nat
  BY <1>2, RowIsVersion
<1>5. CASE pc[r] = "commit"
  <2>1. cmd[r].op # "book" /\ pending[r] = NewVersion(r) /\ pending[r] # None
    BY <1>2, <1>3, <1>5 DEF Minted, Succeeds, Writing, PhaseOf
  <2>2. pending[r].rev = table[a].rev + 1
    BY <1>3, <1>4, <2>1 DEF NewVersion, Versions
  <2> QED
    BY <1>3, <1>4, <2>1, <2>2
<1>6. CASE pc[r] = "cancelling"
  <2>1. pending[r] = CancelledVersion(table[a]) /\ pending[r] # None
    BY <1>2, <1>3, <1>6 DEF Succeeds, PhaseOf
  <2>2. pending[r].rev = table[a].rev + 1
    BY <1>3, <1>4, <2>1 DEF CancelledVersion, Versions
  <2> QED
    BY <1>3, <1>4, <2>1, <2>2
<1> QED
  BY <1>1, <1>5, <1>6 DEF Stores

(* A client's view is taken of the table as it is, before any attempt, or  *)
(* kept.                                                                   *)
LEMMA ViewStep ==
  ASSUME TypeOK, SeenBefore, [ServiceNext]_serviceVars, NEW q \in Requests, view'[q] # view[q]
  PROVE  view'[q] = table /\ table' = table /\ ~ InAttempt(q)'
<1>1. view' # view /\ table \in [Ids -> Rows] /\ pc \in [Requests -> Phases]
  BY DEF TypeOK
<1>2. PICK r \in Requests : Look(r) \/ Send(r) \/ Resend(r)
  BY <1>1 DEF ServiceNext, AllQuiet, serviceVars, clientVars
<1>3. CASE Look(r)
  <2>1. q = r /\ view'[q] = table /\ pc[r] = "idle" /\ UNCHANGED vars
    BY <1>3 DEF Look, SeenBefore
  <2> QED
    BY <2>1 DEF vars, InAttempt
<1>4. CASE Send(r) \/ Resend(r)
  <2>1. q = r /\ view'[q] = table /\ Arrive(r)
    BY <1>4 DEF Send, Resend, SeenBefore
  <2>2. pc'[r] \in {"advise", "find", "cancel"}
    <3>1. PICK c \in Commands :
            pc'[r] = CASE c.op = "book" -> "advise" [] c.op = "move" -> "find"
                       [] c.op = "cancel" -> "cancel"
      BY <1>1, <2>1 DEF Arrive, Goto
    <3>2. c.op \in {"book", "move", "cancel"}
      BY CommandAssumption DEF CommandSet
    <3> QED
      BY <3>1, <3>2
  <2> QED
    BY <2>1, <2>2 DEF Arrive, InAttempt
<1> QED
  BY <1>2, <1>3, <1>4

(* A row seen to be what it was has been that all along.                   *)
LEMMA NewerOf ==
  ASSUME NEW u \in Rows, NEW v \in Rows, NEW w \in Rows, Newer(u, v), Newer(v, w)
  PROVE  Newer(u, w) /\ (u # None /\ u = w => u = v)
<1>1. \A x \in Rows : x # None => x.rev \in Nat
  BY RowIsVersion
<1> QED
  BY <1>1 DEF Newer

(* No check fails for a row that stays where it is: what would clash with  *)
(* the new version clashes with the old one.                               *)
LEMMA NeverRefused ==
  ASSUME IInv, LockInv, NEW r \in Requests, MovesToItself(r), TriesItsOwn(r)
  PROVE  ~ CheckFail(r)
<1> SUFFICES ASSUME CheckFail(r)
             PROVE  FALSE
  OBVIOUS
<1>0. /\ TypeOK /\ NoDoubleBooking /\ Succeeds(r) /\ table \in [Ids -> Rows]
      /\ cmd[r] \in CommandSet
  BY DEF IInv, LockInv, TypeOK, MovesToItself
<1>1. pc[r] \in Kinds /\ Taken(r, pc[r])
  BY DEF CheckFail
<1>2. InAttempt(r) /\ Writing(r) /\ Target(r) \in Ids
  BY <1>0, <1>1 DEF InAttempt, Writing, Kinds, Target, CommandSet
<1>3. pending[r] = NewVersion(r) /\ pair[r] = table[Target(r)].at
  BY <1>0, <1>2 DEF Succeeds, TriesItsOwn
<1>4. pending[r].at = table[Target(r)].at /\ pending[r].slot = table[Target(r)].slot
  <2>1. table[Target(r)] \in Versions
    BY <1>0, <1>2, RowIsVersion DEF MovesToItself
  <2> QED
    BY <1>3, <2>1 DEF NewVersion, MovesToItself, Versions
<1>5. PICK a \in Ids \ {Target(r)} : Occupies(table[a]) /\ Clash(table[a], pending[r], pc[r])
  BY <1>1 DEF Taken
<1>6. Occupies(table[Target(r)]) /\ Clash(table[a], table[Target(r)], pc[r])
  BY <1>4, <1>5 DEF MovesToItself, Occupies, Clash
<1> QED
  BY <1>0, <1>1, <1>2, <1>5, <1>6 DEF NoDoubleBooking, ConflictFree

(* Every step of a request keeps it at its own pair.                       *)
LEMMA OwnPairStep ==
  ASSUME WriteInv, NEW r \in Requests, Step(r) \/ Arrive(r) \/ Fail(r) \/ LoseCommit(r),
         InAttempt(r)', cmd'[r] # None, cmd'[r].op = "move",
         MovesToItself(r) => ~ CheckFail(r), cmd'[r] = cmd[r] => MovesToItself(r),
         TriesItsOwn(r)
  PROVE  pair'[r] = table[Target(r)].at /\ cmd'[r] = cmd[r]
<1>0. TypeOK /\ PhaseOK /\ PhaseOf(r)
  BY DEF WriteInv, IInv, PhaseOK
<1>1. ASSUME Ends(r) PROVE FALSE
  BY <1>0, <1>1 DEF Ends, TypeOK, InAttempt
<1>2. ~ Arrive(r)
  <2> SUFFICES ASSUME Arrive(r) PROVE FALSE
    OBVIOUS
  <2>1. PICK c \in Commands :
          pc'[r] = CASE c.op = "book" -> "advise" [] c.op = "move" -> "find"
                     [] c.op = "cancel" -> "cancel"
    BY <1>0 DEF Arrive, Goto, TypeOK
  <2>2. c.op \in {"book", "move", "cancel"}
    BY CommandAssumption DEF CommandSet
  <2> QED
    BY <2>1, <2>2 DEF InAttempt
<1>3. ~ (\/ AdviseRefused(r) \/ FindRefused(r) \/ NotConfirmed(r) \/ BadReference(r)
         \/ CancelMissing(r) \/ Fail(r) \/ Deadlock(r) \/ Commit(r) \/ LoseCommit(r))
  BY <1>1, EndsSteps, StoresSteps DEF Stores
<1>4. ~ Cancel(r)
  BY <1>0 DEF Cancel, Goto, TypeOK, InAttempt
<1>5. ~ Advise(r)
  BY <1>0 DEF Advise, PhaseOf
<1>6. CASE Find(r)
  BY <1>0, <1>6 DEF Find, BeginAttempt, TypeOK
<1>7. CASE LockRow(r) \/ LockKey(r) \/ Write(r) \/ CheckPass(r)
  <2>1. InAttempt(r) /\ cmd' = cmd /\ pair' = pair
    BY <1>7 DEF LockRow, LockKey, Write, CheckPass, InAttempt, Kinds, requestVars
  <2> QED
    BY <2>1 DEF TriesItsOwn
<1>8. CASE CheckFail(r)
  BY <1>0, <1>8, CheckFailSteps
<1> QED
  BY <1>2, <1>3, <1>4, <1>5, <1>6, <1>7, <1>8 DEF Step

(* A row that is now what a client saw has not changed; so the pair tried, *)
(* which was its own, still is.                                            *)
LEMMA StaysStep ==
  ASSUME WriteInv, StaysInv, [ServiceNext]_serviceVars, TypeOK',
         view' \in [Requests -> [Ids -> Rows]]
  PROVE  StaysInv'
<1>0. /\ TypeOK /\ PhaseOK /\ LockInv /\ IInv /\ SeenBefore /\ [Next]_vars
      /\ table \in [Ids -> Rows] /\ table' \in [Ids -> Rows]
      /\ cmd' \in [Requests -> CommandSet \cup {None}]
  BY ServiceStep DEF WriteInv, IInv, StaysInv, TypeOK
<1>1. ASSUME NEW q \in Requests, NEW a \in Ids
      PROVE  /\ Newer(view'[q][a], table'[a])
             /\ view'[q] = view[q] /\ view[q][a] # None /\ view[q][a] = table'[a]
                  => view[q][a] = table[a]
  <2>1. Newer(table[a], table'[a])
    BY <1>0, RowGrows
  <2>2. CASE view'[q] = view[q]
    <3>1. Newer(view[q][a], table[a]) /\ view[q][a] \in Rows
      BY <1>0 DEF SeenBefore
    <3>2. table[a] \in Rows /\ table'[a] \in Rows
      BY <1>0
    <3> QED
      BY <2>1, <2>2, <3>1, <3>2, NewerOf
  <2>3. CASE view'[q] # view[q]
    BY <1>0, <2>1, <2>3, ViewStep
  <2> QED
    BY <2>2, <2>3
<1>2. ASSUME NEW q \in Requests, InAttempt(q)', MovesToItself(q)'
      PROVE  pair'[q] = (table[Target(q)].at)'
  <2>1. view'[q] = view[q]
    BY <1>0, <1>2, ViewStep
  <2>2. cmd'[q] \in CommandSet /\ cmd'[q].id \in Ids
    BY <1>0, <1>2 DEF MovesToItself, CommandSet
  <2>3. table'[cmd'[q].id] = table[cmd'[q].id] /\ view[q][cmd'[q].id] = table[cmd'[q].id]
    BY <1>1, <1>2, <2>1, <2>2 DEF MovesToItself, Target
  <2>4. cmd'[q] = cmd[q] => MovesToItself(q)
    BY <1>2, <2>3 DEF MovesToItself, Target
  <2>5. TriesItsOwn(q)
    BY DEF StaysInv
  <2>6. CASE cmd'[q] = cmd[q] /\ pc'[q] = pc[q] /\ pair'[q] = pair[q]
    BY <1>2, <2>3, <2>4, <2>5, <2>6 DEF TriesItsOwn, InAttempt, Target
  <2>7. CASE ~ (cmd'[q] = cmd[q] /\ pc'[q] = pc[q] /\ pair'[q] = pair[q])
    <3>1. PICK r \in Requests : Arrive(r) \/ Step(r) \/ Fail(r) \/ LoseCommit(r)
      BY <1>0, <2>7 DEF Next, Quiet, vars, requestVars
    <3>2. q = r
      BY <1>0, <2>7, <3>1, LoopStepsAlone DEF LoopAlone
    <3>3. MovesToItself(q) => ~ CheckFail(q)
      BY <1>0, <2>5, NeverRefused
    <3>4. cmd'[q] # None /\ cmd'[q].op = "move"
      BY <1>2 DEF MovesToItself
    <3>5. pair'[q] = table[Target(q)].at /\ cmd'[q] = cmd[q]
      BY <1>2, <2>4, <2>5, <3>1, <3>2, <3>3, <3>4, OwnPairStep
    <3> QED
      BY <2>3, <3>5 DEF Target
  <2> QED
    BY <2>6, <2>7
<1> QED
  BY <1>1, <1>2 DEF StaysInv, SeenBefore, TriesItsOwn

(* A move to its own interval is decided by its commit, in place.          *)
Stays(r) ==
  Decides(r) /\ cmd[r].op = "move" /\ cmd[r].derives =>
    LET id == Target(r)
    IN  table[id] # None /\ table[id] = view[r][id] /\ table[id].status = "confirmed"
          /\ table[id].slot = cmd[r].slot
        => answer'[r] = "moved" /\ table'[id].at = table[id].at

(* Locks, checks and guards let it through.                                *)
LEMMA DecidedInPlace ==
  ASSUME UseLocks, WriteInv, StaysInv, [Next]_vars, NEW r \in Requests,
         Decides(r), cmd[r].op = "move", cmd[r].derives,
         table[Target(r)] # None, table[Target(r)] = view[r][Target(r)],
         table[Target(r)].status = "confirmed", table[Target(r)].slot = cmd[r].slot
  PROVE  answer'[r] = "moved" /\ table'[Target(r)].at = table[Target(r)].at
<1>0. /\ IInv /\ TypeOK /\ PhaseOK /\ LockInv /\ PhaseOf(r) /\ Succeeds(r)
      /\ Minted(r) /\ TriesItsOwn(r) /\ table \in [Ids -> Rows]
  BY DEF WriteInv, IInv, PhaseOK, LockInv, StaysInv, TypeOK
<1>1. answer' # answer /\ answer'[r] \notin {"none", "error"} /\ answer'[r] # answer[r]
  BY DEF Decides
<1>2. PICK q \in Requests : Arrive(q) \/ Step(q) \/ Fail(q) \/ LoseCommit(q)
  BY <1>1 DEF Next, Quiet, vars
<1>3. q = r
  BY <1>0, <1>1, <1>2, LoopStepsAlone DEF LoopAlone
<1>4. ~ (Arrive(r) \/ Fail(r) \/ LoseCommit(r))
  BY <1>0, <1>1 DEF Arrive, Fail, LoseCommit, Reply, TypeOK
<1>5. pc[r] # "idle"
  BY <1>2, <1>3, <1>4, EndsSteps DEF Step, Advise, Find, LockRow, LockKey, Write, CheckPass,
     Kinds, CheckFail, Commit, Committable, Cancel, Ends
<1>6. MovesToItself(r)
  BY <1>0, <1>5 DEF MovesToItself, PhaseOf
<1>7. ~ CheckFail(r)
  BY <1>0, <1>6, NeverRefused
<1>8. ~ Deadlock(r)
  BY <1>0, NoCircle DEF Deadlock
<1>9. ~ (AdviseRefused(r) \/ FindRefused(r) \/ BadReference(r) \/ CancelMissing(r))
  BY <1>0 DEF AdviseRefused, FindRefused, BadReference, CancelMissing, PhaseOf, Succeeds
<1>10. ~ NotConfirmed(r)
  BY DEF NotConfirmed, Writable
<1>11. ~ (\/ Advise(r) \/ Find(r) \/ LockRow(r) \/ LockKey(r) \/ Write(r) \/ CheckPass(r)
          \/ Cancel(r))
  BY <1>1 DEF Advise, Find, LockRow, LockKey, Write, CheckPass, Cancel, BeginAttempt
<1>12. Commit(r)
  BY <1>2, <1>3, <1>4, <1>7, <1>8, <1>9, <1>10, <1>11 DEF Step
<1>13. answer'[r] = "moved"
  BY <1>0, <1>12 DEF Commit, Reply, Acknowledgement, TypeOK
<1>14. pc[r] = "commit" /\ pending[r] = NewVersion(r) /\ pair[r] = table[Target(r)].at
  BY <1>0, <1>6, <1>12 DEF Commit, Committable, Succeeds, Writing, TriesItsOwn, InAttempt
<1>15. Target(r) \in Ids /\ table[Target(r)] \in Versions
  BY <1>0, <1>5, CommandType, RowIsVersion DEF TypeOK, PhaseOf, Target
<1>16. table'[Target(r)].at = table[Target(r)].at
  BY <1>0, <1>12, <1>14, <1>15 DEF Commit, NewVersion, Versions
<1> QED
  BY <1>13, <1>16

(* A view is a table.                                                      *)
LEMMA ViewTyped ==
  ASSUME TypeOK, view \in [Requests -> [Ids -> Rows]], [ServiceNext]_serviceVars
  PROVE  view' \in [Requests -> [Ids -> Rows]]
BY DEF TypeOK, ServiceNext, Look, Send, Resend, AllQuiet, serviceVars, clientVars

(* With the advisory locks, a move to the interval its row has, as one     *)
(* repeated after a lost acknowledgement is, succeeds in place, whatever   *)
(* other requests do to other rows meanwhile (rescheduleAppointment, QS-5).*)
THEOREM StaysInPlace == UseLocks /\ ServiceSpec => RepeatedMoveStays
<1> SUFFICES ASSUME UseLocks PROVE ServiceSpec => RepeatedMoveStays
  OBVIOUS
<1>1. ServiceInit => StaysInv
  BY InitialAssumption DEF ServiceInit, Init, StaysInv, SeenBefore, Newer, TriesItsOwn, InAttempt
<1>2. WriteInv /\ WriteInv' /\ StaysInv /\ [ServiceNext]_serviceVars => StaysInv'
  BY StaysStep, ViewTyped DEF WriteInv, IInv, StaysInv, SeenBefore
<1>3. WriteInv /\ StaysInv /\ [ServiceNext]_serviceVars
        => [\A r \in Requests : Stays(r)]_serviceVars
  BY ServiceStep, DecidedInPlace DEF Stays
<1> QED
  BY <1>1, <1>2, <1>3, WritesKeep, PTL DEF ServiceSpec, RepeatedMoveStays, Stays

-----------------------------------------------------------------------------
(* A request decided while no appointment changed.                         *)

(* The rows of others.                                                     *)
Others(r) == [table EXCEPT ![Target(r)] = None]

(* What a request was refused is busy with other rows, as long as the      *)
(* table is what the client knows it to be.                                *)
StillBusy(r) ==
  /\ cmd[r] = None => conflicts[r] = {}
  /\ cmd[r] # None /\ view[r] = table =>
       \A c \in conflicts[r] : c[2] \in Busy(Others(r), cmd[r].slot)[c[1]]

(* What a client was offered is what was free in the table it saw; the     *)
(* booking it then sends is the one it asked about, and tries a pair of    *)
(* those offered first.                                                    *)
Offered(r) ==
  ask[r] # None =>
    /\ ask[r].op = "book" /\ ask[r].id = r /\ ask[r].derives /\ Previous[r] = None
    /\ \A k \in Kinds :
         offer[r][k] = Candidates(ask[r].service)[k] \ Busy(view[r], ask[r].slot)[k]
    /\ cmd[r] # None => cmd[r] = ask[r]
    /\ InAttempt(r) /\ view[r] = table /\ ~ Exhausted(offer[r]) =>
         attempts[r] = 1 /\ \A k \in Kinds : pair[r][k] \in offer[r][k]

ClientTyped == /\ ask \in [Requests -> CommandSet \cup {None}]
               /\ offer \in [Requests -> [Kinds -> SUBSET Resources]]

ClientInv ==
  /\ SeenBefore /\ ClientTyped
  /\ \A r \in Requests : StillBusy(r) /\ Offered(r) /\ (InAttempt(r) => cmd[r].derives)

(* A step is r's own or leaves what is r's as it is.                       *)
LEMMA OwnSteps ==
  ASSUME TypeOK, [Next]_vars, NEW r \in Requests
  PROVE  \/ Arrive(r) \/ Step(r) \/ Fail(r) \/ LoseCommit(r)
         \/ /\ cmd'[r] = cmd[r] /\ pair'[r] = pair[r] /\ attempts'[r] = attempts[r]
            /\ conflicts'[r] = conflicts[r] /\ pc'[r] = pc[r] /\ answer'[r] = answer[r]
<1>1. ASSUME NEW q \in Requests \ {r}, Arrive(q) \/ Step(q) \/ Fail(q) \/ LoseCommit(q)
      PROVE  /\ cmd'[r] = cmd[r] /\ pair'[r] = pair[r] /\ attempts'[r] = attempts[r]
             /\ conflicts'[r] = conflicts[r] /\ pc'[r] = pc[r] /\ answer'[r] = answer[r]
  BY <1>1, LoopStepsAlone DEF LoopAlone
<1>2. CASE UNCHANGED vars
  BY <1>2 DEF vars, requestVars
<1> QED
  BY <1>1, <1>2 DEF Next, Quiet

(* A view is only taken before the request has arrived, and what the       *)
(* client has asked and was offered only then changes.                     *)
LEMMA ViewsAreFirst ==
  ASSUME TypeOK, LockInv, SeenBefore, ClientTyped, [ServiceNext]_serviceVars, NEW r \in Requests,
         cmd[r] # None
  PROVE  view'[r] = view[r] /\ ask'[r] = ask[r] /\ offer'[r] = offer[r]
<1>1. pc[r] # "idle"
  BY DEF LockInv, Minted
<1>2. ASSUME NEW q \in Requests, Look(q) \/ Send(q) \/ Resend(q)
      PROVE  view'[r] = view[r] /\ ask'[r] = ask[r] /\ offer'[r] = offer[r]
  <2>1. pc[q] = "idle"
    BY <1>2 DEF Look, Send, Resend, Arrive
  <2>2. q # r
    BY <1>1, <2>1
  <2> QED
    BY <1>2, <2>2 DEF Look, Send, Resend, SeenBefore, ClientTyped
<1> QED
  BY <1>2 DEF ServiceNext, AllQuiet, serviceVars, clientVars

(* A table that is what a client saw has been that all along.              *)
LEMMA SeenStays ==
  ASSUME WriteInv, SeenBefore, [ServiceNext]_serviceVars, TypeOK', NEW r \in Requests,
         view'[r] = table'
  PROVE  table' = table /\ (view'[r] = view[r] => view[r] = table)
<1>0. /\ TypeOK /\ PhaseOK /\ LockInv /\ [Next]_vars
      /\ table \in [Ids -> Rows] /\ table' \in [Ids -> Rows]
  BY ServiceStep DEF WriteInv, IInv, TypeOK
<1>1. CASE view'[r] # view[r]
  BY <1>0, <1>1, ViewStep
<1>2. CASE view'[r] = view[r]
  <2>1. ASSUME NEW a \in Ids
        PROVE  table'[a] = table[a]
    <3>1. Newer(view[r][a], table[a]) /\ view[r][a] = table'[a]
      BY <1>2 DEF SeenBefore
    <3>2. Newer(table[a], table'[a]) /\ table[a] \in Rows /\ table'[a] \in Rows
      BY <1>0, RowGrows
    <3>3. CASE view[r][a] # None
      BY <3>1, <3>2, <3>3, NewerOf
    <3>4. CASE view[r][a] = None
      BY <3>1, <3>2, <3>4 DEF Newer
    <3> QED
      BY <3>3, <3>4
  <2>2. table' = table
    BY <1>0, <2>1
  <2> QED
    BY <1>2, <2>2
<1> QED
  BY <1>1, <1>2

-----------------------------------------------------------------------------
(* What the checks see is what a search of the table would see.            *)

(* A version in flight is of the pair tried and the interval asked for.    *)
LEMMA InFlightIs ==
  ASSUME TypeOK, PhaseOK, LockInv, NEW r \in Requests, Writing(r)
  PROVE  /\ pending[r].at = pair[r] /\ pending[r].slot = cmd[r].slot /\ Target(r) \in Ids
         /\ cmd[r] \in CommandSet /\ cmd[r].op \in {"book", "move"}
         /\ cmd[r].op = "move" => table[Target(r)] \in Versions
<1>1. cmd[r] \in CommandSet /\ cmd[r].op \in {"book", "move"} /\ PhaseOf(r) /\ InAttempt(r)
  BY CommandType DEF PhaseOK, PhaseOf, Writing, InAttempt, TypeOK
<1>2. Target(r) \in Ids /\ pending[r] = NewVersion(r)
  BY <1>1 DEF Target, CommandSet, LockInv, Succeeds
<1>3. cmd[r].op = "move" => table[Target(r)] \in Versions
  BY <1>1, <1>2, RowIsVersion DEF PhaseOf, TypeOK
<1> QED
  BY <1>1, <1>2, <1>3 DEF NewVersion, Versions

(* A resource whose check fails is busy with another row.                  *)
LEMMA TakenElsewhere ==
  ASSUME TypeOK, PhaseOK, LockInv, NEW r \in Requests, NEW k \in Kinds, pc[r] = k, Taken(r, k)
  PROVE  pair[r][k] \in Busy(Others(r), cmd[r].slot)[k]
<1>1. /\ Writing(r) /\ table \in [Ids -> Rows]
      /\ pending[r].at = pair[r] /\ pending[r].slot = cmd[r].slot /\ Target(r) \in Ids
  BY InFlightIs DEF Writing, Kinds, TypeOK
<1>2. PICK a \in Ids \ {Target(r)} : Occupies(table[a]) /\ Clash(table[a], pending[r], k)
  BY DEF Taken
<1>3. Others(r)[a] = table[a]
  BY <1>1, <1>2 DEF Others
<1> QED
  BY <1>1, <1>2, <1>3 DEF Clash, Busy

(* One whose checks have passed is not.                                    *)
LEMMA PassedIsFree ==
  ASSUME IInv, LockInv, NEW r \in Requests, pc[r] = "commit", NEW k \in Kinds
  PROVE  pair[r][k] \notin Busy(Others(r), cmd[r].slot)[k]
<1>1. /\ Passed(r, k) /\ PassedClear /\ TypeOK /\ PhaseOK /\ table \in [Ids -> Rows]
  BY DEF IInv, TypeOK, Passed
<1>2. /\ pending[r].at = pair[r] /\ pending[r].slot = cmd[r].slot /\ Target(r) \in Ids
  BY <1>1, InFlightIs DEF Writing
<1>3. ASSUME NEW a \in Ids, Occupies(Others(r)[a]), Overlaps(Others(r)[a].slot, cmd[r].slot)
      PROVE  Others(r)[a].at[k] # pair[r][k]
  <2>1. a # Target(r) /\ Others(r)[a] = table[a]
    BY <1>1, <1>2, <1>3 DEF Others, Occupies
  <2> QED
    BY <1>1, <1>2, <1>3, <2>1 DEF PassedClear, Clash
<1> QED
  BY <1>3 DEF Busy

(* A booking has no row yet.                                               *)
LEMMA BookingHasNone ==
  ASSUME TypeOK, LockInv, NEW r \in Requests, cmd[r] # None, cmd[r].op = "book", pc[r] # "done"
  PROVE  Others(r) = table
<1>1. Target(r) = r /\ table[r] = None /\ table \in [Ids -> Rows]
  BY DEF LockInv, Minted, TypeOK
<1> QED
  BY <1>1 DEF Others

(* Nor has a search of every pair anything to offer when one kind is busy, *)
(* and it has where both of a pair are not.                                *)
LEMMA NoPair ==
  ASSUME NEW t, NEW s, NEW slot, NEW k \in Kinds,
         \A x \in Candidates(s)[k] : x \in Busy(t, slot)[k]
  PROVE  ~ FreePair(t, s, slot)
<1>1. ASSUME NEW p \in Places, p["technician"] \in Qualified[s]
      PROVE  p[k] \in Candidates(s)[k]
  BY <1>1 DEF Places, Candidates, Kinds
<1> QED
  BY <1>1 DEF FreePair

(* A pair that has passed both checks is one a search would find.          *)
LEMMA CommitIsFree ==
  ASSUME IInv, LockInv, QualifiedInv, NEW r \in Requests, pc[r] = "commit"
  PROVE  FreePair(Others(r), ServiceOf(r), cmd[r].slot)
<1>1. pair[r] \in Places
  BY DEF IInv, TypeOK, PhaseOK, PhaseOf, InAttempt
<1>2. pair[r]["technician"] \in Qualified[ServiceOf(r)]
  BY DEF QualifiedInv, PairsQualified, InAttempt
<1>3. \A k \in Kinds : pair[r][k] \notin Busy(Others(r), cmd[r].slot)[k]
  BY PassedIsFree
<1> QED
  BY <1>1, <1>2, <1>3 DEF FreePair

(* A refusal as exhausted is what a search would say, if nothing changed.  *)
LEMMA ExhaustedIsBusy ==
  ASSUME WriteInv, NEW r \in Requests, StillBusy(r), view[r] = table, CheckFail(r),
         Exhausted(Prune(r, pc[r], ServiceOf(r)))
  PROVE  ~ FreePair(Others(r), ServiceOf(r), cmd[r].slot)
<1> DEFINE s == ServiceOf(r)
           order == Prune(r, pc[r], s)
<1>1. TypeOK /\ PhaseOK /\ LockInv /\ LoopInv /\ pc[r] \in Kinds /\ Taken(r, pc[r])
  BY DEF WriteInv, IInv, CheckFail
<1>2. cmd[r] # None
  BY <1>1 DEF PhaseOK, PhaseOf, Kinds
<1>3. \A j \in Kinds : \A x \in Candidates(s)[j] \ order[j] :
        <<j, x>> \in conflicts[r] \cup {<<pc[r], pair[r][pc[r]]>>}
  BY <1>1, Pruned
<1>4. pair[r][pc[r]] \in Busy(Others(r), cmd[r].slot)[pc[r]]
  BY <1>1, TakenElsewhere
<1> HIDE DEF order, s
<1>5. PICK j \in Kinds : order[j] = {}
  BY DEF Exhausted, order, s
<1>6. ASSUME NEW x \in Candidates(s)[j]
      PROVE  x \in Busy(Others(r), cmd[r].slot)[j]
  <2>1. <<j, x>> \in conflicts[r] \cup {<<pc[r], pair[r][pc[r]]>>}
    BY <1>3, <1>5, <1>6
  <2>2. CASE <<j, x>> \in conflicts[r]
    BY <1>2, <2>2 DEF StillBusy
  <2>3. CASE <<j, x>> = <<pc[r], pair[r][pc[r]]>>
    BY <1>4, <2>3
  <2> QED
    BY <2>1, <2>2, <2>3
<1>7. ~ FreePair(Others(r), s, cmd[r].slot)
  BY <1>6, NoPair
<1> QED
  BY <1>7 DEF s

-----------------------------------------------------------------------------
(* Both stay so.                                                           *)

(* A request in an attempt has just begun it, or was in it before.         *)
LEMMA AttemptSteps ==
  ASSUME TypeOK, PhaseOK, LockInv, [Next]_vars, NEW r \in Requests, InAttempt(r)'
  PROVE  /\ cmd[r] # None /\ cmd'[r] = cmd[r]
         /\ \/ InAttempt(r) /\ pair'[r] = pair[r] /\ attempts'[r] = attempts[r]
            \/ Advise(r) \/ Find(r) \/ CheckFail(r)
<1>0. pc \in [Requests -> Phases] /\ PhaseOf(r)
  BY DEF TypeOK, PhaseOK
<1>1. CASE /\ cmd'[r] = cmd[r] /\ pair'[r] = pair[r] /\ attempts'[r] = attempts[r]
           /\ pc'[r] = pc[r]
  BY <1>0, <1>1 DEF InAttempt, PhaseOf
<1>2. CASE Arrive(r)
  <2>1. PICK c \in Commands :
          pc'[r] = CASE c.op = "book" -> "advise" [] c.op = "move" -> "find"
                     [] c.op = "cancel" -> "cancel"
    BY <1>0, <1>2 DEF Arrive, Goto
  <2>2. c.op \in {"book", "move", "cancel"}
    BY CommandAssumption DEF CommandSet
  <2> QED
    BY <2>1, <2>2 DEF InAttempt
<1>3. CASE \/ AdviseRefused(r) \/ FindRefused(r) \/ NotConfirmed(r) \/ BadReference(r)
           \/ CancelMissing(r) \/ Fail(r) \/ Deadlock(r) \/ Commit(r) \/ LoseCommit(r)
  <2>1. Ends(r)
    BY <1>3, EndsSteps, StoresSteps DEF Stores
  <2> QED
    BY <1>0, <2>1 DEF Ends, InAttempt
<1>4. CASE Cancel(r)
  BY <1>0, <1>4 DEF Cancel, Goto, InAttempt
<1>5. CASE LockRow(r) \/ LockKey(r) \/ Write(r) \/ CheckPass(r)
  <2>1. /\ InAttempt(r) /\ pc[r] # "idle"
        /\ cmd' = cmd /\ pair' = pair /\ attempts' = attempts
    BY <1>5 DEF LockRow, LockKey, Write, CheckPass, InAttempt, Kinds, requestVars
  <2> QED
    BY <1>0, <2>1 DEF PhaseOf
<1>6. CASE Advise(r) \/ Find(r) \/ CheckFail(r)
  <2>1. cmd' = cmd /\ pc[r] # "idle"
    BY <1>6, CheckFailSteps DEF Advise, Find, CheckFail, Kinds
  <2> QED
    BY <1>0, <1>6, <2>1 DEF PhaseOf
<1> QED
  BY <1>1, <1>2, <1>3, <1>4, <1>5, <1>6, OwnSteps DEF Step

(* An interval was derived before an attempt was made.                     *)
LEMMA DerivesStep ==
  ASSUME TypeOK, PhaseOK, LockInv, [Next]_vars, NEW r \in Requests,
         InAttempt(r) => cmd[r].derives, InAttempt(r)'
  PROVE  cmd'[r].derives
<1>1. CASE Advise(r) \/ Find(r)
  BY <1>1, AttemptSteps DEF Advise, Find
<1>2. CASE CheckFail(r)
  BY <1>2, AttemptSteps, CheckFailSteps
<1> QED
  BY <1>1, <1>2, AttemptSteps

(* What a request is refused is busy until the table changes.              *)
LEMMA StillBusyStep ==
  ASSUME WriteInv, ClientInv, [ServiceNext]_serviceVars, TypeOK', NEW r \in Requests
  PROVE  StillBusy(r)'
<1>0. /\ TypeOK /\ PhaseOK /\ LockInv /\ LoopInv /\ [Next]_vars /\ StillBusy(r)
      /\ SeenBefore /\ ClientTyped
  BY ServiceStep DEF WriteInv, IInv, ClientInv
<1>1. cmd'[r] = None => conflicts'[r] = {}
  BY <1>0, RefusalSteps DEF StillBusy
<1>2. ASSUME cmd'[r] # None, view'[r] = table', NEW c \in conflicts'[r]
      PROVE  c[2] \in Busy(Others(r)', cmd'[r].slot)[c[1]]
  <2>1. table' = table
    BY <1>2, <1>0, SeenStays
  <2>2. cmd[r] # None /\ cmd'[r] = cmd[r]
    BY <1>0, <1>2, RefusalSteps DEF StillBusy
  <2>3. view[r] = table
    BY <1>0, <1>2, <2>1, <2>2, ViewsAreFirst
  <2>4. Others(r)' = Others(r)
    BY <2>1, <2>2 DEF Others, Target
  <2>5. CASE c \in conflicts[r]
    BY <1>0, <2>2, <2>3, <2>4, <2>5 DEF StillBusy
  <2>6. CASE c \notin conflicts[r]
    <3>1. CheckFail(r) /\ c = <<pc[r], pair[r][pc[r]]>>
      BY <1>0, <1>2, <2>6, RefusalSteps
    <3>2. pair[r][pc[r]] \in Busy(Others(r), cmd[r].slot)[pc[r]]
      BY <1>0, <3>1, TakenElsewhere DEF CheckFail
    <3> QED
      BY <2>2, <2>4, <3>1, <3>2
  <2> QED
    BY <2>5, <2>6
<1>3. Busy(Others(r)', cmd'[r].slot) = (Busy(Others(r), cmd[r].slot))'
  BY DEF Busy, Overlaps, Occupies
<1> QED
  BY <1>1, <1>2, <1>3 DEF StillBusy

(* A client asks once, before it sends, and its view is then of what it    *)
(* was offered.                                                            *)
LEMMA AskSteps ==
  ASSUME TypeOK, LockInv, ClientTyped, SeenBefore, [ServiceNext]_serviceVars, NEW r \in Requests,
         ask[r] # None => Previous[r] = None
  PROVE  \/ Look(r)
         \/ /\ ask'[r] = ask[r] /\ offer'[r] = offer[r]
            /\ ask[r] # None => view'[r] = view[r] /\ (cmd'[r] # cmd[r] => cmd'[r] = ask[r])
<1>1. ASSUME NEW q \in Requests, Send(q)
      PROVE  /\ ask'[r] = ask[r] /\ offer'[r] = offer[r]
             /\ ask[r] # None => view'[r] = view[r] /\ (cmd'[r] # cmd[r] => cmd'[r] = ask[r])
  <2>1. q # r => view'[r] = view[r] /\ cmd'[r] = cmd[r]
    BY <1>1 DEF Send, Arrive, SeenBefore, TypeOK
  <2> QED
    BY <1>1, <2>1 DEF Send
<1>2. ASSUME NEW q \in Requests, Resend(q)
      PROVE  /\ ask'[r] = ask[r] /\ offer'[r] = offer[r]
             /\ ask[r] # None => view'[r] = view[r] /\ (cmd'[r] # cmd[r] => cmd'[r] = ask[r])
  <2>1. q # r => view'[r] = view[r] /\ cmd'[r] = cmd[r]
    BY <1>2 DEF Resend, Arrive, SeenBefore, TypeOK
  <2> QED
    BY <1>2, <2>1 DEF Resend
<1>3. ASSUME NEW q \in Requests \ {r}, Look(q)
      PROVE  /\ ask'[r] = ask[r] /\ offer'[r] = offer[r] /\ view'[r] = view[r] /\ cmd' = cmd
  BY <1>3 DEF Look, ClientTyped, SeenBefore, vars
<1>4. ASSUME NEW q \in Requests, Step(q) \/ Fail(q) \/ LoseCommit(q), UNCHANGED clientVars
      PROVE  /\ ask'[r] = ask[r] /\ offer'[r] = offer[r] /\ view'[r] = view[r] /\ cmd' = cmd
  <2>1. cmd' = cmd
    BY <1>4 DEF Step, AdviseRefused, Advise, FindRefused, Find, LockRow, LockKey, Write,
       NotConfirmed, CheckPass, CheckFail, Conflict, BadReference, Commit, Cancel,
       CancelMissing, Deadlock, Refuse, Fail, LoseCommit
  <2> QED
    BY <1>4, <2>1 DEF clientVars
<1>5. CASE UNCHANGED serviceVars
  BY <1>5 DEF serviceVars, clientVars, vars
<1> QED
  BY <1>1, <1>2, <1>3, <1>4, <1>5 DEF ServiceNext, AllQuiet

(* What a query answers.                                                   *)
LEMMA LookStep ==
  ASSUME TypeOK, LockInv, ClientTyped, SeenBefore, NEW r \in Requests, Look(r)
  PROVE  Offered(r)'
<1>1. PICK c \in Commands :
        /\ c.op = "book" /\ c.id = r /\ c.derives
        /\ ask' = [ask EXCEPT ![r] = c] /\ offer' = [offer EXCEPT ![r] = Free(c)]
  BY DEF Look
<1>2. /\ ask'[r] = c /\ offer'[r] = Free(c) /\ view'[r] = table
      /\ Previous[r] = None /\ cmd'[r] = None /\ pc'[r] = "idle"
  BY <1>1 DEF Look, ClientTyped, SeenBefore, LockInv, Minted, vars
<1>3. \A k \in Kinds :
        offer'[r][k] = Candidates(c.service)[k] \ Busy(view'[r], c.slot)[k]
  BY <1>2 DEF Free
<1>4. ~ InAttempt(r)'
  BY <1>2 DEF InAttempt
<1> QED
  BY <1>1, <1>2, <1>3, <1>4 DEF Offered

(* A booking offered a pair is not refused while nothing changes.          *)
LEMMA OfferUntaken ==
  ASSUME WriteInv, ClientInv, NEW r \in Requests, ask[r] # None, cmd[r] # None,
         view[r] = table, ~ Exhausted(offer[r])
  PROVE  ~ CheckFail(r)
<1> SUFFICES ASSUME CheckFail(r)
             PROVE  FALSE
  OBVIOUS
<1>0. /\ TypeOK /\ PhaseOK /\ LockInv /\ Offered(r)
      /\ cmd[r] = ask[r] /\ cmd[r].op = "book"
  BY DEF WriteInv, IInv, ClientInv, Offered
<1>1. pc[r] \in Kinds /\ Taken(r, pc[r]) /\ InAttempt(r) /\ pc[r] # "done"
  BY DEF CheckFail, Kinds, InAttempt
<1>2. pair[r][pc[r]] \in Busy(Others(r), cmd[r].slot)[pc[r]]
  BY <1>0, <1>1, TakenElsewhere
<1>3. Others(r) = table
  BY <1>0, <1>1, BookingHasNone
<1>4. pair[r][pc[r]] \in offer[r][pc[r]]
  BY <1>0, <1>1 DEF Offered
<1> QED
  BY <1>0, <1>1, <1>2, <1>3, <1>4 DEF Offered

(* The first pair tried is of those offered, and nothing has taken them.   *)
LEMMA OfferedPair ==
  ASSUME WriteInv, ClientInv, [Next]_vars, NEW r \in Requests, ask[r] # None,
         InAttempt(r)', cmd'[r] = ask[r], view[r] = table, ~ Exhausted(offer[r])
  PROVE  attempts'[r] = 1 /\ \A k \in Kinds : pair'[r][k] \in offer[r][k]
<1>0. /\ TypeOK /\ PhaseOK /\ LockInv /\ LoopOf(r) /\ Offered(r)
  BY DEF WriteInv, IInv, ClientInv, LoopInv
<1>1. cmd[r] = ask[r] /\ cmd[r] # None /\ cmd[r].op = "book"
  BY <1>0, AttemptSteps DEF Offered
<1>2. CASE InAttempt(r) /\ pair'[r] = pair[r] /\ attempts'[r] = attempts[r]
  BY <1>0, <1>2 DEF Offered
<1>3. CASE Advise(r)
  <2>1. PICK p \in Places :
          /\ FirstPair(p, Candidates(cmd[r].service), Busy(table, cmd[r].slot))
          /\ BeginAttempt(r, p)
    BY <1>3 DEF Advise
  <2>2. attempts'[r] = 1 /\ pair'[r] = p
    BY <1>0, <1>3, <2>1 DEF BeginAttempt, LoopOf, Advise, TypeOK
  <2>3. ASSUME NEW k \in Kinds
        PROVE  p[k] \in offer[r][k]
    <3>1. offer[r][k] = Candidates(cmd[r].service)[k] \ Busy(table, cmd[r].slot)[k]
      BY <1>0, <1>1 DEF Offered
    <3>2. offer[r][k] # {}
      BY DEF Exhausted
    <3> QED
      BY <2>1, <3>1, <3>2 DEF FirstPair, FreeFirst
  <2> QED
    BY <2>2, <2>3
<1>4. ~ Find(r)
  BY <1>0, <1>1 DEF Find, PhaseOK, PhaseOf
<1>5. ~ CheckFail(r)
  BY <1>1, OfferUntaken
<1> QED
  BY <1>0, <1>2, <1>3, <1>4, <1>5, AttemptSteps

(* Every step keeps a client's booking to what it was offered.             *)
LEMMA OfferedStep ==
  ASSUME WriteInv, ClientInv, [ServiceNext]_serviceVars, TypeOK', NEW r \in Requests
  PROVE  Offered(r)'
<1>0. /\ TypeOK /\ PhaseOK /\ LockInv /\ [Next]_vars /\ Offered(r) /\ SeenBefore /\ ClientTyped
  BY ServiceStep DEF WriteInv, IInv, ClientInv
<1>1. CASE Look(r)
  BY <1>0, <1>1, LookStep
<1>2. CASE ~ Look(r)
  <2> SUFFICES ASSUME ask'[r] # None PROVE Offered(r)'
    BY DEF Offered
  <2>1. /\ ask'[r] = ask[r] /\ offer'[r] = offer[r] /\ ask[r] # None /\ view'[r] = view[r]
        /\ cmd'[r] # cmd[r] => cmd'[r] = ask[r]
    BY <1>0, <1>2, AskSteps DEF Offered
  <2>2. cmd'[r] # None => cmd'[r] = ask[r]
    BY <1>0, <2>1 DEF Offered
  <2>3. ASSUME InAttempt(r)', view'[r] = table', ~ Exhausted(offer[r])
        PROVE  attempts'[r] = 1 /\ \A k \in Kinds : pair'[r][k] \in offer[r][k]
    <3>1. view[r] = table
      BY <1>0, <2>1, <2>3, SeenStays
    <3>2. cmd'[r] = ask[r]
      BY <1>0, <2>2, <2>3, AttemptSteps
    <3> QED
      BY <1>0, <2>1, <2>3, <3>1, <3>2, OfferedPair
  <2>4. Exhausted(offer'[r]) = Exhausted(offer[r])
    BY <2>1
  <2>5. Busy(view'[r], ask'[r].slot) = Busy(view[r], ask[r].slot)
    BY <2>1
  <2> QED
    BY <1>0, <2>1, <2>2, <2>3, <2>4, <2>5 DEF Offered
<1> QED
  BY <1>1, <1>2

(* What clients ask and are offered is of its type.                        *)
LEMMA ClientType ==
  ASSUME TypeOK, ClientTyped, [ServiceNext]_serviceVars
  PROVE  ClientTyped'
<1>1. CASE UNCHANGED <<ask, offer>>
  BY <1>1 DEF ClientTyped
<1>2. ASSUME NEW r \in Requests, Look(r)
      PROVE  ClientTyped'
  <2>1. PICK c \in Commands :
          ask' = [ask EXCEPT ![r] = c] /\ offer' = [offer EXCEPT ![r] = Free(c)]
    BY <1>2 DEF Look
  <2>2. c \in CommandSet /\ c.service \in Services
    BY CommandAssumption DEF CommandSet
  <2>3. Free(c) \in [Kinds -> SUBSET Resources]
    BY <2>2, CandidatesType DEF Free
  <2> QED
    BY <2>1, <2>2, <2>3 DEF ClientTyped
<1> QED
  BY <1>1, <1>2 DEF ServiceNext, Send, Resend, AllQuiet, serviceVars, clientVars

(* At the start nobody has asked or been refused.                          *)
LEMMA ClientInit == ServiceInit => ClientInv
<1> SUFFICES ASSUME ServiceInit PROVE ClientInv
  OBVIOUS
<1>1. SeenBefore
  BY InitialAssumption DEF ServiceInit, Init, SeenBefore, Newer
<1>2. ClientTyped
  BY DEF ServiceInit, ClientTyped, Nothing
<1>3. ASSUME NEW r \in Requests
      PROVE  StillBusy(r) /\ Offered(r) /\ (InAttempt(r) => cmd[r].derives)
  BY DEF ServiceInit, Init, StillBusy, Offered, InAttempt
<1> QED
  BY <1>1, <1>2, <1>3 DEF ClientInv

(* The table a client saw is no newer than the one there is.               *)
LEMMA SeenStep ==
  ASSUME WriteInv, SeenBefore, [ServiceNext]_serviceVars, TypeOK'
  PROVE  SeenBefore'
<1>0. /\ TypeOK /\ PhaseOK /\ LockInv /\ [Next]_vars
      /\ table \in [Ids -> Rows] /\ table' \in [Ids -> Rows]
  BY ServiceStep DEF WriteInv, IInv, TypeOK
<1>1. view' \in [Requests -> [Ids -> Rows]]
  BY <1>0, ViewTyped DEF SeenBefore
<1>2. ASSUME NEW q \in Requests, NEW a \in Ids
      PROVE  Newer(view'[q][a], table'[a])
  <2>1. Newer(table[a], table'[a])
    BY <1>0, RowGrows
  <2>2. CASE view'[q] = view[q]
    <3>1. /\ Newer(view[q][a], table[a]) /\ view[q][a] \in Rows
          /\ table[a] \in Rows /\ table'[a] \in Rows
      BY <1>0 DEF SeenBefore
    <3> QED
      BY <2>1, <2>2, <3>1, NewerOf
  <2>3. CASE view'[q] # view[q]
    BY <1>0, <2>1, <2>3, ViewStep
  <2> QED
    BY <2>2, <2>3
<1> QED
  BY <1>1, <1>2 DEF SeenBefore

(* So the invariant of clients is kept.                                    *)
LEMMA ClientStep ==
  ASSUME WriteInv, ClientInv, [ServiceNext]_serviceVars, TypeOK'
  PROVE  ClientInv'
<1>0. TypeOK /\ PhaseOK /\ LockInv /\ [Next]_vars /\ SeenBefore /\ ClientTyped
  BY ServiceStep DEF WriteInv, IInv, ClientInv
<1>1. SeenBefore' /\ ClientTyped'
  BY <1>0, SeenStep, ClientType
<1>2. ASSUME NEW r \in Requests
      PROVE  (StillBusy(r) /\ Offered(r) /\ (InAttempt(r) => cmd[r].derives))'
  <2>1. InAttempt(r)' => cmd'[r].derives
    BY <1>0, DerivesStep DEF ClientInv
  <2> QED
    BY <2>1, StillBusyStep, OfferedStep
<1> QED
  BY <1>1, <1>2 DEF ClientInv

-----------------------------------------------------------------------------
(* The decisions.                                                          *)

(* With the locks, a request is decided by one of these steps.             *)
LEMMA DecisionSteps ==
  ASSUME UseLocks, WriteInv, LoopInv', [Next]_vars, NEW r \in Requests, Decides(r)
  PROVE  /\ cmd[r] # None
         /\ \/ AdviseRefused(r) \/ FindRefused(r) \/ CancelMissing(r)
            \/ NotConfirmed(r) \/ BadReference(r) \/ Commit(r)
            \/ /\ CheckFail(r)
               /\ \/ answer'[r] = "capped"
                  \/ answer'[r] = "exhausted" /\ Exhausted(Prune(r, pc[r], ServiceOf(r)))
<1>0. TypeOK /\ PhaseOK /\ LockInv /\ LoopInv
  BY DEF WriteInv, IInv
<1>1. answer' # answer /\ answer'[r] \notin {"none", "error"} /\ answer[r] = "none"
  BY DEF Decides
<1>2. PICK q \in Requests : Arrive(q) \/ Step(q) \/ Fail(q) \/ LoseCommit(q)
  BY <1>1 DEF Next, Quiet, vars
<1>3. q = r
  BY <1>0, <1>1, <1>2, LoopStepsAlone DEF LoopAlone
<1>4. ~ (Arrive(r) \/ Fail(r) \/ LoseCommit(r))
  BY <1>0, <1>1 DEF Arrive, Fail, LoseCommit, Reply, TypeOK
<1>5. ~ Deadlock(r)
  BY <1>0, NoCircle DEF Deadlock
<1>6. ~ (\/ Advise(r) \/ Find(r) \/ LockRow(r) \/ LockKey(r) \/ Write(r) \/ CheckPass(r)
         \/ Cancel(r))
  BY <1>1 DEF Advise, Find, LockRow, LockKey, Write, CheckPass, Cancel, BeginAttempt
<1>7. ASSUME CheckFail(r)
      PROVE  \/ answer'[r] = "capped"
             \/ answer'[r] = "exhausted" /\ Exhausted(Prune(r, pc[r], ServiceOf(r)))
  <2>1. answer'[r] \in {"none", "exhausted", "capped", "overrun"}
    BY <1>0, <1>1, <1>7 DEF CheckFail, Conflict, BeginAttempt, Reply, TypeOK
  <2>2. answer'[r] \in {"exhausted", "capped"}
    BY <1>1, <2>1 DEF LoopInv, LoopOf
  <2>3. answer'[r] = "exhausted" => Exhausted(Prune(r, pc[r], ServiceOf(r)))
    BY <1>0, <1>1, RefusalSteps
  <2> QED
    BY <2>2, <2>3
<1>8. cmd[r] # None
  <2>1. pc[r] # "idle"
    BY <1>2, <1>3, <1>4, <1>5, <1>6 DEF Step, AdviseRefused, FindRefused, NotConfirmed,
       CheckFail, Kinds, BadReference, Commit, Committable, CancelMissing
  <2> QED
    BY <1>0, <2>1 DEF PhaseOK, PhaseOf
<1> QED
  BY <1>2, <1>3, <1>4, <1>5, <1>6, <1>7, <1>8 DEF Step

(* What is answered on a table whatever the candidate order.               *)
Verdict(r) ==
  CASE cmd[r].op = "book"   -> BookingOn(table, cmd[r])
    [] cmd[r].op = "move"   -> MoveOn(table, cmd[r])
    [] cmd[r].op = "cancel" -> CancelOn(table, cmd[r])

(* A request in an attempt has a derived interval, bays and technicians;   *)
(* all its answer turns on is whether a pair is free.                      *)
LEMMA AttemptVerdict ==
  ASSUME WriteInv, QualifiedInv, NEW r \in Requests, InAttempt(r), cmd[r].derives,
         Writing(r)
  PROVE  LET free == FreePair(Others(r), ServiceOf(r), cmd[r].slot)
         IN  /\ cmd[r].op = "book" =>
                  Verdict(r) = IF ~ free THEN "exhausted"
                               ELSE IF cmd[r].owned THEN "confirmed" ELSE "aborted"
             /\ cmd[r].op = "move" => Verdict(r) = IF free THEN "moved" ELSE "exhausted"
<1> DEFINE free == FreePair(Others(r), ServiceOf(r), cmd[r].slot)
<1>0. /\ TypeOK /\ PhaseOK /\ LockInv /\ PhaseOf(r) /\ Succeeds(r) /\ cmd[r] # None
      /\ pc[r] # "done"
  BY DEF WriteInv, IInv, PhaseOK, LockInv, PhaseOf, InAttempt, Writing
<1>1. pair[r] \in Places
  BY <1>0 DEF TypeOK, PhaseOf
<1>2. ASSUME cmd[r].op = "book"
      PROVE  Verdict(r) = IF ~ free THEN "exhausted"
                          ELSE IF cmd[r].owned THEN "confirmed" ELSE "aborted"
  <2>1. Others(r) = table /\ ServiceOf(r) = cmd[r].service
    BY <1>0, <1>2, BookingHasNone DEF ServiceOf
  <2>2. Bays # {} /\ Qualified[cmd[r].service] # {}
    BY <1>1, <2>1 DEF QualifiedInv, PairsQualified, Places
  <2>3. BookingOn(table, cmd[r]) = IF ~ free THEN "exhausted"
                          ELSE IF cmd[r].owned THEN "confirmed" ELSE "aborted"
    BY <2>1, <2>2 DEF BookingOn
  <2> QED
    BY <1>2, <2>3 DEF Verdict
<1>3. ASSUME cmd[r].op = "move"
      PROVE  Verdict(r) = IF free THEN "moved" ELSE "exhausted"
  <2>1. table[cmd[r].id] # None /\ table[cmd[r].id].status = "confirmed"
    BY <1>0, <1>3 DEF PhaseOf, Succeeds, Writable, Target
  <2>2. /\ Others(r) = [table EXCEPT ![cmd[r].id] = None]
        /\ ServiceOf(r) = table[cmd[r].id].service
    BY <1>3 DEF Others, ServiceOf, Target
  <2>3. MoveOn(table, cmd[r]) = IF free THEN "moved" ELSE "exhausted"
    BY <2>1, <2>2 DEF MoveOn
  <2> QED
    BY <1>3, <2>3 DEF Verdict
<1> QED
  BY <1>2, <1>3

(* A request during which no appointment changed is decided as a search of *)
(* every pair would decide it.                                             *)
LEMMA DecidedAsSearch ==
  ASSUME UseLocks, WriteInv, LoopInv', QualifiedInv, ClientInv, [Next]_vars, NEW r \in Requests,
         Decides(r), answer'[r] # "capped", view[r] = table
  PROVE  answer'[r] = Verdict(r)
<1>0. /\ IInv /\ TypeOK /\ PhaseOK /\ LockInv /\ PhaseOf(r) /\ Succeeds(r)
      /\ StillBusy(r) /\ (InAttempt(r) => cmd[r].derives)
  BY DEF WriteInv, IInv, PhaseOK, LockInv, ClientInv
<1>1. CASE AdviseRefused(r)
  <2>1. cmd[r].op = "book"
    BY <1>0, <1>1 DEF AdviseRefused, PhaseOf
  <2>2. answer'[r] = BookingOn(table, cmd[r])
    <3>1. /\ Candidates(cmd[r].service)["bay"] = Bays
          /\ Candidates(cmd[r].service)["technician"] = Qualified[cmd[r].service]
      BY DEF Candidates, Kinds
    <3> QED
      BY <1>0, <1>1, <3>1 DEF AdviseRefused, Refuse, Reply, BookingOn, TypeOK
  <2> QED
    BY <2>1, <2>2 DEF Verdict
<1>2. CASE FindRefused(r)
  <2>1. cmd[r].op = "move"
    BY <1>0, <1>2 DEF FindRefused, PhaseOf
  <2>2. answer'[r] = MoveOn(table, cmd[r])
    BY <1>0, <1>2 DEF FindRefused, Refuse, Reply, MoveOn, TypeOK, Target
  <2> QED
    BY <2>1, <2>2 DEF Verdict
<1>3. CASE CancelMissing(r)
  <2>1. cmd[r].op = "cancel"
    BY <1>0, <1>3 DEF CancelMissing, Succeeds
  <2>2. answer'[r] = CancelOn(table, cmd[r])
    BY <1>0, <1>3 DEF CancelMissing, Refuse, Reply, CancelOn, TypeOK, Target
  <2> QED
    BY <2>1, <2>2 DEF Verdict
<1>4. CASE NotConfirmed(r)
  <2>1. cmd[r].op = "move" /\ pc[r] = "keys" /\ cmd[r].derives /\ table[cmd[r].id] # None
    BY <1>0, <1>4 DEF NotConfirmed, Writable, InAttempt, PhaseOf, Target
  <2>2. table[cmd[r].id] \in Versions
    BY <1>0, <2>1, CommandType, RowIsVersion DEF TypeOK, PhaseOf
  <2>3. table[cmd[r].id].status = "cancelled"
    BY <1>4, <2>1, <2>2 DEF NotConfirmed, Writable, Versions, Target
  <2>4. answer'[r] = "not-confirmed"
    BY <1>0, <1>4 DEF NotConfirmed, Reply, TypeOK
  <2>5. MoveOn(table, cmd[r]) = "not-confirmed"
    BY <2>1, <2>3 DEF MoveOn
  <2> QED
    BY <2>1, <2>4, <2>5 DEF Verdict
<1>5. CASE BadReference(r)
  <2>1. /\ pc[r] = "commit" /\ cmd[r].op = "book" /\ ~ cmd[r].owned /\ answer'[r] = "aborted"
        /\ InAttempt(r) /\ Writing(r)
    BY <1>0, <1>5 DEF BadReference, Reply, TypeOK, InAttempt, Writing
  <2> QED
    BY <1>0, <2>1, CommitIsFree, AttemptVerdict
<1>6. CASE Commit(r) /\ pc[r] = "commit"
  <2>1. InAttempt(r) /\ Writing(r) /\ cmd[r].op \in {"book", "move"}
    BY <1>0, <1>6, CommandType DEF InAttempt, Writing, PhaseOf, TypeOK
  <2>2. answer'[r] = Acknowledgement(r) /\ (cmd[r].op = "book" => cmd[r].owned)
    BY <1>0, <1>6 DEF Commit, Committable, Reply, TypeOK
  <2>3. FreePair(Others(r), ServiceOf(r), cmd[r].slot)
    BY <1>0, <1>6, CommitIsFree
  <2>4. CASE cmd[r].op = "book"
    BY <1>0, <2>1, <2>2, <2>3, <2>4, AttemptVerdict DEF Acknowledgement
  <2>5. CASE cmd[r].op = "move"
    BY <1>0, <2>1, <2>2, <2>3, <2>5, AttemptVerdict DEF Acknowledgement
  <2> QED
    BY <2>1, <2>4, <2>5
<1>7. CASE Commit(r) /\ pc[r] = "cancelling"
  <2>1. cmd[r].op = "cancel" /\ table[cmd[r].id] # None
    BY <1>0, <1>7 DEF Succeeds, Target
  <2>2. answer'[r] = "cancelled"
    BY <1>0, <1>7, <2>1 DEF Commit, Acknowledgement, Reply, TypeOK
  <2> QED
    BY <2>1, <2>2 DEF Verdict, CancelOn
<1>8. CASE /\ CheckFail(r) /\ Exhausted(Prune(r, pc[r], ServiceOf(r)))
           /\ answer'[r] = "exhausted"
  <2>1. InAttempt(r) /\ Writing(r) /\ cmd[r].op \in {"book", "move"}
    BY <1>0, <1>8, CommandType DEF CheckFail, Kinds, InAttempt, Writing, PhaseOf, TypeOK
  <2>2. ~ FreePair(Others(r), ServiceOf(r), cmd[r].slot)
    BY <1>0, <1>8, ExhaustedIsBusy
  <2> QED
    BY <1>0, <1>8, <2>1, <2>2, AttemptVerdict
<1>9. Commit(r) => pc[r] \in {"commit", "cancelling"}
  BY DEF Commit, Committable
<1>10. \/ AdviseRefused(r) \/ FindRefused(r) \/ CancelMissing(r)
       \/ NotConfirmed(r) \/ BadReference(r) \/ Commit(r)
       \/ /\ CheckFail(r) /\ answer'[r] = "exhausted"
          /\ Exhausted(Prune(r, pc[r], ServiceOf(r)))
  BY DecisionSteps
<1> QED
  BY <1>1, <1>2, <1>3, <1>4, <1>5, <1>6, <1>7, <1>8, <1>9, <1>10

(* A client's own decision is the one it was offered.                      *)
LEMMA DecidedAsOffered ==
  ASSUME UseLocks, WriteInv, LoopInv', QualifiedInv, ClientInv, [ServiceNext]_serviceVars,
         NEW r \in Requests,
         Decides(r), ask[r] # None, ask[r].owned, view[r] = table
  PROVE  IF Exhausted(offer[r])
         THEN answer'[r] \in {"exhausted", "capped", "unknown-service", "no-bays"}
         ELSE /\ answer'[r] = "confirmed" /\ attempts[r] = 1
              /\ \A k \in Kinds : table'[r].at[k] \in offer[r][k]
<1> DEFINE c == ask[r]
<1>0. /\ IInv /\ TypeOK /\ PhaseOK /\ LockInv /\ LoopOf(r) /\ Offered(r) /\ [Next]_vars
      /\ PhaseOf(r) /\ Succeeds(r) /\ Minted(r)
  BY ServiceStep DEF WriteInv, IInv, PhaseOK, LockInv, LoopInv, ClientInv
<1>1. /\ cmd[r] = c /\ cmd[r] # None /\ c.op = "book" /\ c.derives
      /\ \A k \in Kinds :
           offer[r][k] = Candidates(c.service)[k] \ Busy(table, c.slot)[k]
  BY <1>0, DecisionSteps DEF Offered
<1>2. ASSUME Exhausted(offer[r])
      PROVE  ~ FreePair(table, c.service, c.slot)
  <2>1. PICK k \in Kinds : offer[r][k] = {}
    BY <1>2 DEF Exhausted
  <2>2. \A x \in Candidates(c.service)[k] : x \in Busy(table, c.slot)[k]
    BY <1>1, <2>1
  <2> QED
    BY <2>2, NoPair
<1>3. answer'[r] # "capped" => answer'[r] = BookingOn(table, c)
  BY <1>0, <1>1, DecidedAsSearch DEF Verdict
<1>4. CASE Exhausted(offer[r])
  BY <1>1, <1>2, <1>3, <1>4 DEF BookingOn
<1>5. CASE ~ Exhausted(offer[r])
  <2>1. ~ CheckFail(r)
    BY <1>1, <1>5, OfferUntaken
  <2>2. ~ (FindRefused(r) \/ CancelMissing(r) \/ NotConfirmed(r) \/ BadReference(r))
    BY <1>0, <1>1 DEF FindRefused, CancelMissing, NotConfirmed, Writable, BadReference,
       PhaseOf, Succeeds
  <2>3. ~ AdviseRefused(r)
    <3>1. \A k \in Kinds : Candidates(c.service)[k] # {}
      BY <1>1, <1>5 DEF Exhausted
    <3> QED
      BY <1>1, <3>1 DEF AdviseRefused, Kinds
  <2>4. Commit(r)
    BY <1>0, <2>1, <2>2, <2>3, DecisionSteps
  <2>5. pc[r] = "commit" /\ InAttempt(r) /\ Writing(r)
    BY <1>0, <1>1, <2>4 DEF Commit, Committable, Succeeds, InAttempt, Writing
  <2>6. answer'[r] = "confirmed"
    BY <1>0, <1>1, <2>4 DEF Commit, Reply, Acknowledgement, TypeOK
  <2>7. table'[r].at = pair[r]
    <3>1. r \in Ids /\ Target(r) = r /\ table \in [Ids -> Rows]
      BY <1>0, <1>1, IdsAssumption DEF Minted, TypeOK
    <3>2. pending[r].at = pair[r]
      BY <1>0, <2>5, InFlightIs
    <3> QED
      BY <2>4, <3>1, <3>2 DEF Commit
  <2> QED
    BY <1>0, <1>1, <1>5, <2>5, <2>6, <2>7 DEF Offered
<1> QED
  BY <1>4, <1>5

-----------------------------------------------------------------------------
(* What clients may count on.                                              *)

(* Everything the decisions rest on holds whatever the service does.       *)
LEMMA ClientsKeep == ServiceSpec => [](WriteInv /\ QualifiedInv /\ ClientInv)
<1>1. WriteInv /\ WriteInv' /\ ClientInv /\ [ServiceNext]_serviceVars => ClientInv'
  BY ClientStep DEF WriteInv, IInv
<1> QED
  BY <1>1, ClientInit, WritesKeep, WritesAreSchedulers, AllQualified, PTL DEF ServiceSpec

(* With the advisory locks, a request during which no appointment changed  *)
(* is decided as a search of every pair would decide it, below the attempt *)
(* cap: candidate order, the advisory read, pruning, the incumbent's turn  *)
(* and other requests' aborted attempts change no answer (runAttemptLoop). *)
THEOREM DecidedAsAlone == UseLocks /\ ServiceSpec => DecidesAsAlone
<1> SUFFICES ASSUME UseLocks PROVE ServiceSpec => DecidesAsAlone
  OBVIOUS
<1> DEFINE AsAlone(r) ==
             Decides(r) /\ answer'[r] # "capped" /\ view[r] = table => answer'[r] = Verdict(r)
<1>1. WriteInv /\ WriteInv' /\ QualifiedInv /\ ClientInv /\ [ServiceNext]_serviceVars
        => [\A r \in Requests : AsAlone(r)]_serviceVars
  BY ServiceStep, DecidedAsSearch DEF WriteInv
<1> QED
  BY <1>1, ClientsKeep, PTL DEF ServiceSpec, DecidesAsAlone, Verdict

(* With the advisory locks, availability and booking agree: what a client  *)
(* was offered it gets at its first attempt, and a booking offered none of *)
(* a kind is refused, as long as no appointment changes in between         *)
(* (queryAvailability and bookAppointment, ADR-0039).                      *)
THEOREM OffersHold == UseLocks /\ ServiceSpec => OfferHolds
<1> SUFFICES ASSUME UseLocks PROVE ServiceSpec => OfferHolds
  OBVIOUS
<1> DEFINE Holds(r) ==
             Decides(r) /\ ask[r] # None /\ ask[r].owned /\ view[r] = table =>
               IF Exhausted(offer[r])
               THEN answer'[r] \in {"exhausted", "capped", "unknown-service", "no-bays"}
               ELSE /\ answer'[r] = "confirmed" /\ attempts[r] = 1
                    /\ \A k \in Kinds : table'[r].at[k] \in offer[r][k]
<1>1. WriteInv /\ WriteInv' /\ QualifiedInv /\ ClientInv /\ [ServiceNext]_serviceVars
        => [\A r \in Requests : Holds(r)]_serviceVars
  BY DecidedAsOffered DEF WriteInv
<1> QED
  BY <1>1, ClientsKeep, PTL DEF ServiceSpec, OfferHolds
=============================================================================
