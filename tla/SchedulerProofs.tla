-------------------------- MODULE SchedulerProofs --------------------------
(***************************************************************************)
(* Type correctness of Scheduler, and that it never double-books, for any  *)
(* resources, intervals, commands, hashes and attempt cap, with or without *)
(* the advisory locks.                                                     *)
(*                                                                         *)
(* The argument is PostgreSQL's: whoever passes an exclusion check met no  *)
(* committed and no in-flight version that clashes, and whoever comes to   *)
(* the same check later meets the version of whoever passed it.  Neither   *)
(* the advisory locks nor the row lock take part in it.                    *)
(***************************************************************************)
EXTENDS Scheduler, TLAPS

-----------------------------------------------------------------------------
(* The inductive invariant.                                                *)

InAttempt(r) == pc[r] \in {"row", "keys", "bay", "technician", "commit"}

Writing(r) == pc[r] \in {"bay", "technician", "commit"}

(* What a request has by the phase it is in.                               *)
PhaseOf(r) ==
  /\ pc[r] # "idle" => cmd[r] # None
  /\ pc[r] = "advise" => cmd[r].op = "book"
  /\ pc[r] \in {"find", "row"} => cmd[r].op = "move"
  /\ InAttempt(r) => pair[r] # None /\ cmd[r].op # "cancel"
  /\ InAttempt(r) /\ cmd[r].op # "book" => table[Target(r)] # None
  /\ Writing(r) => pending[r] # None /\ pending[r].status = "confirmed"
  /\ pc[r] = "cancelling" => pending[r] # None /\ pending[r].status = "cancelled"

PhaseOK == \A r \in Requests : PhaseOf(r)

(* r's version has passed the exclusion check of kind k.                   *)
Passed(r, k) ==
  pc[r] = "commit" \/ (k = "bay" /\ pc[r] = "technician")

(* Two versions of different rows that passed a check do not clash on it.  *)
PassedApart ==
  \A p, q \in Requests : \A k \in Kinds :
    Passed(p, k) /\ Passed(q, k) /\ Target(p) # Target(q)
      => ~ Clash(pending[p], pending[q], k)

(* A version that passed a check clashes with no other committed row on it.*)
PassedClear ==
  \A r \in Requests : \A k \in Kinds : \A a \in Ids :
    Passed(r, k) /\ a # Target(r) /\ Occupies(table[a])
      => ~ Clash(table[a], pending[r], k)

IInv == TypeOK /\ PhaseOK /\ PassedApart /\ PassedClear /\ NoDoubleBooking
-----------------------------------------------------------------------------
(* The operators' types.                                                   *)

(* A stored row is a version, and None is not one.                         *)
LEMMA RowIsVersion ==
  ASSUME NEW v \in Rows, v # None
  PROVE  /\ v \in Versions
         /\ v.at \in Places /\ v.slot \in Slots /\ v.service \in Services
         /\ v.rev \in Nat
BY DEF Rows, Versions

(* A command that has arrived is one clients send.                         *)
LEMMA CommandType ==
  ASSUME NEW c \in CommandSet \cup {None}, c # None
  PROVE  /\ c.op \in {"book", "move", "cancel"}
         /\ c.id \in Ids /\ c.slot \in Slots /\ c.service \in Services
BY DEF CommandSet

(* A pair is of one bay and one technician.                                *)
LEMMA PlaceType ==
  ASSUME NEW p \in Places, NEW k \in Kinds
  PROVE  p[k] \in Resources
BY DEF Places

(* The candidates of a service are resources.                              *)
LEMMA CandidatesType ==
  ASSUME NEW s \in Services
  PROVE  Candidates(s) \in [Kinds -> SUBSET Resources]
BY QualifiedAssumption DEF Candidates, Resources

(* What the advisory read reports are resources.                           *)
LEMMA BusyType ==
  ASSUME table \in [Ids -> Rows], NEW s
  PROVE  Busy(table, s) \in [Kinds -> SUBSET Resources]
<1>1. ASSUME NEW k \in Kinds, NEW a \in Ids, Occupies(table[a])
      PROVE  table[a].at[k] \in Resources
  BY <1>1, RowIsVersion, PlaceType DEF Occupies
<1> QED
  BY <1>1 DEF Busy

(* Advisory keys are pairs of a class and a hash.                          *)
LEMMA LockKeysType ==
  ASSUME NEW p \in Places, NEW q \in Places
  PROVE  LockKeys(p, q) \in SUBSET ({1, 2} \X Int)
<1>0. MaxHash \in Int
  BY SMT DEF MaxHash
<1>1. \A x \in Places : \A k \in Kinds : KeyOf(x, k) \in {1, 2} \X Int
  BY <1>0, PlaceType, HashAssumption DEF KeyOf, Hashes
<1> QED
  BY <1>1 DEF LockKeys

(* The service of an attempt is a service type.                            *)
LEMMA ServiceType ==
  ASSUME TypeOK, NEW r \in Requests, cmd[r] # None,
         cmd[r].op # "book" => table[Target(r)] # None
  PROVE  ServiceOf(r) \in Services
<1>1. cmd[r] \in CommandSet \cup {None} /\ table \in [Ids -> Rows]
  BY DEF TypeOK
<1>2. cmd[r].service \in Services /\ cmd[r].id \in Ids
  BY <1>1, CommandType
<1>3. CASE cmd[r].op = "book"
  BY <1>2, <1>3 DEF ServiceOf
<1>4. CASE cmd[r].op # "book"
  BY <1>1, <1>2, <1>4, RowIsVersion DEF ServiceOf, Target
<1> QED
  BY <1>3, <1>4

(* Clashing is symmetric.                                                  *)
LEMMA ClashSymmetric ==
  ASSUME NEW v, NEW w, NEW k
  PROVE  Clash(v, w, k) <=> Clash(w, v, k)
BY DEF Clash, Overlaps

(* Updating the columns a write sets keeps a version a version.            *)
LEMMA UpdateType ==
  ASSUME NEW v \in Versions, NEW p \in Places, NEW s \in Slots
  PROVE  /\ [v EXCEPT !.at = p, !.slot = s, !.rev = @ + 1] \in Versions
         /\ [v EXCEPT !.at = p, !.slot = s, !.rev = @ + 1].status = v.status
         /\ [v EXCEPT !.status = "cancelled", !.rev = @ + 1] \in Versions
<1> DEFINE n == v.rev + 1
<1>1. n \in Nat
  BY DEF Versions
<1> HIDE DEF n
<1>2. /\ [v EXCEPT !.at = p, !.slot = s, !.rev = n] \in Versions
      /\ [v EXCEPT !.at = p, !.slot = s, !.rev = n].status = v.status
      /\ [v EXCEPT !.status = "cancelled", !.rev = n] \in Versions
  BY <1>1 DEF Versions
<1> QED
  BY <1>2 DEF n

(* A version a move or a booking writes is a confirmed one.                *)
LEMMA NewVersionType ==
  ASSUME TypeOK, PhaseOK, NEW r \in Requests, InAttempt(r), Writable(r)
  PROVE  NewVersion(r) \in Versions /\ NewVersion(r).status = "confirmed"
<1>1. cmd[r] \in CommandSet \cup {None} /\ table \in [Ids -> Rows]
        /\ pair[r] \in Places \cup {None}
  BY DEF TypeOK
<1>2. /\ cmd[r] # None /\ pair[r] \in Places
      /\ cmd[r].op # "book" => table[Target(r)] # None /\ cmd[r].op = "move"
  BY <1>1, CommandType DEF PhaseOK, PhaseOf, InAttempt
<1>3. cmd[r].id \in Ids /\ cmd[r].slot \in Slots /\ cmd[r].service \in Services
  BY <1>1, <1>2, CommandType
<1>4. CASE cmd[r].op = "book"
  BY <1>2, <1>3, <1>4 DEF NewVersion, Versions
<1>5. CASE cmd[r].op # "book"
  <2>1. table[Target(r)] \in Versions /\ table[Target(r)].status = "confirmed"
    BY <1>1, <1>2, <1>3, <1>5, RowIsVersion DEF Target, Writable
  <2> QED
    BY <1>2, <1>3, <1>5, <2>1, UpdateType DEF NewVersion
<1> QED
  BY <1>4, <1>5

(* A cancellation of a version is a cancelled version.                     *)
LEMMA CancelledVersionType ==
  ASSUME NEW v \in Versions
  PROVE  CancelledVersion(v) \in Versions /\ CancelledVersion(v).status = "cancelled"
<1>1. [v EXCEPT !.status = "cancelled", !.rev = @ + 1].status = "cancelled"
  BY DEF Versions
<1>2. [v EXCEPT !.status = "cancelled", !.rev = @ + 1] \in Versions
  <2>1. v.at \in Places /\ v.slot \in Slots
    BY DEF Versions
  <2> QED
    BY <2>1, UpdateType
<1> QED
  BY <1>1, <1>2 DEF CancelledVersion
-----------------------------------------------------------------------------
(* The steps' types.                                                       *)

(* The variables an attempt's opening sets.                                *)
LEMMA BeginAttemptType ==
  ASSUME TypeOK, NEW r \in Requests, NEW p \in Places, BeginAttempt(r, p)
  PROVE  /\ pc' \in [Requests -> Phases]
         /\ pair' \in [Requests -> Places \cup {None}]
         /\ attempts' \in [Requests -> Nat]
         /\ pending' \in [Requests -> Rows]
         /\ want' \in [Requests -> SUBSET ({1, 2} \X Int)]
         /\ held' \in [Requests -> SUBSET ({1, 2} \X Int)]
         /\ answer' \in [Requests -> Answers]
<1>1. pc' \in [Requests -> Phases]
  BY DEF TypeOK, BeginAttempt, Goto, Phases
<1>2. want' \in [Requests -> SUBSET ({1, 2} \X Int)]
  <2>1. LockKeys(p, p) \in SUBSET ({1, 2} \X Int)
    BY LockKeysType
  <2> QED
    BY <2>1 DEF TypeOK, BeginAttempt
<1>3. pending' \in [Requests -> Rows]
  BY DEF TypeOK, BeginAttempt, Rows
<1> QED
  BY <1>1, <1>2, <1>3 DEF TypeOK, BeginAttempt

(* The variables a transaction's end sets.                                 *)
LEMMA EndTransactionType ==
  ASSUME TypeOK, NEW r \in Requests, EndTransaction(r)
  PROVE  /\ pending' \in [Requests -> Rows]
         /\ want' \in [Requests -> SUBSET ({1, 2} \X Int)]
         /\ held' \in [Requests -> SUBSET ({1, 2} \X Int)]
BY DEF TypeOK, EndTransaction, Rows

(* The variables an answer sets.                                           *)
LEMMA ReplyType ==
  ASSUME TypeOK, NEW r \in Requests, NEW what \in Answers, Reply(r, what)
  PROVE  pc' \in [Requests -> Phases] /\ answer' \in [Requests -> Answers]
BY DEF TypeOK, Reply, Goto, Phases

(* What is left after a prune is a set of resources of each kind.          *)
LEMMA PruneType ==
  ASSUME TypeOK, NEW r \in Requests, NEW k \in Kinds, NEW s \in Services
  PROVE  Prune(r, k, s) \in [Kinds -> SUBSET Resources]
<1>1. Candidates(s) \in [Kinds -> SUBSET Resources]
  BY CandidatesType
<1>2. [left[r] EXCEPT ![k] = @ \ {pair[r][k]}] \in [Kinds -> SUBSET Resources]
  BY DEF TypeOK
<1> QED
  BY <1>1, <1>2 DEF Prune

(* A conflict keeps the types.                                             *)
LEMMA ConflictType ==
  ASSUME TypeOK, PhaseOK, NEW r \in Requests, NEW k \in Kinds, pc[r] = k, Conflict(r, k)
  PROVE  TypeOK'
<1>1. InAttempt(r) /\ pair[r] \in Places /\ cmd[r] # None
  BY DEF PhaseOK, PhaseOf, InAttempt, TypeOK, Kinds
<1>2. ServiceOf(r) \in Services
  BY <1>1, ServiceType DEF PhaseOK, PhaseOf
<1>3. left' \in [Requests -> [Kinds -> SUBSET Resources]]
  <2>1. Prune(r, k, ServiceOf(r)) \in [Kinds -> SUBSET Resources]
    BY <1>2, PruneType
  <2> QED
    BY <2>1 DEF TypeOK, Conflict
<1>4. conflicts' \in [Requests -> SUBSET (Kinds \X Resources)]
  <2>1. <<k, pair[r][k]>> \in Kinds \X Resources
    BY <1>1, PlaceType
  <2> QED
    BY <2>1 DEF TypeOK, Conflict
<1>5. /\ pc' \in [Requests -> Phases]
      /\ pair' \in [Requests -> Places \cup {None}]
      /\ attempts' \in [Requests -> Nat]
      /\ pending' \in [Requests -> Rows]
      /\ want' \in [Requests -> SUBSET ({1, 2} \X Int)]
      /\ held' \in [Requests -> SUBSET ({1, 2} \X Int)]
      /\ answer' \in [Requests -> Answers]
  <2>1. CASE \E what \in {"exhausted", "capped", "overrun"} :
               Reply(r, what) /\ EndTransaction(r) /\ UNCHANGED <<pair, attempts>>
    <3>1. PICK what \in {"exhausted", "capped", "overrun"} :
            Reply(r, what) /\ EndTransaction(r) /\ UNCHANGED <<pair, attempts>>
      BY <2>1
    <3>2. what \in Answers
      BY DEF Answers
    <3> QED
      BY <3>1, <3>2, ReplyType, EndTransactionType DEF TypeOK
  <2>2. CASE \E p \in Places : BeginAttempt(r, p)
    BY <2>2, BeginAttemptType
  <2> QED
    BY <2>1, <2>2 DEF Conflict
<1> QED
  BY <1>3, <1>4, <1>5 DEF TypeOK, Conflict

(* Every step keeps the types.                                             *)
LEMMA TypeStep ==
  ASSUME TypeOK, PhaseOK, [Next]_vars
  PROVE  TypeOK'
<1> USE DEF TypeOK
<1>1. ASSUME NEW r \in Requests, Arrive(r)
      PROVE  TypeOK'
  <2>1. PICK c \in Commands :
          /\ cmd' = [cmd EXCEPT ![r] = c]
          /\ Goto(r, CASE c.op = "book" -> "advise" [] c.op = "move" -> "find"
                       [] c.op = "cancel" -> "cancel")
    BY <1>1 DEF Arrive
  <2>2. c \in CommandSet /\ c.op \in {"book", "move", "cancel"}
    BY CommandAssumption DEF CommandSet
  <2>3. cmd' \in [Requests -> CommandSet \cup {None}]
    BY <2>1, <2>2
  <2>4. pc' \in [Requests -> Phases]
    BY <2>1, <2>2 DEF Goto, Phases
  <2> QED
    BY <1>1, <2>3, <2>4 DEF Arrive, requestVars, txVars
<1>2. ASSUME NEW r \in Requests,
             \/ \E what \in Answers : Refuse(r, what)
             \/ \E what \in Answers :
                  /\ Reply(r, what) /\ EndTransaction(r)
                  /\ UNCHANGED <<table, cmd, requestVars>>
                  /\ faults' \in {faults, faults + 1}
      PROVE  TypeOK'
  <2>1. CASE \E what \in Answers : Refuse(r, what)
    BY <2>1, ReplyType DEF Refuse, requestVars, txVars
  <2>2. CASE \E what \in Answers :
               /\ Reply(r, what) /\ EndTransaction(r)
               /\ UNCHANGED <<table, cmd, requestVars>>
               /\ faults' \in {faults, faults + 1}
    BY <2>2, ReplyType, EndTransactionType DEF requestVars
  <2> QED
    BY <1>2, <2>1, <2>2
<1>3. ASSUME NEW r \in Requests, Advise(r)
      PROVE  TypeOK'
  <2>1. cmd[r] \in CommandSet /\ cmd[r].service \in Services
    BY <1>3, CommandType DEF Advise, PhaseOK, PhaseOf
  <2>2. busy' \in [Requests -> [Kinds -> SUBSET Resources]]
    BY <1>3, BusyType DEF Advise
  <2>3. left' \in [Requests -> [Kinds -> SUBSET Resources]]
    BY <1>3, <2>1, CandidatesType DEF Advise
  <2>4. PICK p \in Places : BeginAttempt(r, p)
    BY <1>3 DEF Advise
  <2> QED
    BY <1>3, <2>2, <2>3, <2>4, BeginAttemptType DEF Advise
<1>4. ASSUME NEW r \in Requests, Find(r)
      PROVE  TypeOK'
  <2>1. cmd[r].id \in Ids
    BY <1>4, CommandType DEF Find, PhaseOK, PhaseOf
  <2>2. table[Target(r)].at \in Places
    BY <1>4, <2>1, RowIsVersion DEF Find, Target
  <2> QED
    BY <1>4, <2>2, BeginAttemptType DEF Find
<1>5. ASSUME NEW r \in Requests, LockRow(r)
      PROVE  TypeOK'
  <2>1. cmd[r] # None /\ pair[r] \in Places /\ table[Target(r)] # None
    BY <1>5 DEF LockRow, PhaseOK, PhaseOf, InAttempt
  <2>2. table[Target(r)].at \in Places
    BY <2>1, CommandType, RowIsVersion DEF Target
  <2>3. LockKeys(pair[r], table[Target(r)].at) \in SUBSET ({1, 2} \X Int)
    BY <2>1, <2>2, LockKeysType
  <2> QED
    BY <1>5, <2>3 DEF LockRow, Goto, Phases, requestVars
<1>6. ASSUME NEW r \in Requests, LockKey(r)
      PROVE  TypeOK'
  BY <1>6 DEF LockKey, requestVars
<1>7. ASSUME NEW r \in Requests, Write(r)
      PROVE  TypeOK'
  <2>1. NewVersion(r) \in Rows
    BY <1>7, NewVersionType DEF Write, InAttempt, Rows
  <2> QED
    BY <1>7, <2>1 DEF Write, Goto, Phases, requestVars
<1>8. ASSUME NEW r \in Requests, CheckPass(r)
      PROVE  TypeOK'
  BY <1>8 DEF CheckPass, Goto, Phases, requestVars, txVars
<1>9. ASSUME NEW r \in Requests, CheckFail(r)
      PROVE  TypeOK'
  BY <1>9, ConflictType DEF CheckFail
<1>10. ASSUME NEW r \in Requests, Commit(r) \/ LoseCommit(r)
       PROVE  TypeOK'
  <2>1. Committable(r) /\ table' = [table EXCEPT ![Target(r)] = pending[r]]
    BY <1>10 DEF Commit, LoseCommit
  <2>2. table' \in [Ids -> Rows]
    BY <2>1
  <2>3. cmd[r].op \in {"book", "move", "cancel"}
    BY <2>1, CommandType DEF Committable, PhaseOK, PhaseOf
  <2>4. PICK what \in Answers : Reply(r, what)
    BY <1>10, <2>3 DEF Commit, LoseCommit, Acknowledgement, Answers
  <2> QED
    BY <1>10, <2>2, <2>4, ReplyType, EndTransactionType DEF Commit, LoseCommit, requestVars
<1>11. ASSUME NEW r \in Requests, Cancel(r)
       PROVE  TypeOK'
  <2>1. table[Target(r)] \in Versions
    BY <1>11, CommandType, RowIsVersion DEF Cancel, PhaseOK, PhaseOf, Target
  <2>2. CancelledVersion(table[Target(r)]) \in Rows
    BY <2>1, CancelledVersionType DEF Rows
  <2> QED
    BY <1>11, <2>2 DEF Cancel, Goto, Phases, requestVars
<1>12. CASE UNCHANGED vars
  BY <1>12 DEF vars, requestVars, txVars
<1>13. ASSUME NEW r \in Requests,
              \/ AdviseRefused(r) \/ FindRefused(r) \/ NotConfirmed(r) \/ BadReference(r)
              \/ CancelMissing(r) \/ Fail(r) \/ Deadlock(r)
       PROVE  TypeOK'
  <2>1. \/ \E what \in Answers : Refuse(r, what)
        \/ \E what \in Answers :
             /\ Reply(r, what) /\ EndTransaction(r)
             /\ UNCHANGED <<table, cmd, requestVars>>
             /\ faults' \in {faults, faults + 1}
    BY <1>13 DEF AdviseRefused, FindRefused, NotConfirmed, BadReference, CancelMissing,
                 Fail, Deadlock, Answers
  <2> QED
    BY <1>2, <2>1
<1> QED
  BY <1>1, <1>3, <1>4, <1>5, <1>6, <1>7, <1>8, <1>9, <1>10, <1>11, <1>12, <1>13
     DEF Next, Step, Quiet
-----------------------------------------------------------------------------
(* The phases.                                                             *)

(* A step of r that leaves the other requests and every stored row in      *)
(* place needs an argument about r alone.                                  *)
LEMMA PhaseFrame ==
  ASSUME TypeOK, PhaseOK, NEW r \in Requests,
         \A q \in Requests \ {r} :
           pc'[q] = pc[q] /\ cmd'[q] = cmd[q] /\ pair'[q] = pair[q] /\ pending'[q] = pending[q],
         \A a \in Ids : table[a] # None => table'[a] # None,
         PhaseOf(r)'
  PROVE  PhaseOK'
<1>1. ASSUME NEW q \in Requests \ {r}
      PROVE  PhaseOf(q)'
  <2>1. PhaseOf(q)
    BY DEF PhaseOK
  <2>2. InAttempt(q) => cmd[q].id \in Ids
    BY <2>1, CommandType DEF PhaseOf, InAttempt, TypeOK
  <2> QED
    BY <2>1, <2>2 DEF PhaseOf, InAttempt, Writing, Target
<1> QED
  BY <1>1 DEF PhaseOK

(* An answered request is in no phase that asks for anything.              *)
LEMMA PhaseReply ==
  ASSUME TypeOK, NEW r \in Requests, PhaseOf(r), pc[r] # "idle", pc'[r] = "done",
         cmd'[r] = cmd[r]
  PROVE  PhaseOf(r)'
BY DEF PhaseOf, InAttempt, Writing

(* A new attempt starts on a pair, and a move's on a stored row.           *)
LEMMA PhaseBegin ==
  ASSUME TypeOK, PhaseOK, NEW r \in Requests, NEW p \in Places, BeginAttempt(r, p),
         UNCHANGED <<table, cmd>>, pc[r] # "idle", cmd[r].op \in {"book", "move"},
         cmd[r].op # "book" => table[Target(r)] # None
  PROVE  PhaseOK'
<1>1. p # None
  BY NoneAssumption
<1>2. PhaseOf(r)'
  BY <1>1 DEF BeginAttempt, Goto, PhaseOK, PhaseOf, InAttempt, Writing, Target, TypeOK
<1>3. \A q \in Requests \ {r} :
        pc'[q] = pc[q] /\ cmd'[q] = cmd[q] /\ pair'[q] = pair[q] /\ pending'[q] = pending[q]
  BY DEF BeginAttempt, Goto, TypeOK
<1> QED
  BY <1>2, <1>3, PhaseFrame

(* An answer that stores nothing.                                          *)
Unstored(r) ==
  /\ pc[r] # "idle"
  /\ UNCHANGED <<table, cmd, pair>>
  /\ \E what \in Answers : Reply(r, what)
  /\ EndTransaction(r) \/ UNCHANGED pending

(* Which steps these are.                                                  *)
LEMMA UnstoredSteps ==
  ASSUME NEW r \in Requests,
         \/ AdviseRefused(r) \/ FindRefused(r) \/ NotConfirmed(r) \/ BadReference(r)
         \/ CancelMissing(r) \/ Fail(r) \/ Deadlock(r)
  PROVE  Unstored(r)
<1>1. CASE Deadlock(r)
  <2>1. Awaits(r) # {}
    BY <1>1 DEF Deadlock, Waiting
  <2>2. pc[r] # "idle"
    BY <2>1 DEF Awaits, Kinds
  <2> QED
    BY <1>1, <2>2 DEF Deadlock, Unstored, Answers, requestVars
<1>2. CASE AdviseRefused(r) \/ FindRefused(r) \/ CancelMissing(r)
  BY <1>2 DEF AdviseRefused, FindRefused, CancelMissing, Refuse, Unstored, Answers,
              requestVars, txVars
<1>3. CASE NotConfirmed(r) \/ BadReference(r) \/ Fail(r)
  BY <1>3 DEF NotConfirmed, BadReference, Fail, Live, Unstored, Answers, requestVars
<1> QED
  BY <1>1, <1>2, <1>3

(* A conflict ends the request without storing anything, or opens another  *)
(* attempt.                                                                *)
LEMMA ConflictSteps ==
  ASSUME TypeOK, PhaseOK, NEW r \in Requests, CheckFail(r)
  PROVE  /\ Unstored(r) \/ \E p \in Places : BeginAttempt(r, p)
         /\ UNCHANGED <<table, cmd>>
         /\ pc[r] # "idle" /\ cmd[r].op \in {"book", "move"}
         /\ cmd[r].op # "book" => table[Target(r)] # None
<1>1. pc[r] \in Kinds /\ Conflict(r, pc[r])
  BY DEF CheckFail
<1>2. InAttempt(r) /\ cmd[r] # None /\ cmd[r].op # "cancel"
        /\ (cmd[r].op # "book" => table[Target(r)] # None)
  BY <1>1 DEF InAttempt, Kinds, PhaseOK, PhaseOf
<1>3. cmd[r].op \in {"book", "move"}
  BY <1>2, CommandType DEF TypeOK
<1>4. UNCHANGED <<table, cmd>>
  BY <1>1 DEF Conflict
<1>5. Unstored(r) \/ \E p \in Places : BeginAttempt(r, p)
  BY <1>1, <1>4 DEF Conflict, Unstored, Answers, Kinds
<1> QED
  BY <1>1, <1>2, <1>3, <1>4, <1>5 DEF Kinds

(* Every step keeps the phases.                                            *)
LEMMA PhaseStep ==
  ASSUME TypeOK, PhaseOK, [Next]_vars
  PROVE  PhaseOK'
<1> DEFINE Others(r) ==
      \A q \in Requests \ {r} :
        pc'[q] = pc[q] /\ cmd'[q] = cmd[q] /\ pair'[q] = pair[q] /\ pending'[q] = pending[q]
<1>1. ASSUME NEW r \in Requests, Arrive(r)
      PROVE  PhaseOK'
  <2>1. PICK c \in Commands :
          /\ cmd' = [cmd EXCEPT ![r] = c]
          /\ Goto(r, CASE c.op = "book" -> "advise" [] c.op = "move" -> "find"
                       [] c.op = "cancel" -> "cancel")
    BY <1>1 DEF Arrive
  <2>2. c # None /\ c.op \in {"book", "move", "cancel"}
    BY CommandAssumption, NoneAssumption DEF CommandSet
  <2>3. PhaseOf(r)'
    BY <2>1, <2>2 DEF Goto, PhaseOf, InAttempt, Writing, TypeOK
  <2>4. Others(r) /\ UNCHANGED table
    BY <1>1, <2>1 DEF Arrive, Goto, requestVars, txVars, TypeOK
  <2> QED
    BY <2>3, <2>4, PhaseFrame
<1>2. ASSUME NEW r \in Requests, Unstored(r)
      PROVE  PhaseOK'
  <2>1. PhaseOf(r)'
    BY <1>2, PhaseReply DEF Unstored, Reply, Goto, PhaseOK, TypeOK
  <2>2. Others(r) /\ UNCHANGED table
    BY <1>2 DEF Unstored, Reply, Goto, EndTransaction, TypeOK
  <2> QED
    BY <2>1, <2>2, PhaseFrame
<1>3. ASSUME NEW r \in Requests, Advise(r)
      PROVE  PhaseOK'
  BY <1>3, PhaseBegin DEF Advise, PhaseOK, PhaseOf
<1>4. ASSUME NEW r \in Requests, Find(r)
      PROVE  PhaseOK'
  <2>1. table[Target(r)].at \in Places
    BY <1>4, CommandType, RowIsVersion DEF Find, PhaseOK, PhaseOf, Target, TypeOK
  <2> QED
    BY <1>4, <2>1, PhaseBegin DEF Find, PhaseOK, PhaseOf
<1>5. ASSUME NEW r \in Requests, LockRow(r) \/ LockKey(r) \/ CheckPass(r)
      PROVE  PhaseOK'
  <2>1. PhaseOf(r)'
    BY <1>5 DEF LockRow, LockKey, CheckPass, Goto, PhaseOK, PhaseOf, InAttempt, Writing,
                Target, Kinds, TypeOK, requestVars, txVars
  <2>2. Others(r) /\ UNCHANGED table
    BY <1>5 DEF LockRow, LockKey, CheckPass, Goto, requestVars, txVars, TypeOK
  <2> QED
    BY <2>1, <2>2, PhaseFrame
<1>6. ASSUME NEW r \in Requests, Write(r)
      PROVE  PhaseOK'
  <2>1. NewVersion(r) # None /\ NewVersion(r).status = "confirmed"
    BY <1>6, NewVersionType, NoneAssumption DEF Write, InAttempt
  <2>2. PhaseOf(r)'
    BY <1>6, <2>1 DEF Write, Goto, PhaseOK, PhaseOf, InAttempt, Writing, Target, TypeOK,
                      requestVars
  <2>3. Others(r) /\ UNCHANGED table
    BY <1>6 DEF Write, Goto, requestVars, TypeOK
  <2> QED
    BY <2>2, <2>3, PhaseFrame
<1>7. ASSUME NEW r \in Requests, CheckFail(r)
      PROVE  PhaseOK'
  BY <1>2, <1>7, ConflictSteps, PhaseBegin
<1>8. ASSUME NEW r \in Requests, Commit(r) \/ LoseCommit(r)
      PROVE  PhaseOK'
  <2>1. /\ pc[r] \in {"commit", "cancelling"}
        /\ table' = [table EXCEPT ![Target(r)] = pending[r]]
        /\ UNCHANGED <<cmd, pair>> /\ EndTransaction(r)
        /\ pc' = [pc EXCEPT ![r] = "done"]
    BY <1>8 DEF Commit, LoseCommit, Committable, requestVars, Reply, Goto
  <2>2. pending[r] # None
    BY <2>1 DEF PhaseOK, PhaseOf, Writing
  <2>3. \A a \in Ids : table[a] # None => table'[a] # None
    BY <2>1, <2>2 DEF TypeOK
  <2>4. PhaseOf(r)'
    BY <2>1, PhaseReply DEF PhaseOK, TypeOK
  <2>5. Others(r)
    BY <2>1 DEF EndTransaction, TypeOK
  <2> QED
    BY <2>3, <2>4, <2>5, PhaseFrame
<1>9. ASSUME NEW r \in Requests, Cancel(r)
      PROVE  PhaseOK'
  <2>1. table[Target(r)] \in Versions
    BY <1>9, CommandType, RowIsVersion DEF Cancel, PhaseOK, PhaseOf, Target, TypeOK
  <2>2. CancelledVersion(table[Target(r)]) # None
          /\ CancelledVersion(table[Target(r)]).status = "cancelled"
    BY <2>1, CancelledVersionType, NoneAssumption
  <2>3. PhaseOf(r)'
    BY <1>9, <2>2 DEF Cancel, Goto, PhaseOK, PhaseOf, InAttempt, Writing, TypeOK
  <2>4. Others(r) /\ UNCHANGED table
    BY <1>9 DEF Cancel, Goto, requestVars, TypeOK
  <2> QED
    BY <2>3, <2>4, PhaseFrame
<1>10. CASE UNCHANGED vars
  BY <1>10 DEF vars, requestVars, txVars, PhaseOK, PhaseOf, InAttempt, Writing, Target
<1> QED
  BY <1>1, <1>2, <1>3, <1>4, <1>5, <1>6, <1>7, <1>8, <1>9, <1>10, UnstoredSteps
     DEF Next, Step, Quiet
-----------------------------------------------------------------------------
(* The exclusion checks.                                                   *)

(* A step that lets nobody past a check and stores nothing keeps the       *)
(* three parts.                                                            *)
LEMMA PassedFrame ==
  ASSUME PassedApart, PassedClear, NoDoubleBooking, table' = table,
         \A q \in Requests : \A k \in Kinds :
           Passed(q, k)' => Passed(q, k) /\ cmd'[q] = cmd[q] /\ pending'[q] = pending[q]
  PROVE  PassedApart' /\ PassedClear' /\ NoDoubleBooking'
<1>1. PassedApart'
  BY DEF PassedApart, Target
<1>2. PassedClear'
  BY DEF PassedClear, Target
<1>3. NoDoubleBooking'
  BY DEF NoDoubleBooking
<1> QED
  BY <1>1, <1>2, <1>3

(* Such are the steps of a request that ends up before its checks.         *)
LEMMA PassedElsewhere ==
  ASSUME TypeOK, PassedApart, PassedClear, NoDoubleBooking, table' = table,
         NEW r \in Requests, pc'[r] \notin {"technician", "commit"},
         \A q \in Requests \ {r} :
           pc'[q] = pc[q] /\ cmd'[q] = cmd[q] /\ pending'[q] = pending[q]
  PROVE  PassedApart' /\ PassedClear' /\ NoDoubleBooking'
<1>1. ASSUME NEW q \in Requests, NEW k \in Kinds, Passed(q, k)'
      PROVE  Passed(q, k) /\ cmd'[q] = cmd[q] /\ pending'[q] = pending[q]
  <2>1. q # r
    BY <1>1 DEF Passed
  <2> QED
    BY <1>1, <2>1 DEF Passed
<1> QED
  BY <1>1, PassedFrame

(* Whoever has passed a check is in its index.                             *)
LEMMA PassedIsIndexed ==
  ASSUME PhaseOK, NEW q \in Requests, NEW k \in Kinds, Passed(q, k)
  PROVE  Indexed(q, k) /\ Occupies(pending[q])
BY DEF PhaseOK, PhaseOf, Writing, Passed, Indexed, Occupies

(* Passing a check: what InFlight and Taken rule out.                      *)
LEMMA PassedCheck ==
  ASSUME PhaseOK, NEW r \in Requests, NEW k \in Kinds,
         ~ Taken(r, k), InFlight(r, k) = {}
  PROVE  /\ \A q \in Requests :
              Target(q) # Target(r) /\ Passed(q, k) => ~ Clash(pending[q], pending[r], k)
         /\ \A a \in Ids :
              a # Target(r) /\ Occupies(table[a]) => ~ Clash(table[a], pending[r], k)
<1>1. ASSUME NEW q \in Requests, Target(q) # Target(r), Passed(q, k)
      PROVE  ~ Clash(pending[q], pending[r], k)
  <2>1. Indexed(q, k) /\ pending[q] # None /\ q # r
    BY <1>1, PassedIsIndexed DEF Indexed
  <2> QED
    BY <1>1, <2>1 DEF InFlight
<1>2. ASSUME NEW a \in Ids, a # Target(r), Occupies(table[a]), Clash(table[a], pending[r], k)
      PROVE  FALSE
  <2>1. PICK q \in Requests : pending[q] # None /\ Target(q) = a
    BY <1>2 DEF Taken
  <2>2. q \in InFlight(r, k)
    BY <1>2, <2>1 DEF InFlight
  <2> QED
    BY <2>2
<1> QED
  BY <1>1, <1>2

(* A passed check keeps the three parts.                                   *)
LEMMA CheckPassStep ==
  ASSUME TypeOK, PhaseOK, PassedApart, PassedClear, NoDoubleBooking,
         NEW r \in Requests, CheckPass(r)
  PROVE  PassedApart' /\ PassedClear' /\ NoDoubleBooking'
<1>1. /\ pc[r] \in Kinds
      /\ pc' = [pc EXCEPT ![r] = IF pc[r] = "bay" THEN "technician" ELSE "commit"]
      /\ UNCHANGED <<table, cmd, pending>>
  BY DEF CheckPass, Goto, txVars
<1>2. /\ \A q \in Requests :
           Target(q) # Target(r) /\ Passed(q, pc[r]) => ~ Clash(pending[q], pending[r], pc[r])
      /\ \A a \in Ids :
           a # Target(r) /\ Occupies(table[a]) => ~ Clash(table[a], pending[r], pc[r])
  BY <1>1, PassedCheck DEF CheckPass
<1>3. \A q \in Requests, k \in Kinds : Passed(q, k)' => Passed(q, k) \/ (q = r /\ k = pc[r])
  BY <1>1 DEF Passed, Kinds, TypeOK
<1>4. PassedApart'
  <2>1. ASSUME NEW p \in Requests, NEW q \in Requests, NEW k \in Kinds,
               Passed(p, k)', Passed(q, k)', Target(p) # Target(q)
        PROVE  ~ Clash(pending[p], pending[q], k)
    <3>1. CASE Passed(p, k) /\ Passed(q, k)
      BY <2>1, <3>1 DEF PassedApart
    <3>2. CASE p = r /\ k = pc[r]
      BY <1>2, <1>3, <2>1, <3>2, ClashSymmetric
    <3>3. CASE q = r /\ k = pc[r]
      BY <1>2, <1>3, <2>1, <3>3
    <3> QED
      BY <1>3, <2>1, <3>1, <3>2, <3>3
  <2> QED
    BY <1>1, <2>1 DEF PassedApart, Target
<1>5. PassedClear'
  <2>1. ASSUME NEW q \in Requests, NEW k \in Kinds, NEW a \in Ids,
               Passed(q, k)', a # Target(q), Occupies(table[a])
        PROVE  ~ Clash(table[a], pending[q], k)
    BY <1>2, <1>3, <2>1 DEF PassedClear
  <2> QED
    BY <1>1, <2>1 DEF PassedClear, Target
<1>6. NoDoubleBooking'
  BY <1>1 DEF NoDoubleBooking
<1> QED
  BY <1>4, <1>5, <1>6

(* A commit keeps the three parts: the stored version has passed both      *)
(* checks, or is a cancelled one, which occupies nothing.                  *)
LEMMA CommitStep ==
  ASSUME TypeOK, PhaseOK, PassedApart, PassedClear, NoDoubleBooking,
         NEW r \in Requests, Commit(r) \/ LoseCommit(r)
  PROVE  PassedApart' /\ PassedClear' /\ NoDoubleBooking'
<1> DEFINE v == pending[r]
<1>1. /\ pc[r] \in {"commit", "cancelling"}
      /\ table' = [table EXCEPT ![Target(r)] = v]
      /\ pc' = [pc EXCEPT ![r] = "done"]
      /\ pending' = [pending EXCEPT ![r] = None]
      /\ cmd' = cmd
  BY DEF Commit, LoseCommit, Committable, Reply, Goto, EndTransaction
<1>2. \A q \in Requests, k \in Kinds :
        Passed(q, k)' => q # r /\ Passed(q, k) /\ pending'[q] = pending[q]
  BY <1>1 DEF Passed, TypeOK
<1>3. Occupies(v) => \A k \in Kinds : Passed(r, k)
  BY <1>1 DEF PhaseOK, PhaseOf, Occupies, Passed
<1>4. PassedApart'
  BY <1>1, <1>2 DEF PassedApart, Target
<1>5. PassedClear'
  <2>1. ASSUME NEW q \in Requests, NEW k \in Kinds, NEW a \in Ids,
               Passed(q, k)', a # Target(q), Occupies(table'[a])
        PROVE  ~ Clash(table'[a], pending[q], k)
    <3>1. CASE a = Target(r)
      <4>1. table'[a] = v
        BY <1>1, <3>1 DEF TypeOK
      <4> QED
        BY <1>2, <1>3, <2>1, <3>1, <4>1 DEF PassedApart
    <3>2. CASE a # Target(r)
      <4>1. table'[a] = table[a]
        BY <1>1, <3>2 DEF TypeOK
      <4> QED
        BY <1>2, <2>1, <4>1 DEF PassedClear
    <3> QED
      BY <3>1, <3>2
  <2>2. \A q \in Requests, k \in Kinds : Passed(q, k)' => pending'[q] = pending[q]
    BY <1>2
  <2> QED
    BY <1>1, <2>1, <2>2 DEF PassedClear, Target, Occupies
<1>6. NoDoubleBooking'
  <2>1. ASSUME NEW a \in Ids, NEW k \in Kinds, a # Target(r),
               Occupies(table[a]), Occupies(v)
        PROVE  ~ Clash(table[a], v, k) /\ ~ Clash(v, table[a], k)
    BY <1>3, <2>1, ClashSymmetric DEF PassedClear
  <2>2. ASSUME NEW a \in Ids, NEW b \in Ids, NEW k \in Kinds, a # b,
               Occupies(table'[a]), Occupies(table'[b])
        PROVE  ~ Clash(table'[a], table'[b], k)
    <3>1. CASE a = Target(r)
      <4>1. table'[a] = v /\ table'[b] = table[b]
        BY <1>1, <2>2, <3>1 DEF TypeOK
      <4> QED
        BY <2>1, <2>2, <3>1, <4>1
    <3>2. CASE b = Target(r)
      <4>1. table'[b] = v /\ table'[a] = table[a]
        BY <1>1, <2>2, <3>2 DEF TypeOK
      <4> QED
        BY <2>1, <2>2, <3>2, <4>1
    <3>3. CASE a # Target(r) /\ b # Target(r)
      <4>1. table'[a] = table[a] /\ table'[b] = table[b]
        BY <1>1, <3>3 DEF TypeOK
      <4> QED
        BY <2>2, <4>1 DEF NoDoubleBooking, ConflictFree
    <3> QED
      BY <3>1, <3>2, <3>3
  <2> QED
    BY <2>2 DEF NoDoubleBooking, ConflictFree, Occupies
<1> QED
  BY <1>4, <1>5, <1>6

(* Every step keeps the three parts.                                       *)
LEMMA PassedStep ==
  ASSUME TypeOK, PhaseOK, PassedApart, PassedClear, NoDoubleBooking, [Next]_vars
  PROVE  PassedApart' /\ PassedClear' /\ NoDoubleBooking'
<1> DEFINE Outside(r) ==
      /\ table' = table
      /\ pc'[r] \notin {"technician", "commit"}
      /\ \A q \in Requests \ {r} :
           pc'[q] = pc[q] /\ cmd'[q] = cmd[q] /\ pending'[q] = pending[q]
<1>1. ASSUME NEW r \in Requests, Arrive(r) \/ Cancel(r) \/ Write(r) \/ LockRow(r) \/ LockKey(r)
      PROVE  Outside(r)
  <2>1. CASE Arrive(r)
    <3>1. PICK c \in Commands :
            /\ cmd' = [cmd EXCEPT ![r] = c]
            /\ Goto(r, CASE c.op = "book" -> "advise" [] c.op = "move" -> "find"
                         [] c.op = "cancel" -> "cancel")
      BY <2>1 DEF Arrive
    <3>2. c.op \in {"book", "move", "cancel"}
      BY CommandAssumption DEF CommandSet
    <3> QED
      BY <2>1, <3>1, <3>2 DEF Arrive, Goto, txVars, TypeOK
  <2>2. CASE Cancel(r) \/ Write(r) \/ LockRow(r) \/ LockKey(r)
    BY <2>2 DEF Cancel, Write, LockRow, LockKey, Goto, TypeOK
  <2> QED
    BY <1>1, <2>1, <2>2
<1>2. ASSUME NEW r \in Requests, Unstored(r)
      PROVE  Outside(r)
  BY <1>2 DEF Unstored, Reply, Goto, EndTransaction, TypeOK
<1>3. ASSUME NEW r \in Requests, NEW p \in Places, BeginAttempt(r, p),
             UNCHANGED <<table, cmd>>
      PROVE  Outside(r)
  BY <1>3 DEF BeginAttempt, Goto, TypeOK
<1>4. ASSUME NEW r \in Requests, Advise(r) \/ Find(r) \/ CheckFail(r)
      PROVE  Outside(r)
  <2>1. CASE Advise(r)
    BY <1>3, <2>1 DEF Advise
  <2>2. CASE Find(r)
    <3>1. table[Target(r)].at \in Places
      BY <2>2, CommandType, RowIsVersion DEF Find, PhaseOK, PhaseOf, Target, TypeOK
    <3> QED
      BY <1>3, <2>2, <3>1 DEF Find
  <2>3. CASE CheckFail(r)
    BY <1>2, <1>3, <2>3, ConflictSteps
  <2> QED
    BY <1>4, <2>1, <2>2, <2>3
<1>5. ASSUME NEW r \in Requests, Outside(r)
      PROVE  PassedApart' /\ PassedClear' /\ NoDoubleBooking'
  BY <1>5, PassedElsewhere
<1>6. CASE UNCHANGED vars
  BY <1>6, PassedFrame DEF vars, txVars, Passed
<1> QED
  BY <1>1, <1>2, <1>4, <1>5, <1>6, UnstoredSteps, CheckPassStep, CommitStep
     DEF Next, Step, Quiet

-----------------------------------------------------------------------------
(* The theorems.                                                           *)

(* The start satisfies the invariant.                                      *)
LEMMA InitIInv == Init => IInv
<1> SUFFICES ASSUME Init PROVE IInv
  OBVIOUS
<1>1. TypeOK
  <2>1. table \in [Ids -> Rows]
    BY InitialAssumption DEF Init
  <2>2. NoOrder \in [Kinds -> SUBSET Resources] /\ Nothing \in [Kinds -> SUBSET Resources]
    BY DEF NoOrder, Nothing
  <2> QED
    BY <2>1, <2>2 DEF Init, TypeOK, Phases, Rows, Answers
<1>2. PhaseOK
  BY DEF Init, PhaseOK, PhaseOf, InAttempt, Writing
<1>3. PassedApart /\ PassedClear
  BY DEF Init, PassedApart, PassedClear, Passed
<1>4. NoDoubleBooking
  BY InitialAssumption DEF Init, NoDoubleBooking
<1> QED
  BY <1>1, <1>2, <1>3, <1>4 DEF IInv

(* Every step keeps it.                                                    *)
LEMMA NextIInv == IInv /\ [Next]_vars => IInv'
BY TypeStep, PhaseStep, PassedStep DEF IInv

(* The invariant holds of every behaviour.                                 *)
THEOREM Invariance == Spec => []IInv
BY InitIInv, NextIInv, PTL DEF Spec

(* Every variable keeps its type.                                          *)
THEOREM TypeCorrect == Spec => []TypeOK
<1>1. IInv => TypeOK
  BY DEF IInv
<1> QED
  BY <1>1, Invariance, PTL

(* No bay and no technician is ever double-booked by committed             *)
(* appointments, whatever the interleaving of bookings, moves,             *)
(* cancellations and failures, with or without advisory locks.             *)
THEOREM NeverDoubleBooked == Spec => []NoDoubleBooking
<1>1. IInv => NoDoubleBooking
  BY DEF IInv
<1> QED
  BY <1>1, Invariance, PTL
=============================================================================
