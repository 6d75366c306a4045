----------------------------- MODULE LockProofs -----------------------------
(***************************************************************************)
(* What the locks of Scheduler are for, for any resources, commands,       *)
(* hashes and cap: the row lock makes a version that is in flight the      *)
(* successor of the row as it is stored (so a cancelled row stays as it    *)
(* is), and the row lock before the advisory keys, these in one order and  *)
(* all of them before the write, leave nobody waiting in a circle.         *)
(***************************************************************************)
EXTENDS SchedulerProofs, WellFoundedInduction

-----------------------------------------------------------------------------
(* The inductive invariant.                                                *)

(* The pair a write leaves, and the keys it needs.                         *)
Leaves(r) == IF cmd[r].op = "book" THEN pair[r] ELSE table[Target(r)].at

KeysOf(r) == LockKeys(pair[r], Leaves(r))

(* A row is locked by one request at a time.                               *)
RowApart ==
  \A p, q \in Requests : \A id \in Ids : HoldsRow(p, id) /\ HoldsRow(q, id) => p = q

(* An advisory key is held by one request at a time.                       *)
KeysApart == \A p, q \in Requests : p # q => held[p] \cap held[q] = {}

(* The id a booking mints has no row before the booking commits.           *)
Minted(r) ==
  /\ pc[r] = "idle" => cmd[r] = None
  /\ cmd[r] # None /\ cmd[r].op = "book" => Target(r) = r
  /\ pc[r] = "idle" \/ (cmd[r].op = "book" /\ pc[r] # "done") => table[r] = None

(* A version in flight is what the statement makes of the stored row.      *)
Succeeds(r) ==
  /\ pending[r] # None => Writing(r) \/ pc[r] = "cancelling"
  /\ Writing(r) => Writable(r) /\ pending[r] = NewVersion(r)
  /\ pc[r] \in {"cancel", "cancelling"} => cmd[r].op = "cancel"
  /\ pc[r] = "cancelling" => /\ table[Target(r)] # None
                             /\ pending[r] = CancelledVersion(table[Target(r)])

(* Keys are taken in order, all before the write, and kept until the end.  *)
Locked(r) ==
  /\ pc[r] = "keys" => /\ held[r] \cup want[r] = KeysOf(r)
                       /\ \A x \in held[r], y \in want[r] : Before(x, y) /\ x # y
  /\ Writing(r) => held[r] = KeysOf(r)
  /\ pc[r] # "keys" /\ ~ Writing(r) => held[r] = {}

LockInv ==
  /\ RowApart /\ KeysApart
  /\ \A r \in Requests : Minted(r) /\ Succeeds(r) /\ Locked(r)

-----------------------------------------------------------------------------
(* Steps.                                                                  *)

(* A step of r leaves what the others have as it is.                       *)
Alone(r) ==
  \A q \in Requests \ {r} :
    /\ cmd'[q] = cmd[q] /\ pc'[q] = pc[q] /\ pair'[q] = pair[q] /\ pending'[q] = pending[q]
    /\ want'[q] = want[q] /\ held'[q] = held[q]

(* r is answered, its transaction, if it had one, is over.                 *)
Ends(r) ==
  /\ pc[r] # "idle" /\ pc' = [pc EXCEPT ![r] = "done"] /\ cmd' = cmd /\ pair' = pair
  /\ \/ EndTransaction(r)
     \/ UNCHANGED txVars /\ pc[r] \in {"advise", "find", "cancel"}

(* Which steps these are.                                                  *)
LEMMA EndsSteps ==
  ASSUME NEW r \in Requests,
         \/ AdviseRefused(r) \/ FindRefused(r) \/ NotConfirmed(r) \/ BadReference(r)
         \/ CancelMissing(r) \/ Fail(r) \/ Deadlock(r)
  PROVE  Ends(r) /\ table' = table
<1>1. CASE Deadlock(r)
  <2>1. pc[r] # "idle"
    BY <1>1 DEF Deadlock, Waiting, Awaits, Kinds
  <2> QED
    BY <1>1, <2>1 DEF Deadlock, Ends, Reply, Goto, requestVars
<1>2. CASE AdviseRefused(r) \/ FindRefused(r) \/ CancelMissing(r)
  BY <1>2 DEF AdviseRefused, FindRefused, CancelMissing, Refuse, Ends, Reply, Goto,
              requestVars
<1>3. CASE NotConfirmed(r) \/ BadReference(r) \/ Fail(r)
  BY <1>3 DEF NotConfirmed, BadReference, Fail, Live, Ends, Reply, Goto, requestVars
<1> QED
  BY <1>1, <1>2, <1>3

(* A commit stores the version in flight and ends the request.             *)
Stores(r) ==
  /\ pc[r] \in {"commit", "cancelling"}
  /\ table' = [table EXCEPT ![Target(r)] = pending[r]]
  /\ Ends(r)

(* Commit does this, and so does a commit whose answer is lost.            *)
LEMMA StoresSteps ==
  ASSUME NEW r \in Requests, Commit(r) \/ LoseCommit(r)
  PROVE  Stores(r)
BY DEF Commit, LoseCommit, Committable, Stores, Ends, Reply, Goto, requestVars

(* A failed check ends the request or opens its next attempt.              *)
LEMMA CheckFailSteps ==
  ASSUME TypeOK, PhaseOK, NEW r \in Requests, CheckFail(r)
  PROVE  /\ table' = table /\ cmd' = cmd
         /\ InAttempt(r) /\ cmd[r].op # "cancel"
         /\ Ends(r) \/ \E p \in Places : BeginAttempt(r, p)
<1>1. pc[r] \in Kinds /\ Conflict(r, pc[r])
  BY DEF CheckFail
<1>2. InAttempt(r) /\ cmd[r].op # "cancel" /\ pc[r] # "idle"
  BY <1>1 DEF InAttempt, Kinds, PhaseOK, PhaseOf
<1> QED
  BY <1>1, <1>2 DEF Conflict, Ends, Reply, Goto

(* The end of a request is its own affair.                                 *)
LEMMA EndsAlone ==
  ASSUME TypeOK, NEW r \in Requests, Ends(r)
  PROVE  Alone(r)
BY DEF TypeOK, Ends, EndTransaction, Alone, txVars

(* So is the start of an attempt.                                          *)
LEMMA BeginAlone ==
  ASSUME TypeOK, NEW r \in Requests, NEW p \in Places, BeginAttempt(r, p), cmd' = cmd
  PROVE  Alone(r)
BY DEF TypeOK, BeginAttempt, Goto, Alone

-----------------------------------------------------------------------------
(* Frames.                                                                 *)

(* What a request has is untouched by others that leave its row alone.     *)
LEMMA OthersKept ==
  ASSUME TypeOK, PhaseOK, LockInv, NEW r \in Requests, Alone(r),
         NEW q \in Requests \ {r},
         HoldsRow(q, Target(q)) => table'[Target(q)] = table[Target(q)],
         table[q] = None => table'[q] = None
  PROVE  (Minted(q) /\ Succeeds(q) /\ Locked(q))'
<1>1. /\ cmd'[q] = cmd[q] /\ pc'[q] = pc[q] /\ pair'[q] = pair[q]
      /\ pending'[q] = pending[q] /\ want'[q] = want[q] /\ held'[q] = held[q]
  BY DEF Alone
<1>2. Minted(q) /\ Succeeds(q) /\ Locked(q) /\ PhaseOf(q)
  BY DEF LockInv, PhaseOK
<1>3. Minted(q)'
  BY <1>1, <1>2 DEF Minted, Target
<1>4. ASSUME InAttempt(q), pc[q] # "row"
      PROVE  NewVersion(q)' = NewVersion(q) /\ KeysOf(q)' = KeysOf(q) /\ Writable(q)' = Writable(q)
  <2>1. cmd[q].op # "book" => HoldsRow(q, Target(q))
    BY <1>2, <1>4 DEF HoldsRow, InAttempt, PhaseOf
  <2> QED
    BY <1>1, <2>1 DEF NewVersion, KeysOf, Leaves, Writable, Target
<1>5. Succeeds(q)'
  <2>1. pc[q] = "cancelling" => HoldsRow(q, Target(q))
    BY <1>2 DEF HoldsRow, Succeeds, PhaseOf
  <2> QED
    BY <1>1, <1>2, <1>4, <2>1 DEF Succeeds, Writing, InAttempt, Target
<1>6. Locked(q)'
  BY <1>1, <1>2, <1>4 DEF Locked, Writing, InAttempt
<1> QED
  BY <1>3, <1>5, <1>6

(* So it is enough to look at the request that moves, at a row it locks    *)
(* and at a key it takes.                                                  *)
LEMMA Frame ==
  ASSUME TypeOK, PhaseOK, LockInv, NEW r \in Requests, Alone(r),
         \A q \in Requests \ {r} :
           /\ HoldsRow(q, Target(q)) => table'[Target(q)] = table[Target(q)]
           /\ table[q] = None => table'[q] = None,
         (Minted(r) /\ Succeeds(r) /\ Locked(r))',
         \A id \in Ids : HoldsRow(r, id)' => HoldsRow(r, id) \/ (RowFree(r) /\ id = Target(r)),
         \A x \in held'[r] : x \in held[r] \/ \A q \in Requests \ {r} : x \notin held[q]
  PROVE  LockInv'
<1>1. \A q \in Requests \ {r} : (Minted(q) /\ Succeeds(q) /\ Locked(q))'
  BY OthersKept
<1>2. RowApart'
  <2>1. \A q \in Requests \ {r}, id \in Ids : HoldsRow(q, id)' => HoldsRow(q, id)
    BY DEF Alone, HoldsRow, Target
  <2>2. ASSUME NEW q \in Requests \ {r}, NEW id \in Ids, HoldsRow(r, id)', HoldsRow(q, id)
        PROVE  FALSE
    BY <2>2 DEF RowFree, LockInv, RowApart
  <2> QED
    BY <2>1, <2>2 DEF RowApart, LockInv
<1>3. KeysApart'
  <2>1. \A q \in Requests \ {r} : held'[q] = held[q]
    BY DEF Alone
  <2>2. \A q \in Requests \ {r} : held'[r] \cap held[q] = {}
    BY DEF LockInv, KeysApart
  <2> QED
    BY <2>1, <2>2 DEF KeysApart, LockInv
<1> QED
  BY <1>1, <1>2, <1>3 DEF LockInv

-----------------------------------------------------------------------------
(* The invariant, step by step.                                            *)

(* At the start nothing is held and nothing is in flight.                  *)
LEMMA InitLockInv == Init => LockInv
<1> SUFFICES ASSUME Init PROVE LockInv
  OBVIOUS
<1>1. RowApart /\ KeysApart
  BY DEF Init, RowApart, KeysApart, HoldsRow
<1>2. ASSUME NEW r \in Requests
      PROVE  Minted(r) /\ Succeeds(r) /\ Locked(r)
  BY InitialAssumption DEF Init, Minted, Succeeds, Locked, Writing
<1> QED
  BY <1>1, <1>2 DEF LockInv

(* A booking arrives under an id without a row.                            *)
LEMMA ArriveKeeps ==
  ASSUME TypeOK, PhaseOK, LockInv, NEW r \in Requests, Arrive(r)
  PROVE  LockInv'
<1>1. PICK c \in Commands :
        /\ c.op = "book" => c.id = r
        /\ cmd' = [cmd EXCEPT ![r] = c]
        /\ Goto(r, CASE c.op = "book" -> "advise" [] c.op = "move" -> "find"
                     [] c.op = "cancel" -> "cancel")
  BY DEF Arrive
<1>2. c.op \in {"book", "move", "cancel"}
  BY CommandAssumption DEF CommandSet
<1>3. Alone(r) /\ UNCHANGED <<table, pair, pending, want, held>>
  BY <1>1 DEF Arrive, Goto, Alone, TypeOK, requestVars, txVars
<1>4. /\ pc[r] = "idle" /\ cmd'[r] = c
      /\ pc'[r] = CASE c.op = "book" -> "advise" [] c.op = "move" -> "find"
                    [] c.op = "cancel" -> "cancel"
  BY <1>1 DEF Arrive, Goto, TypeOK
<1>5. pc'[r] \in {"advise", "find", "cancel"}
  BY <1>2, <1>4
<1>6. Minted(r) /\ Succeeds(r) /\ Locked(r)
  BY DEF LockInv
<1>7. (Minted(r) /\ Succeeds(r) /\ Locked(r))'
  <2>1. pc'[r] = "cancel" => cmd'[r].op = "cancel"
    BY <1>2, <1>4
  <2>2. pending[r] = None /\ held[r] = {}
    BY <1>4, <1>6 DEF Succeeds, Locked, Writing
  <2>3. Minted(r)'
    BY <1>1, <1>3, <1>4, <1>5, <1>6 DEF Minted, Target
  <2> QED
    BY <1>3, <1>5, <2>1, <2>2, <2>3 DEF Succeeds, Locked, Writing
<1>8. \A id \in Ids : ~ HoldsRow(r, id)'
  BY <1>5 DEF HoldsRow
<1> QED
  BY <1>3, <1>7, <1>8, Frame

(* A request that ends gives up all it has.                                *)
LEMMA EndsKeeps ==
  ASSUME TypeOK, PhaseOK, LockInv, NEW r \in Requests, Ends(r), table' = table
  PROVE  LockInv'
<1>1. Alone(r)
  BY EndsAlone
<1>2. pc'[r] = "done" /\ cmd'[r] = cmd[r]
  BY DEF Ends, TypeOK
<1>3. Minted(r) /\ Succeeds(r) /\ Locked(r) /\ PhaseOf(r)
  BY DEF LockInv, PhaseOK
<1>4. pending'[r] = None /\ held'[r] = {}
  BY <1>3 DEF Ends, EndTransaction, TypeOK, txVars, Succeeds, Locked, Writing
<1>5. (Minted(r) /\ Succeeds(r) /\ Locked(r))'
  BY <1>2, <1>3, <1>4 DEF Minted, Succeeds, Locked, Writing, Target
<1>6. \A id \in Ids : ~ HoldsRow(r, id)'
  BY <1>2 DEF HoldsRow
<1> QED
  BY <1>1, <1>4, <1>5, <1>6, Frame

(* Whoever commits holds the row, or has just minted it.                   *)
LEMMA StoresKeeps ==
  ASSUME TypeOK, PhaseOK, LockInv, NEW r \in Requests, Stores(r)
  PROVE  LockInv'
<1>1. Alone(r)
  BY EndsAlone DEF Stores
<1>2. pc'[r] = "done" /\ cmd'[r] = cmd[r]
  BY DEF Stores, Ends, TypeOK
<1>3. Minted(r) /\ Succeeds(r) /\ Locked(r) /\ PhaseOf(r)
  BY DEF LockInv, PhaseOK
<1>4. pending'[r] = None /\ held'[r] = {}
  BY DEF Stores, Ends, EndTransaction, TypeOK
<1>5. (Minted(r) /\ Succeeds(r) /\ Locked(r))'
  BY <1>2, <1>3, <1>4 DEF Minted, Succeeds, Locked, Writing, Target
<1>6. \A id \in Ids : ~ HoldsRow(r, id)'
  BY <1>2 DEF HoldsRow
<1>7. cmd[r] # None /\ Target(r) \in Ids
  BY <1>3, CommandType DEF Stores, PhaseOf, Target, TypeOK
<1>8. \A a \in Ids : a # Target(r) => table'[a] = table[a]
  BY <1>7 DEF Stores, TypeOK
<1>9. \/ cmd[r].op = "book" /\ Target(r) = r
      \/ cmd[r].op # "book" /\ HoldsRow(r, Target(r)) /\ table[Target(r)] # None
  BY <1>3, <1>7 DEF Stores, Minted, Succeeds, HoldsRow, PhaseOf, InAttempt
<1>10. ASSUME NEW q \in Requests \ {r}
       PROVE  /\ HoldsRow(q, Target(q)) => table'[Target(q)] = table[Target(q)]
              /\ table[q] = None => table'[q] = None
  <2>1. q \in Ids /\ (HoldsRow(q, Target(q)) => Target(q) \in Ids)
    BY IdsAssumption, CommandType DEF HoldsRow, Target, TypeOK
  <2>2. table[q] = None => q # Target(r)
    BY <1>9
  <2>3. ASSUME HoldsRow(q, Target(q)), Target(q) = Target(r)
        PROVE  FALSE
    <3>1. table[Target(q)] # None
      BY <2>3 DEF HoldsRow, LockInv, Succeeds, PhaseOK, PhaseOf, InAttempt
    <3>2. CASE cmd[r].op = "book" /\ Target(r) = r
      <4>1. table[r] = None
        BY <1>3, <3>2 DEF Minted, Stores
      <4> QED
        BY <2>3, <3>1, <3>2, <4>1
    <3>3. CASE HoldsRow(r, Target(r))
      BY <1>7, <2>3, <3>3 DEF LockInv, RowApart
    <3> QED
      BY <1>9, <3>2, <3>3
  <2> QED
    BY <1>8, <2>1, <2>2, <2>3
<1> QED
  BY <1>1, <1>4, <1>5, <1>6, <1>10, Frame

(* An attempt starts with nothing held.                                    *)
LEMMA BeginKeeps ==
  ASSUME TypeOK, PhaseOK, LockInv, NEW r \in Requests, NEW p \in Places, BeginAttempt(r, p),
         UNCHANGED <<table, cmd>>, pc[r] \notin {"idle", "done"}, cmd[r].op # "cancel"
  PROVE  LockInv'
<1>1. Alone(r)
  BY BeginAlone
<1>2. /\ pair'[r] = p /\ pending'[r] = None /\ held'[r] = {}
      /\ want'[r] = IF cmd[r].op = "book" THEN LockKeys(p, p) ELSE {}
      /\ pc'[r] = IF cmd[r].op = "book" THEN "keys" ELSE "row"
  BY DEF BeginAttempt, Goto, TypeOK
<1>3. Minted(r) /\ Succeeds(r) /\ Locked(r)
  BY DEF LockInv
<1>4. Minted(r)'
  BY <1>2, <1>3 DEF Minted, Target
<1>5. Succeeds(r)'
  BY <1>2 DEF Succeeds, Writing
<1>6. Locked(r)'
  BY <1>2 DEF Locked, Writing, KeysOf, Leaves
<1>7. \A id \in Ids : ~ HoldsRow(r, id)'
  BY <1>2 DEF HoldsRow
<1> QED
  BY <1>1, <1>2, <1>4, <1>5, <1>6, <1>7, Frame

(* A request that takes the row lock was the only one to want the row.     *)
LEMMA LockRowKeeps ==
  ASSUME TypeOK, PhaseOK, LockInv, NEW r \in Requests, LockRow(r)
  PROVE  LockInv'
<1>1. /\ pc[r] = "row" /\ RowFree(r) /\ pc'[r] = "keys"
      /\ want'[r] = LockKeys(pair[r], table[Target(r)].at)
      /\ UNCHANGED <<table, cmd, pair, pending, held>>
  BY DEF LockRow, Goto, TypeOK, requestVars
<1>2. Alone(r)
  BY DEF LockRow, Goto, Alone, TypeOK, requestVars
<1>3. Minted(r) /\ Succeeds(r) /\ Locked(r) /\ cmd[r].op = "move" /\ held[r] = {}
  BY <1>1 DEF LockInv, Locked, Writing, PhaseOK, PhaseOf
<1>4. (Minted(r) /\ Succeeds(r) /\ Locked(r))'
  BY <1>1, <1>3 DEF Minted, Succeeds, Locked, Writing, Target, KeysOf, Leaves
<1>5. \A id \in Ids : HoldsRow(r, id)' => id = Target(r)
  BY <1>1 DEF HoldsRow, Target
<1> QED
  BY <1>1, <1>2, <1>4, <1>5, Frame

(* Of the keys wanted the least is taken, so those left are greater.       *)
LEMMA LockKeyKeeps ==
  ASSUME TypeOK, PhaseOK, LockInv, NEW r \in Requests, LockKey(r)
  PROVE  LockInv'
<1>1. PICK x \in want[r] :
        /\ IsNextKey(x, want[r])
        /\ \A q \in Requests \ {r} : x \notin held[q]
        /\ want' = [want EXCEPT ![r] = @ \ {x}]
        /\ held' = [held EXCEPT ![r] = @ \cup {x}]
  BY DEF LockKey
<1>2. pc[r] = "keys" /\ UNCHANGED <<table, cmd, pc, pair, pending>>
  BY DEF LockKey, requestVars
<1>3. want'[r] = want[r] \ {x} /\ held'[r] = held[r] \cup {x}
  BY <1>1 DEF TypeOK
<1>4. Alone(r)
  BY <1>1, <1>2 DEF Alone, TypeOK
<1>5. Minted(r) /\ Succeeds(r) /\ Locked(r)
  BY DEF LockInv
<1>6. Minted(r)' /\ Succeeds(r)'
  BY <1>2, <1>5 DEF Minted, Succeeds, Writing, Target
<1>7. Locked(r)'
  <2>1. KeysOf(r)' = KeysOf(r)
    BY <1>2 DEF KeysOf, Leaves, Target
  <2>2. held'[r] \cup want'[r] = KeysOf(r)
    BY <1>2, <1>3, <1>5 DEF Locked
  <2>3. \A y \in held'[r], z \in want'[r] : Before(y, z) /\ y # z
    BY <1>1, <1>2, <1>3, <1>5 DEF Locked, IsNextKey
  <2> QED
    BY <1>2, <2>1, <2>2, <2>3 DEF Locked, Writing
<1>8. \A id \in Ids : HoldsRow(r, id)' => HoldsRow(r, id)
  BY <1>2 DEF HoldsRow, Target
<1> QED
  BY <1>1, <1>2, <1>3, <1>4, <1>6, <1>7, <1>8, Frame

(* The write comes when every key is held.                                 *)
LEMMA WriteKeeps ==
  ASSUME TypeOK, PhaseOK, LockInv, NEW r \in Requests, Write(r)
  PROVE  LockInv'
<1>1. /\ pc[r] = "keys" /\ want[r] = {} /\ Writable(r) /\ pc'[r] = "bay"
      /\ pending'[r] = NewVersion(r)
      /\ UNCHANGED <<table, cmd, pair, want, held>>
  BY DEF Write, Goto, TypeOK, requestVars
<1>2. Alone(r)
  BY DEF Write, Goto, Alone, TypeOK, requestVars
<1>3. Minted(r) /\ Succeeds(r) /\ Locked(r)
  BY DEF LockInv
<1>4. Minted(r)' /\ Locked(r)'
  BY <1>1, <1>3 DEF Minted, Locked, Writing, Target, KeysOf, Leaves
<1>5. Succeeds(r)'
  <2>1. Writable(r)' /\ NewVersion(r)' = NewVersion(r)
    BY <1>1 DEF Writable, NewVersion, Target
  <2> QED
    BY <1>1, <2>1 DEF Succeeds, Writing
<1>6. \A id \in Ids : HoldsRow(r, id)' => HoldsRow(r, id)
  BY <1>1 DEF HoldsRow, Target
<1> QED
  BY <1>1, <1>2, <1>4, <1>5, <1>6, Frame

(* A check that passes changes no lock.                                    *)
LEMMA CheckPassKeeps ==
  ASSUME TypeOK, PhaseOK, LockInv, NEW r \in Requests, CheckPass(r)
  PROVE  LockInv'
<1>1. /\ pc[r] \in {"bay", "technician"} /\ pc'[r] \in {"technician", "commit"}
      /\ UNCHANGED <<table, cmd, pair, pending, want, held>>
  BY DEF CheckPass, Goto, TypeOK, requestVars, txVars, Kinds
<1>2. Alone(r)
  BY DEF CheckPass, Goto, Alone, TypeOK, requestVars, txVars
<1>3. Minted(r) /\ Succeeds(r) /\ Locked(r)
  BY DEF LockInv
<1>4. Minted(r)' /\ Locked(r)'
  BY <1>1, <1>3 DEF Minted, Locked, Writing, Target, KeysOf, Leaves
<1>5. Succeeds(r)'
  <2>1. Writable(r)' = Writable(r) /\ NewVersion(r)' = NewVersion(r)
    BY <1>1 DEF Writable, NewVersion, Target
  <2> QED
    BY <1>1, <1>3, <2>1 DEF Succeeds, Writing
<1>6. \A id \in Ids : HoldsRow(r, id)' => HoldsRow(r, id)
  BY <1>1 DEF HoldsRow, Target
<1> QED
  BY <1>1, <1>2, <1>4, <1>5, <1>6, Frame

(* A cancellation takes the row when nobody has it.                        *)
LEMMA CancelKeeps ==
  ASSUME TypeOK, PhaseOK, LockInv, NEW r \in Requests, Cancel(r)
  PROVE  LockInv'
<1>1. /\ pc[r] = "cancel" /\ table[Target(r)] # None /\ RowFree(r) /\ pc'[r] = "cancelling"
      /\ pending'[r] = CancelledVersion(table[Target(r)])
      /\ UNCHANGED <<table, cmd, pair, want, held>>
  BY DEF Cancel, Goto, TypeOK, requestVars
<1>2. Alone(r)
  BY DEF Cancel, Goto, Alone, TypeOK, requestVars
<1>3. Minted(r) /\ Succeeds(r) /\ Locked(r)
  BY DEF LockInv
<1>4. (Minted(r) /\ Succeeds(r) /\ Locked(r))'
  BY <1>1, <1>3 DEF Minted, Succeeds, Locked, Writing, Target
<1>5. \A id \in Ids : HoldsRow(r, id)' => id = Target(r)
  BY <1>1 DEF HoldsRow, Target
<1> QED
  BY <1>1, <1>2, <1>4, <1>5, Frame

(* Every step keeps the invariant.                                         *)
LEMMA LockStep ==
  ASSUME TypeOK, PhaseOK, LockInv, [Next]_vars
  PROVE  LockInv'
<1>1. ASSUME NEW r \in Requests, Advise(r)
      PROVE  LockInv'
  <2>1. PICK p \in Places : BeginAttempt(r, p)
    BY <1>1 DEF Advise
  <2>2. pc[r] = "advise" /\ cmd[r].op = "book" /\ UNCHANGED <<table, cmd>>
    BY <1>1 DEF Advise, PhaseOK, PhaseOf
  <2> QED
    BY <2>1, <2>2, BeginKeeps
<1>2. ASSUME NEW r \in Requests, Find(r)
      PROVE  LockInv'
  <2>1. pc[r] = "find" /\ cmd[r].op = "move" /\ UNCHANGED <<table, cmd>>
    BY <1>2 DEF Find, PhaseOK, PhaseOf
  <2>2. table[Target(r)].at \in Places
    BY <1>2, CommandType, RowIsVersion DEF Find, PhaseOK, PhaseOf, Target, TypeOK
  <2> QED
    BY <1>2, <2>1, <2>2, BeginKeeps DEF Find
<1>3. ASSUME NEW r \in Requests, CheckFail(r)
      PROVE  LockInv'
  <2>1. /\ table' = table /\ cmd' = cmd /\ InAttempt(r) /\ cmd[r].op # "cancel"
        /\ Ends(r) \/ \E p \in Places : BeginAttempt(r, p)
    BY <1>3, CheckFailSteps
  <2> QED
    BY <2>1, EndsKeeps, BeginKeeps DEF InAttempt
<1>4. CASE UNCHANGED vars
  BY <1>4 DEF vars, requestVars, txVars, LockInv, RowApart, KeysApart, HoldsRow, Minted,
              Succeeds, Locked, Writing, Target, Writable, NewVersion, KeysOf, Leaves
<1> QED
  BY <1>1, <1>2, <1>3, <1>4, ArriveKeeps, EndsSteps, EndsKeeps, StoresSteps, StoresKeeps,
     LockRowKeeps, LockKeyKeeps, WriteKeeps, CheckPassKeeps, CancelKeeps
     DEF Next, Step, Quiet

(* Row locks, keys and versions in flight, in every behaviour.             *)
THEOREM LocksHeld == Spec => []LockInv
<1>1. IInv => TypeOK /\ PhaseOK
  BY DEF IInv
<1>2. IInv /\ LockInv /\ [Next]_vars => LockInv'
  BY <1>1, LockStep
<1> QED
  BY <1>2, InitLockInv, Invariance, PTL DEF Spec

-----------------------------------------------------------------------------
(* A cancelled row is final.                                               *)

(* Only a commit changes the table.                                        *)
LEMMA TableSteps ==
  ASSUME TypeOK, PhaseOK, [Next]_vars, table' # table
  PROVE  \E r \in Requests : Stores(r)
<1>1. ASSUME NEW r \in Requests, Step(r) \/ Arrive(r) \/ Fail(r), ~ Commit(r)
      PROVE  table' = table
  <2>1. CASE AdviseRefused(r) \/ FindRefused(r) \/ NotConfirmed(r) \/ BadReference(r)
             \/ CancelMissing(r) \/ Fail(r) \/ Deadlock(r)
    BY <2>1, EndsSteps
  <2>2. CASE CheckFail(r)
    BY <2>2, CheckFailSteps
  <2>3. CASE Arrive(r) \/ Advise(r) \/ Find(r) \/ LockRow(r) \/ LockKey(r) \/ Write(r)
             \/ CheckPass(r) \/ Cancel(r)
    BY <2>3 DEF Arrive, Advise, Find, LockRow, LockKey, Write, CheckPass, Cancel
  <2> QED
    BY <1>1, <2>1, <2>2, <2>3 DEF Step
<1>2. PICK r \in Requests : Commit(r) \/ LoseCommit(r)
  BY <1>1 DEF Next, Step, Quiet, vars
<1> QED
  BY <1>2, StoresSteps

(* A commit on a stored row is a move of a confirmed one or a cancellation,*)
(* whose second application changes nothing.                               *)
LEMMA FinalStep ==
  ASSUME TypeOK, PhaseOK, LockInv, [Next]_vars, NEW a \in Ids, table[a] # None
  PROVE  table'[a] # None /\ (table[a].status = "cancelled" => table'[a] = table[a])
<1>1. CASE table' = table
  BY <1>1
<1>2. CASE table' # table
  <2>1. PICK r \in Requests : Stores(r)
    BY <1>2, TableSteps
  <2>2. Minted(r) /\ Succeeds(r) /\ PhaseOf(r)
    BY DEF LockInv, PhaseOK
  <2>3. pending[r] # None
    BY <2>1, <2>2 DEF Stores, PhaseOf, Writing
  <2>4. table'[a] = IF a = Target(r) THEN pending[r] ELSE table[a]
    BY <2>1 DEF Stores, TypeOK
  <2>5. CASE a = Target(r) /\ table[a].status = "cancelled"
    <3>1. cmd[r].op # "book"
      BY <2>1, <2>2, <2>5 DEF Stores, Minted, PhaseOf
    <3>2. pc[r] = "cancelling"
      <4>1. cmd[r] \in CommandSet /\ (pc[r] = "commit" => cmd[r].op = "move")
        BY <2>1, <2>2, <3>1, CommandType DEF Stores, PhaseOf, InAttempt, TypeOK
      <4> QED
        BY <2>1, <2>2, <2>5, <4>1 DEF Stores, Succeeds, Writing, Writable
    <3> QED
      BY <2>2, <2>3, <2>4, <2>5, <3>2 DEF Succeeds, CancelledVersion
  <2> QED
    BY <2>3, <2>4, <2>5
<1> QED
  BY <1>1, <1>2

(* A stored row is never removed, and a cancelled one keeps every column,  *)
(* whatever cancellations are replayed and whatever moves race with it.    *)
THEOREM CancelFinal == Spec => CancelledIsFinal
<1>1. IInv /\ LockInv /\ [Next]_vars
        => [\A a \in Ids : table[a] # None =>
              /\ table'[a] # None
              /\ table[a].status = "cancelled" => table'[a] = table[a]]_table
  BY FinalStep DEF IInv
<1> QED
  BY <1>1, LocksHeld, Invariance, PTL DEF Spec, CancelledIsFinal

-----------------------------------------------------------------------------
(* No circle of waiting requests.                                          *)

(* A key's place in the order of acquisition.                              *)
Rank(x) == 4294967296 * x[1] + x[2]
Top == 12884901888

(* A hash is an integer of four bytes.                                     *)
LEMMA HashBound ==
  ASSUME NEW h \in Hashes
  PROVE  h \in Int /\ 0 <= h + 2147483648 /\ h <= 2147483647
<1>1. MaxHash = 2147483647
  BY SMT DEF MaxHash
<1>2. MaxHash \in Int
  BY SMT DEF MaxHash
<1>3. h \in Int /\ 0 <= h + MaxHash + 1 /\ h <= MaxHash
  BY <1>2, SMT DEF Hashes
<1> QED
  BY <1>1, <1>3, SMT

(* The order of the keys is that of their ranks, which are bounded.        *)
LEMMA RankOrder ==
  ASSUME NEW x \in {1, 2} \X Hashes, NEW y \in {1, 2} \X Hashes
  PROVE  /\ Top - Rank(x) \in Nat
         /\ Before(x, y) /\ x # y => Top - Rank(y) < Top - Rank(x)
<1>1. PICK c \in {1, 2}, h \in Hashes : x = <<c, h>>
  OBVIOUS
<1>2. PICK d \in {1, 2}, g \in Hashes : y = <<d, g>>
  OBVIOUS
<1>3. /\ h \in Int /\ 0 <= h + 2147483648 /\ h <= 2147483647
      /\ g \in Int /\ 0 <= g + 2147483648 /\ g <= 2147483647
  BY HashBound
<1>4. Rank(x) = 4294967296 * c + h /\ Rank(y) = 4294967296 * d + g
  BY <1>1, <1>2 DEF Rank
<1>5. Before(x, y) /\ x # y => c < d \/ (c = d /\ h < g)
  BY <1>1, <1>2, <1>3 DEF Before
<1>6. Top = 12884901888
  BY SMT DEF Top
<1> QED
  BY <1>3, <1>4, <1>5, <1>6, SMT

(* Every key wanted is a key of one of the two classes.                    *)
LEMMA KeysRanked ==
  ASSUME TypeOK, PhaseOK, LockInv, NEW r \in Requests, pc[r] = "keys"
  PROVE  want[r] \subseteq {1, 2} \X Hashes
<1>1. /\ cmd[r] # None /\ pair[r] # None
      /\ cmd[r].op # "book" => table[Target(r)] # None
  BY DEF PhaseOK, PhaseOf, InAttempt
<1>2. pair[r] \in Places /\ Leaves(r) \in Places
  BY <1>1, CommandType, RowIsVersion DEF Leaves, Target, TypeOK
<1>3. \A p \in Places, k \in Kinds : KeyOf(p, k) \in {1, 2} \X Hashes
  BY PlaceType, HashAssumption DEF KeyOf
<1>4. KeysOf(r) \subseteq {1, 2} \X Hashes
  BY <1>2, <1>3 DEF KeysOf, LockKeys
<1> QED
  BY <1>4 DEF LockInv, Locked

(* Least number principle.                                                 *)
LEMMA LeastOf ==
  ASSUME NEW T \in SUBSET Nat, T # {}
  PROVE  \E n \in T : \A m \in T : ~ (m < n)
<1> DEFINE R == {p \in Nat \X Nat : p[1] < p[2]}
<1>1. IsWellFoundedOn(R, Nat)
  BY NatLessThanWellFounded, Zenon DEF OpToRel
<1>2. PICK n \in T : \A m \in T : <<m, n>> \notin R
  <2> HIDE DEF R
  <2> QED
    BY <1>1, WFMin
<1> QED
  BY <1>2

(* A transaction that has written holds the keys of all its versions, so   *)
(* no other writer's check can have to wait for it.                        *)
LEMMA WritersApart ==
  ASSUME TypeOK, PhaseOK, LockInv, UseLocks, NEW r \in Requests, NEW q \in Requests,
         pc[r] \in Kinds, q \in InFlight(r, pc[r])
  PROVE  ~ Writing(q)
<1> SUFFICES ASSUME Writing(q) PROVE FALSE
  OBVIOUS
<1> DEFINE k == pc[r]
<1>1. Writing(r) /\ k \in Kinds /\ q # r
  BY DEF Writing, Kinds, InFlight
<1>2. /\ Succeeds(r) /\ Locked(r) /\ PhaseOf(r) /\ Minted(r)
      /\ Succeeds(q) /\ Locked(q) /\ PhaseOf(q) /\ Minted(q)
  BY DEF LockInv, PhaseOK
<1>3. \A p \in Requests : Writing(p) =>
        /\ pair[p] \in Places
        /\ KeyOf(pair[p], k) \in held[p] /\ KeyOf(Leaves(p), k) \in held[p]
        /\ cmd[p] # None
  BY <1>1 DEF LockInv, Locked, KeysOf, LockKeys, PhaseOK, PhaseOf, InAttempt, Writing, TypeOK
<1>4. pending[r].at = pair[r] /\ pending[q].at = pair[q]
  <2>1. ASSUME NEW p \in Requests, Writing(p)
        PROVE  pending[p].at = pair[p]
    <3>1. pending[p] = NewVersion(p)
      BY <2>1 DEF LockInv, Succeeds
    <3>2. CASE cmd[p].op = "book"
      BY <3>1, <3>2 DEF NewVersion
    <3>3. CASE cmd[p].op # "book"
      <4>1. table[Target(p)] \in Versions
        BY <2>1, <3>3, CommandType, RowIsVersion
           DEF PhaseOK, PhaseOf, InAttempt, Writing, Target, TypeOK
      <4> QED
        BY <3>1, <3>3, <4>1 DEF NewVersion, Versions
    <3> QED
      BY <3>2, <3>3
  <2> QED
    BY <1>1, <2>1
<1>5. CASE Clash(pending[q], pending[r], k)
  <2>1. KeyOf(pair[q], k) = KeyOf(pair[r], k)
    BY <1>4, <1>5 DEF Clash, KeyOf
  <2> QED
    BY <1>1, <1>3, <2>1 DEF LockInv, KeysApart
<1>6. CASE Occupies(table[Target(q)]) /\ Clash(table[Target(q)], pending[r], k)
  <2>1. cmd[q].op # "book"
    BY <1>2, <1>3, <1>6 DEF Minted, Writing, Occupies
  <2>2. KeyOf(Leaves(q), k) = KeyOf(pair[r], k)
    BY <1>4, <1>6, <2>1 DEF Clash, KeyOf, Leaves
  <2> QED
    BY <1>1, <1>3, <2>2 DEF LockInv, KeysApart
<1> QED
  BY <1>5, <1>6 DEF InFlight

(* In a circle every request waits for a key or for a row whose holder     *)
(* waits for a key.                                                        *)
LEMMA StuckOnKeys ==
  ASSUME TypeOK, PhaseOK, LockInv, UseLocks, NEW S \in SUBSET Waiting, Stuck(S),
         NEW r \in S
  PROVE  \E q \in S : /\ pc[q] = "keys"
                      /\ pc[r] = "keys" => \E x \in held[q] : IsNextKey(x, want[r])
<1>1. \A q \in S : q \in Requests /\ pc[q] \in {"row", "cancel", "keys"} \cup Kinds
  BY DEF Waiting, Awaits
<1>2. \A q \in S : pc[q] \notin Kinds
  <2> SUFFICES ASSUME NEW q \in S, pc[q] \in Kinds PROVE FALSE
    OBVIOUS
  <2>1. Awaits(q) = InFlight(q, pc[q])
    BY DEF Awaits, Kinds
  <2>2. PICK p \in S : p \in InFlight(q, pc[q])
    BY <2>1 DEF Stuck
  <2>3. pending[p] # None /\ p \in Requests
    BY <1>1, <2>2 DEF InFlight
  <2>4. Writing(p)
    BY <1>1, <2>3 DEF LockInv, Succeeds, Writing, Kinds
  <2> QED
    BY <1>1, <2>2, <2>4, WritersApart
<1>3. PICK q \in S : q \in Awaits(r)
  BY DEF Stuck
<1>4. CASE pc[r] \in {"row", "cancel"}
  <2>2. HoldsRow(q, Target(r))
    BY <1>3, <1>4 DEF Awaits, Kinds
  <2> QED
    BY <1>1, <1>2, <1>4, <2>2 DEF HoldsRow, Kinds
<1>5. CASE pc[r] = "keys"
  <2>1. PICK x \in held[q] : IsNextKey(x, want[r])
    BY <1>3, <1>5 DEF Awaits, Kinds
  <2>2. pc[q] = "keys" \/ Writing(q)
    BY <1>1, <2>1 DEF LockInv, Locked
  <2> QED
    BY <1>1, <1>2, <2>1, <2>2 DEF Writing, Kinds
<1> QED
  BY <1>1, <1>2, <1>4, <1>5

(* Along a circle the keys waited for would grow for ever.                 *)
LEMMA NoCircle ==
  ASSUME TypeOK, PhaseOK, LockInv, UseLocks, NEW S \in SUBSET Waiting, Stuck(S)
  PROVE  FALSE
<1> DEFINE AwaitedKey(r, x) == pc[r] = "keys" /\ x \in {1, 2} \X Hashes /\ IsNextKey(x, want[r])
           T == {n \in Nat : \E r \in S, x \in {1, 2} \X Hashes :
                               AwaitedKey(r, x) /\ n = Top - Rank(x)}
<1>1. \A r \in S : pc[r] = "keys" =>
        \E q \in S : pc[q] = "keys" /\ \E x \in held[q] : AwaitedKey(r, x)
  <2> SUFFICES ASSUME NEW r \in S, pc[r] = "keys"
               PROVE  \E q \in S : pc[q] = "keys" /\ \E x \in held[q] : AwaitedKey(r, x)
    OBVIOUS
  <2>1. PICK q \in S : pc[q] = "keys" /\ \E x \in held[q] : IsNextKey(x, want[r])
    BY StuckOnKeys
  <2>2. want[r] \subseteq {1, 2} \X Hashes
    BY KeysRanked DEF Waiting
  <2> QED
    BY <2>1, <2>2 DEF IsNextKey
<1>2. T # {}
  <2>1. PICK r \in S : pc[r] = "keys"
    BY StuckOnKeys DEF Stuck
  <2>2. PICK x \in {1, 2} \X Hashes : AwaitedKey(r, x)
    BY <1>1, <2>1
  <2> QED
    BY <2>2, RankOrder
<1>3. PICK n \in T : \A m \in T : ~ (m < n)
  <2>1. T \in SUBSET Nat
    OBVIOUS
  <2> HIDE DEF T
  <2> QED
    BY <1>2, <2>1, LeastOf
<1>4. PICK r \in S, x \in {1, 2} \X Hashes : AwaitedKey(r, x) /\ n = Top - Rank(x)
  OBVIOUS
<1>5. PICK q \in S : pc[q] = "keys" /\ \E z \in held[q] : AwaitedKey(r, z)
  BY <1>1, <1>4
<1>6. PICK z \in held[q] : AwaitedKey(r, z)
  BY <1>5
<1>7. PICK y \in {1, 2} \X Hashes : AwaitedKey(q, y)
  BY <1>1, <1>5
<1>8. x = z
  <2>1. Before(x, z) /\ Before(z, x)
    BY <1>4, <1>6 DEF IsNextKey
  <2>2. /\ Top - Rank(x) \in Nat /\ Top - Rank(z) \in Nat
        /\ x # z => Top - Rank(x) < Top - Rank(z) /\ Top - Rank(z) < Top - Rank(x)
    BY <1>6, <2>1, RankOrder
  <2> QED
    BY <2>2
<1>9. Before(z, y) /\ z # y
  BY <1>5, <1>6, <1>7 DEF Waiting, LockInv, Locked, IsNextKey
<1>10. Top - Rank(y) < n /\ Top - Rank(y) \in T
  BY <1>4, <1>7, <1>8, <1>9, RankOrder
<1> QED
  BY <1>3, <1>10

(* With the advisory locks no set of requests ever waits on itself, so     *)
(* 40P01 never ends a request of this service.                             *)
THEOREM DeadlockFree == Spec => []NoDeadlock
<1>1. IInv /\ LockInv => NoDeadlock
  BY NoCircle DEF IInv, NoDeadlock
<1> QED
  BY <1>1, LocksHeld, Invariance, PTL
=============================================================================
