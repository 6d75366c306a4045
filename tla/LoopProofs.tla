----------------------------- MODULE LoopProofs -----------------------------
(***************************************************************************)
(* What the attempt loop of Scheduler promises, for any finite set of      *)
(* bays and technicians and any cap: it ends before its structural bound,  *)
(* whose throw is unreachable, and when it says that a kind of resource is *)
(* exhausted the database has refused every candidate of that kind.        *)
(***************************************************************************)
EXTENDS LockProofs, FiniteSetTheorems

-----------------------------------------------------------------------------
(* The inductive invariant.                                                *)

(* The request has a service: its own, or that of the row it moves.        *)
HasService(r) == cmd[r] # None /\ (cmd[r].op # "book" => table[Target(r)] # None)

(* The candidates left, of both kinds, and those there were.               *)
LeftOver(r) == Cardinality(left[r]["bay"]) + Cardinality(left[r]["technician"])
AllOf(s) == Cardinality(Bays) + Cardinality(Qualified[s])

(* Once an order is drawn: the pair tried is of candidates left, those     *)
(* pruned were refused, and each attempt but the first pruned one.         *)
Ordered(r) ==
  /\ \A k \in Kinds :
       /\ pair[r][k] \in left[r][k]
       /\ left[r][k] \subseteq Candidates(ServiceOf(r))[k]
       /\ \A x \in Candidates(ServiceOf(r))[k] \ left[r][k] : <<k, x>> \in conflicts[r]
  /\ attempts[r] + LeftOver(r) <= AllOf(ServiceOf(r)) + (IF cmd[r].op = "book" THEN 1 ELSE 2)

LoopOf(r) ==
  /\ answer[r] # "overrun" /\ attempts[r] <= AttemptCap
  /\ answer[r] # "none" => pc[r] = "done"
  /\ answer[r] = "exhausted" => HasService(r) /\ ProvenTaken(r)
  /\ pc[r] \in {"idle", "advise", "find"} => attempts[r] = 0 /\ left[r] = NoOrder
  /\ InAttempt(r) /\ left[r] = NoOrder => attempts[r] = 1 /\ cmd[r].op = "move"
  /\ InAttempt(r) /\ left[r] # NoOrder => Ordered(r)

LoopInv == \A r \in Requests : LoopOf(r)

-----------------------------------------------------------------------------
(* Sizes.                                                                  *)

(* Candidates are finitely many.                                           *)
LEMMA CandidatesFinite ==
  ASSUME NEW s \in Services, NEW k \in Kinds, NEW S \in SUBSET Candidates(s)[k]
  PROVE  IsFiniteSet(S) /\ Cardinality(S) \in Nat
<1>1. IsFiniteSet(Candidates(s)[k])
  <2>1. Qualified[s] \in SUBSET Techs
    BY QualifiedAssumption
  <2>2. IsFiniteSet(Qualified[s])
    BY <2>1, FiniteAssumption, FS_Subset
  <2> QED
    BY <2>2, FiniteAssumption DEF Candidates
<1> QED
  BY <1>1, FS_Subset, FS_CardinalityType

(* A set that is not empty has a member, and one less without it.          *)
LEMMA OneLess ==
  ASSUME NEW s \in Services, NEW k \in Kinds, NEW S \in SUBSET Candidates(s)[k]
  PROVE  /\ S # {} => Cardinality(S) >= 1
         /\ \A x \in S : Cardinality(S \ {x}) = Cardinality(S) - 1
<1>1. IsFiniteSet(S) /\ Cardinality(S) \in Nat
  BY CandidatesFinite
<1>2. S # {} => Cardinality(S) # 0
  BY <1>1, FS_EmptySet
<1>3. \A x \in S : Cardinality(S \ {x}) = Cardinality(S) - 1
  BY <1>1, FS_RemoveElement
<1> QED
  BY <1>1, <1>2, <1>3

(* All the candidates of a service, counted by kind.                       *)
LEMMA CandidatesSize ==
  ASSUME NEW s \in Services
  PROVE  AllOf(s) = Cardinality(Candidates(s)["bay"]) + Cardinality(Candidates(s)["technician"])
BY DEF AllOf, Candidates, Kinds

-----------------------------------------------------------------------------
(* Frames.                                                                 *)

(* No step changes the service of a request.                               *)
LEMMA ServiceKept ==
  ASSUME TypeOK, PhaseOK, LockInv, [Next]_vars,
         NEW q \in Requests, HasService(q), cmd'[q] = cmd[q]
  PROVE  HasService(q)' /\ ServiceOf(q)' = ServiceOf(q)
<1>1. CASE cmd[q].op = "book"
  BY <1>1 DEF HasService, ServiceOf, Target
<1>2. CASE cmd[q].op # "book" /\ table' = table
  BY <1>2 DEF HasService, ServiceOf, Target
<1>3. CASE cmd[q].op # "book" /\ table' # table
  <2>1. PICK r \in Requests : Stores(r)
    BY <1>3, TableSteps
  <2>2. Minted(r) /\ Succeeds(r) /\ PhaseOf(r)
    BY DEF LockInv, PhaseOK
  <2>3. Target(q) \in Ids /\ table[Target(q)] # None /\ Target(q)' = Target(q)
    BY <1>3, CommandType DEF HasService, Target, TypeOK
  <2>4. table'[Target(q)] = IF Target(q) = Target(r) THEN pending[r] ELSE table[Target(q)]
    BY <2>1, <2>3 DEF Stores, TypeOK
  <2>5. pending[r] # None
    BY <2>1, <2>2 DEF Stores, PhaseOf, Writing
  <2>6. ASSUME Target(q) = Target(r)
        PROVE  pending[r].service = table[Target(q)].service
    <3>1. cmd[r].op # "book"
      BY <2>1, <2>2, <2>3, <2>6 DEF Stores, Minted, PhaseOf
    <3>2. table[Target(r)] \in Versions
      BY <2>3, <2>6, RowIsVersion DEF TypeOK
    <3>3. CASE pc[r] = "commit"
      BY <2>2, <2>6, <3>1, <3>2, <3>3 DEF Succeeds, Writing, NewVersion, Versions
    <3>4. CASE pc[r] = "cancelling"
      BY <2>2, <2>6, <3>2, <3>4 DEF Succeeds, CancelledVersion, Versions
    <3> QED
      BY <2>1, <3>3, <3>4 DEF Stores
  <2> QED
    BY <1>3, <2>3, <2>4, <2>5, <2>6 DEF HasService, ServiceOf
<1> QED
  BY <1>1, <1>2, <1>3

(* A request that stays in its attempt, or leaves it with an answer that   *)
(* claims nothing, keeps what the loop knows.                              *)
LEMMA LoopFrame ==
  ASSUME TypeOK, PhaseOK, LockInv, LoopInv, [Next]_vars, NEW q \in Requests,
         /\ cmd'[q] = cmd[q] /\ pair'[q] = pair[q] /\ left'[q] = left[q]
         /\ attempts'[q] = attempts[q] /\ conflicts'[q] = conflicts[q],
         \/ pc'[q] = pc[q] /\ answer'[q] = answer[q]
         \/ InAttempt(q) /\ InAttempt(q)' /\ answer'[q] = answer[q]
         \/ pc'[q] = "cancelling" /\ answer'[q] = "none"
         \/ pc'[q] = "done" /\ answer'[q] \notin {"overrun", "exhausted"}
  PROVE  LoopOf(q)'
<1>1. LoopOf(q) /\ PhaseOf(q)
  BY DEF LoopInv, PhaseOK
<1>2. ASSUME HasService(q)
      PROVE  HasService(q)' /\ ServiceOf(q)' = ServiceOf(q)
  BY <1>2, ServiceKept
<1>3. ASSUME InAttempt(q)', left'[q] # NoOrder
      PROVE  Ordered(q)'
  <2>1. InAttempt(q)
    BY <1>3 DEF InAttempt
  <2>2. HasService(q)
    BY <1>1, <2>1 DEF PhaseOf, HasService, InAttempt
  <2> QED
    BY <1>1, <1>2, <1>3, <2>1, <2>2 DEF LoopOf, Ordered, LeftOver
<1>4. ASSUME answer'[q] = "exhausted"
      PROVE  HasService(q)' /\ ProvenTaken(q)'
  <2>1. answer[q] = "exhausted"
    BY <1>4
  <2> QED
    BY <1>1, <1>2, <2>1 DEF LoopOf, ProvenTaken
<1>5. InAttempt(q)' => InAttempt(q)
  BY DEF InAttempt
<1>6. /\ answer'[q] # "overrun"
      /\ answer'[q] # "none" => pc'[q] = "done"
      /\ pc'[q] \in {"idle", "advise", "find"} => pc[q] \in {"idle", "advise", "find"}
  BY <1>1 DEF LoopOf, InAttempt
<1> QED
  BY <1>1, <1>3, <1>4, <1>5, <1>6 DEF LoopOf

(* A step of r leaves what the loops of the others know as it is.          *)
LoopAlone(r) ==
  \A q \in Requests \ {r} :
    /\ cmd'[q] = cmd[q] /\ pair'[q] = pair[q] /\ left'[q] = left[q]
    /\ attempts'[q] = attempts[q] /\ conflicts'[q] = conflicts[q]
    /\ pc'[q] = pc[q] /\ answer'[q] = answer[q]

(* Which is so of every step.                                              *)
LEMMA LoopStepsAlone ==
  ASSUME TypeOK, NEW r \in Requests, Arrive(r) \/ Step(r) \/ Fail(r) \/ LoseCommit(r)
  PROVE  LoopAlone(r)
<1> USE DEF LoopAlone, TypeOK, Goto, requestVars, txVars, Reply
<1>1. CASE Arrive(r)
  BY <1>1 DEF Arrive
<1>2. CASE AdviseRefused(r) \/ FindRefused(r) \/ CancelMissing(r)
  BY <1>2 DEF AdviseRefused, FindRefused, CancelMissing, Refuse
<1>3. CASE Advise(r) \/ Find(r)
  BY <1>3 DEF Advise, Find, BeginAttempt
<1>4. CASE LockRow(r) \/ LockKey(r) \/ Write(r) \/ CheckPass(r) \/ Cancel(r)
  BY <1>4 DEF LockRow, LockKey, Write, CheckPass, Cancel
<1>5. CASE NotConfirmed(r) \/ BadReference(r) \/ Fail(r) \/ Deadlock(r)
  BY <1>5 DEF NotConfirmed, BadReference, Fail, Deadlock
<1>6. CASE Commit(r) \/ LoseCommit(r)
  BY <1>6 DEF Commit, LoseCommit
<1>7. CASE CheckFail(r)
  BY <1>7 DEF CheckFail, Conflict, BeginAttempt
<1> QED
  BY <1>1, <1>2, <1>3, <1>4, <1>5, <1>6, <1>7 DEF Step

-----------------------------------------------------------------------------
(* The invariant, step by step.                                            *)

(* At the start no attempt has been made.                                  *)
LEMMA InitLoopInv == Init => LoopInv
<1> SUFFICES ASSUME Init, NEW r \in Requests PROVE LoopOf(r)
  BY DEF LoopInv
<1>1. AttemptCap \in Nat
  BY CapAssumption
<1> QED
  BY <1>1 DEF Init, LoopOf, InAttempt

(* A free candidate is a candidate.                                        *)
LEMMA FirstPairOf ==
  ASSUME NEW p, NEW c, NEW b, FirstPair(p, c, b), NEW k \in Kinds
  PROVE  p[k] \in c[k]
BY DEF FirstPair, FreeFirst

(* A booking starts with every candidate before it.                        *)
LEMMA LoopAdvise ==
  ASSUME TypeOK, PhaseOK, LockInv, LoopInv, [Next]_vars, NEW r \in Requests, Advise(r)
  PROVE  LoopOf(r)'
<1> DEFINE s == cmd[r].service
           c == Candidates(s)
<1>1. /\ LoopOf(r) /\ pc[r] = "advise" /\ cmd[r] # None /\ cmd[r].op = "book"
      /\ cmd'[r] = cmd[r]
  BY DEF LoopInv, PhaseOK, PhaseOf, Advise
<1>2. s \in Services /\ ServiceOf(r) = s /\ ServiceOf(r)' = s
  BY <1>1, CommandType DEF ServiceOf, TypeOK
<1>3. PICK p \in Places : FirstPair(p, c, Busy(table, cmd[r].slot)) /\ BeginAttempt(r, p)
  BY DEF Advise
<1>4. /\ left'[r] = c /\ pair'[r] = p /\ attempts'[r] = 1 /\ pc'[r] = "keys"
      /\ answer'[r] = "none" /\ ~ Exhausted(c)
  BY <1>1, <1>3 DEF Advise, BeginAttempt, Goto, LoopOf, TypeOK
<1>5. c # NoOrder
  BY <1>4 DEF Exhausted, NoOrder, Nothing, Kinds
<1>6. attempts'[r] + LeftOver(r)' = AllOf(s) + 1
  <2>1. \A k \in Kinds : Cardinality(c[k]) \in Nat
    BY <1>2, CandidatesFinite
  <2> QED
    BY <1>2, <1>4, <2>1, CandidatesSize DEF LeftOver, Kinds
<1>7. AllOf(s) + 1 <= AllOf(s) + 1
  <2>1. \A k \in Kinds : Cardinality(c[k]) \in Nat
    BY <1>2, CandidatesFinite
  <2> QED
    BY <1>2, <2>1, CandidatesSize DEF Kinds
<1>8. Ordered(r)'
  BY <1>1, <1>2, <1>3, <1>4, <1>6, <1>7, FirstPairOf DEF Ordered
<1> QED
  BY <1>1, <1>4, <1>5, <1>8, CapAssumption DEF LoopOf, InAttempt

(* What a conflict leaves: candidates of the service, those missing all    *)
(* refused, and one less than the attempts allow.                          *)
LEMMA Pruned ==
  ASSUME TypeOK, PhaseOK, LockInv, LoopInv, NEW r \in Requests, NEW k \in Kinds,
         pc[r] = k
  PROVE  LET s == ServiceOf(r)
             order == Prune(r, k, s)
         IN  /\ s \in Services /\ HasService(r)
             /\ \A j \in Kinds :
                  /\ order[j] \subseteq Candidates(s)[j]
                  /\ \A x \in Candidates(s)[j] \ order[j] :
                       <<j, x>> \in conflicts[r] \cup {<<k, pair[r][k]>>}
             /\ attempts[r] + 1 + Cardinality(order["bay"]) + Cardinality(order["technician"])
                  <= AllOf(s) + (IF cmd[r].op = "book" THEN 1 ELSE 2)
<1> DEFINE s == ServiceOf(r)
           order == Prune(r, k, s)
<1>1. InAttempt(r) /\ HasService(r) /\ LoopOf(r)
  BY DEF InAttempt, Kinds, HasService, PhaseOK, PhaseOf, LoopInv
<1>2. s \in Services
  BY <1>1, ServiceType DEF HasService
<1>3. attempts[r] \in Nat /\ left[r] \in [Kinds -> SUBSET Resources]
  BY DEF TypeOK
<1>4. \A j \in Kinds : \A S \in SUBSET Candidates(s)[j] : Cardinality(S) \in Nat
  BY <1>2, CandidatesFinite
<1>5. CASE left[r] = NoOrder
  <2>1. order = Candidates(s) /\ attempts[r] = 1 /\ cmd[r].op = "move"
    BY <1>1, <1>5 DEF Prune, LoopOf
  <2>2. /\ Cardinality(Candidates(s)["bay"]) \in Nat
        /\ Cardinality(Candidates(s)["technician"]) \in Nat
    BY <1>4 DEF Kinds
  <2>3. attempts[r] + 1 + Cardinality(order["bay"]) + Cardinality(order["technician"])
          <= AllOf(s) + 2
    <3> HIDE DEF s, order
    <3> QED
      BY <1>2, <2>1, <2>2, CandidatesSize
  <2> QED
    BY <1>1, <1>2, <2>1, <2>3
<1>6. CASE left[r] # NoOrder
  <2>1. Ordered(r)
    BY <1>1, <1>6 DEF LoopOf
  <2>2. order = [left[r] EXCEPT ![k] = @ \ {pair[r][k]}]
    BY <1>6 DEF Prune
  <2>3. /\ order[k] = left[r][k] \ {pair[r][k]}
        /\ \A j \in Kinds : j # k => order[j] = left[r][j]
    BY <1>3, <2>2
  <2>4. Cardinality(order[k]) = Cardinality(left[r][k]) - 1
    BY <1>2, <2>1, <2>3, OneLess DEF Ordered
  <2>5. \A j \in Kinds : Cardinality(left[r][j]) \in Nat
    BY <1>4, <2>1 DEF Ordered
  <2>6. Cardinality(order["bay"]) + Cardinality(order["technician"]) = LeftOver(r) - 1
    <3> HIDE DEF order
    <3>1. CASE k = "bay"
      <4>1. Cardinality(order["bay"]) = Cardinality(left[r]["bay"]) - 1
        BY <2>4, <3>1
      <4>2. order["technician"] = left[r]["technician"]
        BY <2>3, <3>1 DEF Kinds
      <4>3. /\ Cardinality(left[r]["bay"]) \in Nat
            /\ Cardinality(left[r]["technician"]) \in Nat
        BY <2>5 DEF Kinds
      <4> QED
        BY <4>1, <4>2, <4>3 DEF LeftOver
    <3>2. CASE k = "technician"
      <4>1. Cardinality(order["technician"]) = Cardinality(left[r]["technician"]) - 1
        BY <2>4, <3>2
      <4>2. order["bay"] = left[r]["bay"]
        BY <2>3, <3>2 DEF Kinds
      <4>3. /\ Cardinality(left[r]["bay"]) \in Nat
            /\ Cardinality(left[r]["technician"]) \in Nat
        BY <2>5 DEF Kinds
      <4> QED
        BY <4>1, <4>2, <4>3 DEF LeftOver
    <3> QED
      BY <3>1, <3>2 DEF Kinds
  <2>7. /\ LeftOver(r) \in Int
        /\ Cardinality(order["bay"]) \in Int /\ Cardinality(order["technician"]) \in Int
    <3>1. \A j \in Kinds : order[j] \in SUBSET Candidates(s)[j]
      BY <2>1, <2>3 DEF Ordered
    <3> HIDE DEF order
    <3> QED
      BY <1>4, <2>5, <3>1 DEF LeftOver, Kinds
  <2>8. attempts[r] + LeftOver(r) <= AllOf(s) + (IF cmd[r].op = "book" THEN 1 ELSE 2)
    BY <2>1 DEF Ordered
  <2>9. attempts[r] + 1 + Cardinality(order["bay"]) + Cardinality(order["technician"])
          = attempts[r] + LeftOver(r)
    <3> HIDE DEF order
    <3> QED
      BY <1>3, <2>6, <2>7
  <2>10. \A j \in Kinds :
           /\ order[j] \subseteq Candidates(s)[j]
           /\ \A x \in Candidates(s)[j] \ order[j] :
                <<j, x>> \in conflicts[r] \cup {<<k, pair[r][k]>>}
    BY <2>1, <2>3 DEF Ordered
  <2> QED
    BY <1>1, <1>2, <2>8, <2>9, <2>10
<1> QED
  BY <1>5, <1>6

(* A conflict refuses only what it proves, and never overruns.             *)
LEMMA LoopConflict ==
  ASSUME TypeOK, PhaseOK, LockInv, LoopInv, [Next]_vars, NEW r \in Requests, CheckFail(r)
  PROVE  LoopOf(r)'
<1> DEFINE k == pc[r]
           s == ServiceOf(r)
           order == Prune(r, k, s)
<1>1. /\ k \in Kinds /\ Conflict(r, k) /\ LoopOf(r) /\ cmd' = cmd
      /\ cmd[r].op # "cancel" /\ InAttempt(r)
  BY DEF CheckFail, Conflict, LoopInv, PhaseOK, PhaseOf, InAttempt, Kinds
<1>2. /\ s \in Services /\ HasService(r)
      /\ \A j \in Kinds :
           /\ order[j] \subseteq Candidates(s)[j]
           /\ \A x \in Candidates(s)[j] \ order[j] :
                <<j, x>> \in conflicts[r] \cup {<<k, pair[r][k]>>}
      /\ attempts[r] + 1 + Cardinality(order["bay"]) + Cardinality(order["technician"])
           <= AllOf(s) + (IF cmd[r].op = "book" THEN 1 ELSE 2)
  BY <1>1, Pruned
<1>3. HasService(r)' /\ ServiceOf(r)' = s
  BY <1>1, <1>2, ServiceKept
<1>4. /\ left'[r] = order
      /\ conflicts'[r] = conflicts[r] \cup {<<k, pair[r][k]>>}
  BY <1>1 DEF Conflict, TypeOK
<1>5. /\ attempts[r] \in Nat /\ AttemptCap \in Nat /\ answer[r] = "none"
      /\ Cardinality(order["bay"]) \in Nat /\ Cardinality(order["technician"]) \in Nat
      /\ AllOf(s) \in Nat
  <2>1. \A j \in Kinds : /\ order[j] \in SUBSET Candidates(s)[j]
                         /\ Candidates(s)[j] \in SUBSET Candidates(s)[j]
    BY <1>2
  <2>2. \A j \in Kinds : Cardinality(order[j]) \in Nat /\ Cardinality(Candidates(s)[j]) \in Nat
    <3> HIDE DEF order, s
    <3> QED
      BY <1>2, <2>1, CandidatesFinite
  <2>3. AllOf(s) \in Nat
    <3> HIDE DEF s
    <3> QED
      BY <1>2, <2>2, CandidatesSize DEF Kinds
  <2>4. answer[r] = "none"
    BY <1>1 DEF LoopOf, InAttempt
  <2> QED
    BY <2>2, <2>3, <2>4, CapAssumption DEF Kinds, TypeOK
<1>6. CASE Exhausted(order) /\ Reply(r, "exhausted") /\ UNCHANGED <<pair, attempts>>
  <2>1. answer'[r] = "exhausted" /\ pc'[r] = "done" /\ attempts'[r] = attempts[r]
    BY <1>6 DEF Reply, Goto, TypeOK
  <2>2. ProvenTaken(r)'
    <3> HIDE DEF order, s, k
    <3> QED
      BY <1>2, <1>3, <1>4, <1>6 DEF ProvenTaken, Exhausted
  <2> QED
    BY <1>1, <1>3, <2>1, <2>2 DEF LoopOf, InAttempt
<1>7. CASE Reply(r, "capped") /\ UNCHANGED <<pair, attempts>>
  <2>1. answer'[r] = "capped" /\ pc'[r] = "done" /\ attempts'[r] = attempts[r]
    BY <1>7 DEF Reply, Goto, TypeOK
  <2> QED
    BY <1>1, <2>1 DEF LoopOf, InAttempt
<1>8. ASSUME ~ Exhausted(order)
      PROVE  /\ Cardinality(order["bay"]) >= 1 /\ Cardinality(order["technician"]) >= 1
             /\ order # NoOrder
  <2>1. \A j \in Kinds : order[j] \in SUBSET Candidates(s)[j] /\ order[j] # {}
    BY <1>2, <1>8 DEF Exhausted
  <2> HIDE DEF order, s
  <2>2. \A j \in Kinds : Cardinality(order[j]) >= 1
    BY <1>2, <2>1, OneLess
  <2> QED
    BY <2>1, <2>2 DEF Kinds, NoOrder, Nothing
<1>9. CASE ~ Exhausted(order) /\ attempts[r] >= StructuralBound(r)
  <2>1. StructuralBound(r) = AllOf(s) + (IF cmd[r].op = "book" THEN 0 ELSE 1)
    BY DEF StructuralBound, AllOf
  <2> HIDE DEF order, s
  <2> QED
    BY <1>2, <1>5, <1>8, <1>9, <2>1
<1>10. CASE /\ ~ Exhausted(order) /\ attempts[r] < AttemptCap
            /\ \E p \in Places : NextPair(r, k, order, p) /\ BeginAttempt(r, p)
  <2>1. PICK p \in Places : NextPair(r, k, order, p) /\ BeginAttempt(r, p)
    BY <1>10
  <2>2. /\ pair'[r] = p /\ attempts'[r] = attempts[r] + 1 /\ answer'[r] = "none"
        /\ pc'[r] \in {"keys", "row"}
    BY <1>5, <2>1 DEF BeginAttempt, Goto, TypeOK
  <2>3. \A j \in Kinds : p[j] \in order[j]
    <3>1. CASE left[r] = NoOrder
      BY <2>1, <3>1, FirstPairOf DEF NextPair
    <3>2. CASE left[r] # NoOrder
      <4>1. p[k] \in order[k]
        BY <2>1, <3>2 DEF NextPair, FreeFirst
      <4>2. Ordered(r)
        BY <1>1, <3>2 DEF LoopOf
      <4>3. Other(k) \in Kinds /\ Other(k) # k /\ \A j \in Kinds : j = k \/ j = Other(k)
        BY <1>1 DEF Other, Kinds
      <4>4. order[Other(k)] = left[r][Other(k)]
        BY <3>2, <4>3 DEF Prune, TypeOK
      <4>5. p[Other(k)] = pair[r][Other(k)]
        BY <2>1, <3>2 DEF NextPair
      <4> QED
        BY <4>1, <4>2, <4>3, <4>4, <4>5 DEF Ordered
    <3> QED
      BY <3>1, <3>2
  <2> HIDE DEF order, s, k
  <2>4. Ordered(r)'
    <3>1. \A j \in Kinds :
            /\ pair'[r][j] \in left'[r][j]
            /\ left'[r][j] \subseteq Candidates(s)[j]
            /\ \A x \in Candidates(s)[j] \ left'[r][j] : <<j, x>> \in conflicts'[r]
      BY <1>2, <1>4, <2>2, <2>3
    <3>2. attempts'[r] + LeftOver(r)' <= AllOf(s) + (IF cmd[r].op = "book" THEN 1 ELSE 2)
      <4>1. LeftOver(r)' = Cardinality(order["bay"]) + Cardinality(order["technician"])
        BY <1>4 DEF LeftOver
      <4> QED
        BY <1>2, <1>5, <2>2, <4>1
    <3> QED
      BY <1>1, <1>3, <3>1, <3>2 DEF Ordered
  <2>5. left'[r] # NoOrder /\ attempts'[r] <= AttemptCap
    BY <1>4, <1>5, <1>8, <1>10, <2>2
  <2> QED
    BY <2>2, <2>4, <2>5 DEF LoopOf
<1> QED
  BY <1>1, <1>6, <1>7, <1>9, <1>10 DEF Conflict

(* Every step of r keeps what r's loop knows.                              *)
LEMMA LoopOwnStep ==
  ASSUME TypeOK, PhaseOK, LockInv, LoopInv, [Next]_vars, NEW r \in Requests,
         Arrive(r) \/ Step(r) \/ Fail(r) \/ LoseCommit(r)
  PROVE  LoopOf(r)'
<1>1. LoopOf(r)
  BY DEF LoopInv
<1>2. CASE Arrive(r)
  <2>1. /\ pc[r] = "idle" /\ pc'[r] \in {"advise", "find", "cancel"}
        /\ UNCHANGED <<left, attempts, answer>>
    BY <1>2, CommandAssumption DEF Arrive, Goto, CommandSet, TypeOK, requestVars
  <2> QED
    BY <1>1, <2>1 DEF LoopOf, InAttempt
<1>3. CASE \/ AdviseRefused(r) \/ FindRefused(r) \/ NotConfirmed(r) \/ BadReference(r)
           \/ CancelMissing(r) \/ Fail(r) \/ Deadlock(r) \/ Commit(r) \/ LoseCommit(r)
  <2>1. /\ cmd' = cmd /\ UNCHANGED requestVars
        /\ \E what \in Answers \ {"overrun", "exhausted"} : Reply(r, what)
    <3>1. CASE AdviseRefused(r) \/ FindRefused(r) \/ CancelMissing(r)
      BY <3>1 DEF AdviseRefused, FindRefused, CancelMissing, Refuse, Answers
    <3>2. CASE NotConfirmed(r) \/ BadReference(r) \/ Fail(r) \/ Deadlock(r) \/ LoseCommit(r)
      BY <3>2 DEF NotConfirmed, BadReference, Fail, Deadlock, LoseCommit, Answers
    <3>3. CASE Commit(r)
      <4>1. cmd[r].op \in {"book", "move", "cancel"}
        BY <3>3, CommandType DEF Commit, Committable, PhaseOK, PhaseOf, TypeOK
      <4>2. Acknowledgement(r) \in Answers \ {"overrun", "exhausted"}
        BY <4>1 DEF Acknowledgement, Answers
      <4> QED
        BY <3>3, <4>2 DEF Commit
    <3> QED
      BY <1>3, <3>1, <3>2, <3>3
  <2>2. pc'[r] = "done" /\ answer'[r] \notin {"overrun", "exhausted"}
    BY <2>1 DEF Reply, Goto, TypeOK
  <2> QED
    BY <2>1, <2>2, LoopFrame DEF requestVars
<1>4. CASE LockRow(r) \/ LockKey(r) \/ Write(r) \/ CheckPass(r)
  <2>1. /\ cmd' = cmd /\ UNCHANGED requestVars /\ answer' = answer
        /\ InAttempt(r) /\ InAttempt(r)'
    BY <1>4 DEF LockRow, LockKey, Write, CheckPass, Goto, InAttempt, Kinds, TypeOK
  <2> QED
    BY <2>1, LoopFrame DEF requestVars
<1>5. CASE Cancel(r)
  <2>1. /\ cmd' = cmd /\ UNCHANGED requestVars /\ answer' = answer /\ pc'[r] = "cancelling"
    BY <1>5 DEF Cancel, Goto, TypeOK
  <2>2. answer[r] = "none"
    BY <1>1, <1>5 DEF Cancel, LoopOf
  <2> QED
    BY <2>1, <2>2, LoopFrame DEF requestVars
<1>6. CASE Find(r)
  <2>1. /\ pc[r] = "find" /\ cmd' = cmd /\ cmd[r].op = "move" /\ left'[r] = left[r]
        /\ BeginAttempt(r, table[Target(r)].at)
    BY <1>6 DEF Find, PhaseOK, PhaseOf
  <2>2. /\ pc'[r] = "row" /\ attempts'[r] = attempts[r] + 1 /\ answer'[r] = answer[r]
    BY <2>1 DEF BeginAttempt, Goto, TypeOK
  <2> QED
    BY <1>1, <2>1, <2>2, CapAssumption DEF LoopOf, InAttempt
<1> QED
  BY <1>2, <1>3, <1>4, <1>5, <1>6, LoopAdvise, LoopConflict DEF Step

(* Every step keeps the invariant.                                         *)
LEMMA LoopStep ==
  ASSUME TypeOK, PhaseOK, LockInv, LoopInv, [Next]_vars
  PROVE  LoopInv'
<1>1. ASSUME NEW r \in Requests, Arrive(r) \/ Step(r) \/ Fail(r) \/ LoseCommit(r)
      PROVE  LoopInv'
  <2>1. \A q \in Requests \ {r} : LoopOf(q)'
    BY <1>1, LoopStepsAlone, LoopFrame DEF LoopAlone
  <2> QED
    BY <1>1, <2>1, LoopOwnStep DEF LoopInv
<1>2. CASE UNCHANGED vars
  BY <1>2, LoopFrame DEF vars, requestVars, LoopInv
<1> QED
  BY <1>1, <1>2 DEF Next, Quiet

(* What every attempt loop knows, in every behaviour (attemptLoop.ts).      *)
THEOREM LoopsKept == Spec => []LoopInv
<1>1. IInv => TypeOK /\ PhaseOK
  BY DEF IInv
<1>2. IInv /\ LockInv /\ LoopInv /\ [Next]_vars => LoopInv'
  BY <1>1, LoopStep
<1> QED
  BY <1>2, InitLoopInv, LocksHeld, Invariance, PTL DEF Spec

-----------------------------------------------------------------------------
(* The attempt loop ends before its structural bound, whose throw is       *)
(* unreachable, and within BOOKING_ATTEMPT_CAP (attemptLoop.ts), however   *)
(* bookings, moves, cancellations and failures interleave.                 *)
THEOREM LoopEnds == Spec => []LoopBounded
<1>1. LoopInv => LoopBounded
  BY DEF LoopInv, LoopOf, LoopBounded
<1> QED
  BY <1>1, LoopsKept, PTL

(* A refusal as exhausted names a kind of resource every candidate of      *)
(* which the database refused during this request (attemptLoop.ts).        *)
THEOREM ExhaustedProven == Spec => []ExhaustedIsProven
<1>1. LoopInv => ExhaustedIsProven
  BY DEF LoopInv, LoopOf, ExhaustedIsProven
<1> QED
  BY <1>1, LoopsKept, PTL

-----------------------------------------------------------------------------
(* No spurious refusal.                                                    *)

OnlyBookings == \A q \in Requests : cmd[q] # None => cmd[q].op = "book"

(* While there are only bookings, what a request was refused stays busy.   *)
RefusedIsBusy ==
  \A r \in Requests :
    /\ cmd[r] = None => conflicts[r] = {}
    /\ OnlyBookings /\ cmd[r] # None =>
         \A c \in conflicts[r] : c[2] \in Busy(table, cmd[r].slot)[c[1]]

(* A resource whose check fails is occupied by a committed row.            *)
LEMMA TakenIsBusy ==
  ASSUME TypeOK, PhaseOK, LockInv, NEW r \in Requests, cmd[r].op = "book", NEW k \in Kinds,
         pc[r] = k, Taken(r, k)
  PROVE  pair[r][k] \in Busy(table, cmd[r].slot)[k]
<1>1. Writing(r) /\ Succeeds(r)
  BY DEF Writing, Kinds, LockInv
<1>2. pending[r].at = pair[r] /\ pending[r].slot = cmd[r].slot
  BY <1>1 DEF Succeeds, NewVersion
<1>3. PICK a \in Ids : Occupies(table[a]) /\ Clash(table[a], pending[r], k)
  BY DEF Taken
<1>4. table[a].at[k] = pair[r][k] /\ Overlaps(table[a].slot, cmd[r].slot)
  BY <1>2, <1>3 DEF Clash
<1> QED
  BY <1>3, <1>4 DEF Busy

(* Bookings only add to the rows that occupy.                              *)
LEMMA BusyGrows ==
  ASSUME TypeOK, PhaseOK, LockInv, [Next]_vars, OnlyBookings, NEW s, NEW k \in Kinds
  PROVE  Busy(table, s)[k] \subseteq Busy(table', s)[k]
<1>1. \A a \in Ids : Occupies(table[a]) => table'[a] = table[a]
  <2>1. CASE table' = table
    BY <2>1
  <2>2. CASE table' # table
    <3>1. PICK r \in Requests : Stores(r)
      BY <2>2, TableSteps
    <3>2. table[Target(r)] = None
      BY <3>1 DEF Stores, LockInv, Minted, OnlyBookings, PhaseOK, PhaseOf
    <3> QED
      BY <3>1, <3>2 DEF Stores, Occupies, TypeOK
  <2> QED
    BY <2>1, <2>2
<1> QED
  BY <1>1 DEF Busy

(* What a step does to a request's command and refusals.                   *)
LEMMA RefusalSteps ==
  ASSUME TypeOK, PhaseOK, LockInv, LoopInv, [Next]_vars, NEW r \in Requests
  PROVE  /\ cmd[r] # None => cmd'[r] = cmd[r]
         /\ conflicts'[r] = conflicts[r]
            \/ /\ CheckFail(r) /\ cmd[r] # None
               /\ conflicts'[r] = conflicts[r] \cup {<<pc[r], pair[r][pc[r]]>>}
         /\ answer[r] # "exhausted" /\ answer'[r] = "exhausted"
              => CheckFail(r) /\ Exhausted(Prune(r, pc[r], ServiceOf(r)))
<1>1. ASSUME NEW q \in Requests \ {r}, Arrive(q) \/ Step(q) \/ Fail(q) \/ LoseCommit(q)
      PROVE  cmd'[r] = cmd[r] /\ conflicts'[r] = conflicts[r] /\ answer'[r] = answer[r]
  BY <1>1, LoopStepsAlone DEF LoopAlone
<1>2. CASE Arrive(r)
  BY <1>2 DEF Arrive, LockInv, Minted, requestVars
<1>3. CASE CheckFail(r)
  <2>1. /\ Conflict(r, pc[r]) /\ cmd' = cmd /\ cmd[r] # None
        /\ conflicts'[r] = conflicts[r] \cup {<<pc[r], pair[r][pc[r]]>>}
    BY <1>3 DEF CheckFail, Conflict, PhaseOK, PhaseOf, TypeOK, Kinds
  <2>2. answer'[r] = "exhausted" /\ answer[r] # "exhausted"
          => Exhausted(Prune(r, pc[r], ServiceOf(r)))
    BY <2>1 DEF Conflict, Reply, BeginAttempt, TypeOK
  <2> QED
    BY <1>3, <2>1, <2>2
<1>4. CASE \/ AdviseRefused(r) \/ FindRefused(r) \/ CancelMissing(r) \/ NotConfirmed(r)
           \/ BadReference(r) \/ Fail(r) \/ Deadlock(r) \/ LoseCommit(r)
  <2>1. /\ cmd' = cmd /\ conflicts' = conflicts
        /\ \E what \in Answers \ {"exhausted"} : Reply(r, what)
    BY <1>4 DEF AdviseRefused, FindRefused, CancelMissing, Refuse, NotConfirmed, BadReference,
                Fail, Deadlock, LoseCommit, Answers, requestVars
  <2> QED
    BY <2>1 DEF Reply, TypeOK
<1>5. CASE Commit(r)
  <2>1. Acknowledgement(r) # "exhausted"
    <3>1. cmd[r].op \in {"book", "move", "cancel"}
      BY <1>5, CommandType DEF Commit, Committable, PhaseOK, PhaseOf, TypeOK
    <3> QED
      BY <3>1 DEF Acknowledgement
  <2> QED
    BY <1>5, <2>1 DEF Commit, Reply, requestVars, TypeOK
<1>6. CASE Advise(r) \/ Find(r)
  BY <1>6 DEF Advise, Find, BeginAttempt
<1>7. CASE LockRow(r) \/ LockKey(r) \/ Write(r) \/ CheckPass(r) \/ Cancel(r)
  BY <1>7 DEF LockRow, LockKey, Write, CheckPass, Cancel, requestVars
<1>8. CASE UNCHANGED vars
  BY <1>8 DEF vars, requestVars
<1> QED
  BY <1>1, <1>2, <1>3, <1>4, <1>5, <1>6, <1>7, <1>8 DEF Next, Step, Quiet

(* Every step keeps what was refused busy.                                 *)
LEMMA RefusedStep ==
  ASSUME TypeOK, PhaseOK, LockInv, LoopInv, RefusedIsBusy, [Next]_vars
  PROVE  RefusedIsBusy'
<1> SUFFICES ASSUME NEW r \in Requests
             PROVE  /\ cmd'[r] = None => conflicts'[r] = {}
                    /\ OnlyBookings' /\ cmd'[r] # None =>
                         \A c \in conflicts'[r] : c[2] \in Busy(table', cmd'[r].slot)[c[1]]
  BY DEF RefusedIsBusy
<1>1. cmd'[r] = None => conflicts'[r] = {}
  BY RefusalSteps DEF RefusedIsBusy
<1>2. ASSUME OnlyBookings', cmd'[r] # None, NEW c \in conflicts'[r]
      PROVE  c[2] \in Busy(table', cmd'[r].slot)[c[1]]
  <2>1. OnlyBookings
    BY <1>2, RefusalSteps DEF OnlyBookings
  <2>2. cmd[r] # None /\ cmd'[r] = cmd[r]
    BY <1>2, RefusalSteps DEF RefusedIsBusy
  <2>3. c[1] \in Kinds /\ c[2] \in Busy(table, cmd[r].slot)[c[1]]
    <3>1. CASE c \in conflicts[r]
      BY <2>1, <2>2, <3>1 DEF RefusedIsBusy, TypeOK
    <3>2. CASE c \notin conflicts[r]
      <4>1. CheckFail(r) /\ c = <<pc[r], pair[r][pc[r]]>>
        BY <1>2, <3>2, RefusalSteps
      <4>2. pc[r] \in Kinds /\ Taken(r, pc[r])
        BY <4>1 DEF CheckFail
      <4>3. cmd[r].op = "book"
        BY <2>1, <2>2 DEF OnlyBookings
      <4>4. pair[r][pc[r]] \in Busy(table, cmd[r].slot)[pc[r]]
        BY <4>2, <4>3, TakenIsBusy
      <4> QED
        BY <4>1, <4>2, <4>4
    <3> QED
      BY <3>1, <3>2
  <2> QED
    BY <2>1, <2>2, <2>3, BusyGrows
<1> QED
  BY <1>1, <1>2

(* A refusal counts on conflicts that are all busy rows.                   *)
LEMMA RefusalHonest ==
  ASSUME TypeOK, PhaseOK, LockInv, LoopInv, RefusedIsBusy, [Next]_vars, OnlyBookings,
         NEW r \in Requests, answer[r] = "none", answer'[r] = "exhausted"
  PROVE  ~ FreePair(table, cmd[r].service, cmd[r].slot)
<1> DEFINE k == pc[r]
           s == cmd[r].service
<1>1. CheckFail(r) /\ Exhausted(Prune(r, k, ServiceOf(r))) /\ k \in Kinds
  BY RefusalSteps DEF CheckFail
<1>2. cmd[r] # None /\ cmd[r].op = "book" /\ ServiceOf(r) = s
  BY <1>1 DEF OnlyBookings, PhaseOK, PhaseOf, Kinds, ServiceOf
<1>3. PICK j \in Kinds : Prune(r, k, s)[j] = {}
  BY <1>1, <1>2 DEF Exhausted
<1>4. \A x \in Candidates(s)[j] : <<j, x>> \in conflicts[r] \cup {<<k, pair[r][k]>>}
  BY <1>1, <1>2, <1>3, Pruned
<1>5. Taken(r, k)
  BY <1>1 DEF CheckFail
<1>6. pair[r][k] \in Busy(table, cmd[r].slot)[k]
  BY <1>1, <1>2, <1>5, TakenIsBusy
<1>7. ASSUME NEW x \in Candidates(s)[j]
      PROVE  x \in Busy(table, cmd[r].slot)[j]
  <2>1. CASE <<j, x>> \in conflicts[r]
    BY <1>2, <2>1 DEF RefusedIsBusy
  <2>2. CASE j = k /\ x = pair[r][k]
    BY <1>6, <2>2
  <2> QED
    BY <1>4, <2>1, <2>2
<1>8. ASSUME NEW p \in Places, p["technician"] \in Qualified[s]
      PROVE  p[j] \in Candidates(s)[j]
  BY <1>8 DEF Places, Candidates, Kinds
<1> QED
  BY <1>7, <1>8 DEF FreePair

(* As long as every request that arrived is a booking, one is refused as   *)
(* exhausted only when no candidate pair is free over its interval.        *)
THEOREM RefusalsHonest == Spec => NoSpuriousRefusal
<1>1. Init => RefusedIsBusy
  BY DEF Init, RefusedIsBusy
<1>2. IInv /\ LockInv /\ LoopInv /\ RefusedIsBusy /\ [Next]_vars => RefusedIsBusy'
  BY RefusedStep DEF IInv
<1>3. IInv /\ LockInv /\ LoopInv /\ RefusedIsBusy /\ [Next]_vars
        => [\A r \in Requests :
              /\ answer[r] = "none" /\ answer'[r] = "exhausted"
              /\ \A q \in Requests : cmd[q] # None => cmd[q].op = "book"
              => ~ FreePair(table, cmd[r].service, cmd[r].slot)]_vars
  BY RefusalHonest DEF IInv, OnlyBookings
<1> QED
  BY <1>1, <1>2, <1>3, LoopsKept, LocksHeld, Invariance, PTL DEF Spec, NoSpuriousRefusal
=============================================================================
