---------------------------- MODULE ProcessProofs ----------------------------
(***************************************************************************)
(* What a shutdown may cut short, what ends the process and what its state *)
(* holds, for any requests, any configuration, any number of attempts and  *)
(* any number of outages of the database.                                  *)
(*                                                                         *)
(* The argument is the order of the awaits in shutdown(): the pool is      *)
(* ended only once the server has drained, and the process exits only once *)
(* the pool has ended, which it does when nobody uses it any more.  The    *)
(* other path that ends the pool, a port that cannot be listened on, is    *)
(* taken before there is any request.                                      *)
(*                                                                         *)
(* The types need more than themselves: that a write is never attempted    *)
(* past the cap rests on where every request is on its script, that no     *)
(* query waits for or holds a client twice, and that whatever is under way *)
(* is a query of the stage its request is at.                              *)
(***************************************************************************)
EXTENDS Process, TLAPS

-----------------------------------------------------------------------------
(* The inductive invariant.                                                *)

Typed ==
  /\ down \in 0 .. 3
  /\ stage \in [Requests -> Nat] /\ status \in [Requests -> Nat]
  /\ connected \in [Requests -> BOOLEAN]

(* There is no request before the server listens, nor if it cannot.        *)
NoneBeforeServing == main # "serving" => \A r \in Requests : stage[r] = 0

(* Whoever holds the lock, or anything of the pool, keeps it from ending.  *)
PoolEndsUnused == /\ lock \in using \cup {Nobody}
                  /\ pool = "ended" => using = {}

(* Shutdown began with a signal, and telemetry comes after the pool.       *)
InOrder == /\ down > 0 => caught # {}
           /\ down = 3 => pool = "ended"

IInv == /\ Typed /\ NoneBeforeServing /\ PoolEndsUnused /\ InOrder
        /\ PoolOutlivesRequests /\ CleanExitLosesNothing

-----------------------------------------------------------------------------
(* What requests do: nothing to the process or to the state of the pool,   *)
(* and, once the pool is being ended, no request becomes open again.       *)

StaysShut == \A r \in Requests : Open(r)' => Open(r) /\ (connected'[r] => connected[r])

RequestStep ==
  /\ UNCHANGED <<main, down, caught, exit, pool>>
  /\ Typed'
  /\ main # "serving" => stage' = stage
  /\ lock' \in using' \cup {Nobody}
  /\ pool # "open" => using' \subseteq using /\ StaysShut

(* A request that is answered is not open any more, and no other changes.  *)
LEMMA FinishAnswers ==
  ASSUME Typed, NEW r \in Requests, NEW code \in Nat \ {0}, Finish(r, code)
  PROVE  /\ status' \in [Requests -> Nat]
         /\ status'[r] # 0
         /\ \A q \in Requests \ {r} : status'[q] = status[q]
BY DEF Typed, Finish

(* A failed query keeps the order of the shutdown too.                     *)
LEMMA FailedAnswers ==
  ASSUME Typed, NEW r \in Requests, NEW use, Failed(r, use)
  PROVE  /\ status' \in [Requests -> Nat]
         /\ status'[r] # 0
         /\ \A q \in Requests \ {r} : status'[q] = status[q]
<1>1. (IF use = "health" THEN 503 ELSE 500) \in Nat \ {0}
  OBVIOUS
<1> QED
  BY <1>1, FinishAnswers DEF Failed

(* Giving a client back keeps the lock with somebody who uses a client.    *)
LEMMA ReleaseKeeps ==
  ASSUME lock \in using \cup {Nobody}, NEW j, Release(j)
  PROVE  using' \subseteq using /\ lock' \in using' \cup {Nobody}
BY DEF Release

(* Entering a stage asks for clients, or answers.                          *)
LEMMA EnterOrAnswer ==
  ASSUME Typed, NEW r \in Requests, NEW use, NEW n \in Nat, Enter(r, use, n)
  PROVE  /\ stage' = [stage EXCEPT ![r] = n]
         /\ status' \in [Requests -> Nat]
         /\ \A q \in Requests \ {r} : status'[q] = status[q]
         /\ pool # "open" => status'[r] # 0
<1>1. CASE pool = "open"
  BY <1>1 DEF Enter, Typed
<1>2. CASE pool # "open"
  <2>1. Failed(r, use) /\ stage' = [stage EXCEPT ![r] = n]
    BY <1>2 DEF Enter
  <2> QED
    BY <1>2, <2>1, FailedAnswers
<1> QED
  BY <1>1, <1>2

(* Going on after a query: to the next stage, or to an answer.             *)
LEMMA CompleteStep ==
  ASSUME IInv, NEW r \in Requests, NEW j, Complete(r, j),
         UNCHANGED <<processVars, pool, connected>>
  PROVE  RequestStep
<1>1. using' \subseteq using /\ lock' \in using' \cup {Nobody}
  BY ReleaseKeeps DEF Complete, IInv, PoolEndsUnused
<1>2. Typed /\ UNCHANGED <<main, down, caught, exit, pool, connected>>
  BY DEF IInv, processVars
<1>3. CASE UNCHANGED <<stage, status>>
  BY <1>1, <1>2, <1>3 DEF RequestStep, StaysShut, Typed, Open
<1>4. CASE Open(r) /\ Enter(r, input[r].use, stage[r] + 1)
  <2>1. stage[r] + 1 \in Nat
    BY <1>2 DEF Typed
  <2>2. /\ stage' = [stage EXCEPT ![r] = stage[r] + 1]
        /\ status' \in [Requests -> Nat]
        /\ \A q \in Requests \ {r} : status'[q] = status[q]
        /\ pool # "open" => status'[r] # 0
    BY <1>2, <1>4, <2>1, EnterOrAnswer
  <2>3. main = "serving"
    BY <1>4 DEF IInv, NoneBeforeServing, Open, Typed
  <2>4. Typed'
    BY <1>2, <2>1, <2>2 DEF Typed
  <2> QED
    BY <1>1, <1>2, <2>2, <2>3, <2>4 DEF RequestStep, StaysShut, Typed, Open
<1>5. CASE Finish(r, 200) /\ UNCHANGED stage
  <2>1. /\ status' \in [Requests -> Nat]
        /\ status'[r] # 0
        /\ \A q \in Requests \ {r} : status'[q] = status[q]
    BY <1>2, <1>5, FinishAnswers
  <2> QED
    BY <1>1, <1>2, <1>5, <2>1 DEF RequestStep, StaysShut, Typed, Open
<1> QED
  BY <1>3, <1>4, <1>5 DEF Complete

(* A query that fails answers its request, if it is still open.            *)
LEMMA AnswerFailedStep ==
  ASSUME IInv, NEW r, AnswerFailed(r),
         UNCHANGED <<processVars, pool, stage, connected>>,
         using' \subseteq using, lock' \in using' \cup {Nobody}
  PROVE  RequestStep
<1>1. Typed /\ UNCHANGED <<main, down, caught, exit, pool, stage, connected>>
  BY DEF IInv, processVars
<1>2. CASE UNCHANGED status
  BY <1>1, <1>2 DEF RequestStep, StaysShut, Typed, Open
<1>3. CASE Failed(r, input[r].use)
  <2>1. \/ status' = [status EXCEPT ![r] = 503]
        \/ status' = [status EXCEPT ![r] = 500]
    BY <1>3 DEF Failed, Finish
  <2>2. /\ status' \in [Requests -> Nat]
        /\ \A q \in Requests : status'[q] # 0 \/ status'[q] = status[q]
    BY <1>1, <2>1 DEF Typed
  <2> QED
    BY <1>1, <2>2 DEF RequestStep, StaysShut, Typed, Open
<1> QED
  BY <1>2, <1>3 DEF AnswerFailed

(* A request that arrives once the pool is being ended is answered.        *)
LEMMA ArriveStep ==
  ASSUME IInv, NEW r \in Requests, Arrive(r)
  PROVE  RequestStep
<1>1. /\ Typed /\ UNCHANGED <<main, down, caught, exit, pool, using, lock, connected>>
      /\ main = "serving"
  BY DEF IInv, Arrive, processVars
<1>2. lock' \in using' \cup {Nobody}
  BY <1>1 DEF IInv, PoolEndsUnused
<1>3. /\ stage' = [stage EXCEPT ![r] = 1]
      /\ status' \in [Requests -> Nat]
      /\ \A q \in Requests \ {r} : status'[q] = status[q]
      /\ pool # "open" => status'[r] # 0
  <2> PICK i \in Inputs[r] :
        \/ Enter(r, i.use, 1)
        \/ /\ Finish(r, Screened(i)) /\ Screened(i) # 0
           /\ stage' = [stage EXCEPT ![r] = 1]
        \/ /\ Finish(r, 503)
           /\ stage' = [stage EXCEPT ![r] = 1]
    BY DEF Arrive
  <2>1. CASE Enter(r, i.use, 1)
    BY <1>1, <2>1, EnterOrAnswer
  <2>2. CASE /\ Finish(r, Screened(i)) /\ Screened(i) # 0
             /\ stage' = [stage EXCEPT ![r] = 1]
    <3>1. Screened(i) \in Nat \ {0}
      BY <2>2 DEF Screened
    <3> QED
      BY <1>1, <2>2, <3>1, FinishAnswers
  <2>3. CASE Finish(r, 503) /\ stage' = [stage EXCEPT ![r] = 1]
    BY <1>1, <2>3, FinishAnswers
  <2> QED
    BY <2>1, <2>2, <2>3
<1>4. Typed'
  BY <1>1, <1>3 DEF Typed
<1> QED
  BY <1>1, <1>2, <1>3, <1>4 DEF RequestStep, StaysShut, Typed, Open

(* The other steps of requests and of the pool.                            *)
LEMMA PoolStep ==
  ASSUME IInv,
         \/ \E r \in Requests : Disconnect(r)
         \/ Grant \/ ConnectTimeout \/ QueueTimeout
         \/ \E j \in Jobs : Broken(j) \/ Read(j) \/ TakeLock(j) \/ EndWrite(j) \/ Retry(j)
  PROVE  RequestStep
<1>0. Typed /\ lock \in using \cup {Nobody}
  BY DEF IInv, PoolEndsUnused
<1>1. CASE \E r \in Requests : Disconnect(r)
  BY <1>0, <1>1 DEF Disconnect, RequestStep, StaysShut, Typed, Open, processVars, poolVars
<1>2. CASE Grant
  BY <1>0, <1>2 DEF Grant, RequestStep, StaysShut, Typed, Open, processVars, requestVars
<1>3. CASE ConnectTimeout \/ QueueTimeout
  <2> PICK i \in DOMAIN waiting : TimesOut(i)
    BY <1>3 DEF ConnectTimeout, QueueTimeout
  <2> QED
    BY <1>0, AnswerFailedStep DEF TimesOut
<1>4. ASSUME NEW j \in Jobs, Broken(j)
      PROVE  RequestStep
  <2>1. using' \subseteq using /\ lock' \in using' \cup {Nobody}
    BY <1>0, <1>4, ReleaseKeeps DEF Broken
  <2> QED
    BY <1>4, <2>1, AnswerFailedStep DEF Broken
<1>5. ASSUME NEW j \in Jobs, Read(j) \/ EndWrite(j)
      PROVE  RequestStep
  <2>1. j[1] \in Requests
    BY DEF Jobs
  <2> QED
    BY <1>5, <2>1, CompleteStep DEF Read, EndWrite
<1>6. ASSUME NEW j \in Jobs, TakeLock(j)
      PROVE  RequestStep
  BY <1>0, <1>6 DEF TakeLock, RequestStep, StaysShut, Typed, Open, processVars
<1>7. ASSUME NEW j \in Jobs, Retry(j)
      PROVE  RequestStep
  <2>0. j[1] \in Requests
    BY DEF Jobs
  <2>1. using' \subseteq using /\ lock' \in using' \cup {Nobody}
    BY <1>0, <1>7, ReleaseKeeps DEF Retry
  <2>2. /\ Open(j[1]) /\ UNCHANGED <<main, down, caught, exit, pool, connected>>
        /\ stage[j[1]] \in Nat /\ Enter(j[1], input[j[1]].use, stage[j[1]])
    BY <1>0, <1>7, <2>0 DEF Retry, processVars, Typed
  <2>3. /\ stage' = [stage EXCEPT ![j[1]] = stage[j[1]]]
        /\ status' \in [Requests -> Nat]
        /\ \A q \in Requests \ {j[1]} : status'[q] = status[q]
        /\ pool # "open" => status'[j[1]] # 0
    BY <1>0, <2>0, <2>2, EnterOrAnswer
  <2>4. stage' = stage
    BY <1>0, <2>0, <2>3 DEF Typed
  <2> QED
    BY <1>0, <2>0, <2>1, <2>2, <2>3, <2>4 DEF RequestStep, StaysShut, Typed, Open
<1> QED
  BY <1>1, <1>2, <1>3, <1>4, <1>5, <1>6, <1>7

(* None of those disturbs the invariant while the process runs.            *)
LEMMA RequestStepKeeps ==
  ASSUME IInv, Running, RequestStep
  PROVE  IInv'
<1>1. Typed' /\ PoolEndsUnused'
  BY DEF RequestStep, IInv, PoolEndsUnused
<1>2. NoneBeforeServing' /\ InOrder'
  BY DEF RequestStep, IInv, NoneBeforeServing, InOrder
<1>3. PoolOutlivesRequests'
  BY DEF RequestStep, IInv, PoolOutlivesRequests, StaysShut, Typed
<1>4. CleanExitLosesNothing'
  BY DEF RequestStep, Running, CleanExitLosesNothing
<1> QED
  BY <1>1, <1>2, <1>3, <1>4 DEF IInv

-----------------------------------------------------------------------------
(* What ends.                                                              *)

(* Nothing is left of a process that died.                                 *)
LEMMA DiesKeeps ==
  ASSUME IInv, NEW how \in {"1", "killed"}, Dies(how), UNCHANGED <<main, down, caught>>
  PROVE  IInv'
BY DEF IInv, Dies, Typed, NoneBeforeServing, PoolEndsUnused, InOrder, PoolOutlivesRequests,
       CleanExitLosesNothing, Open

(* A signal, and each await of shutdown() that comes to its end.           *)
LEMMA SignalKeeps ==
  ASSUME IInv, Running, NEW s \in Signals, Signal(s)
  PROVE  IInv'
<1>1. CASE main = "boot" \/ s \in caught
  BY <1>1, DiesKeeps DEF Signal
<1>2. CASE ~ (main = "boot" \/ s \in caught)
  <2>1. /\ caught' = caught \cup {s}
        /\ UNCHANGED <<main, exit, using, lock, stage, status, connected>>
        /\ IF down = 0 THEN down' = 1 ELSE UNCHANGED down
    BY <1>2 DEF Signal, requestVars
  <2>2. UNCHANGED pool
    BY <1>2 DEF Signal, Begin, Closing
  <2> QED
    BY <2>1, <2>2 DEF IInv, Running, Typed, NoneBeforeServing, PoolEndsUnused, InOrder,
       PoolOutlivesRequests, CleanExitLosesNothing, Open
<1> QED
  BY <1>1, <1>2

(* The next closer of the shutdown starts when the one before it is done.  *)
LEMMA CloseNextKeeps ==
  ASSUME IInv, Running, CloseNext
  PROVE  IInv'
<1>0. /\ down \in 1 .. 3 /\ Len(Closing) = 3
      /\ UNCHANGED <<main, caught, using, lock, stage, status, connected>>
  BY DEF CloseNext, IInv, Typed, Closing
<1>1. CASE down = 1
  <2>1. \A r \in Requests : Open(r) => ~ connected[r]
    BY <1>1 DEF CloseNext, Awaited, Closing
  <2>2. down' = 2 /\ exit' = exit /\ pool' \in {"ending", pool}
    BY <1>0, <1>1 DEF CloseNext, Begin, Closing, EndPool
  <2> QED
    BY <1>0, <1>1, <2>1, <2>2 DEF IInv, Running, Typed, NoneBeforeServing, PoolEndsUnused, InOrder,
       PoolOutlivesRequests, CleanExitLosesNothing, Open
<1>2. CASE down = 2
  <2>1. pool = "ended"
    BY <1>2 DEF CloseNext, Awaited, Closing
  <2>2. down' = 3 /\ exit' = exit /\ pool' = pool
    BY <1>0, <1>2 DEF CloseNext, Begin, Closing
  <2> QED
    BY <1>0, <1>2, <2>1, <2>2 DEF IInv, Running, Typed, NoneBeforeServing, PoolEndsUnused, InOrder,
       PoolOutlivesRequests, CleanExitLosesNothing, Open
<1>3. CASE down = 3
  <2>1. exit' = "0" /\ down' = down /\ pool' = pool /\ buffered' = {}
    BY <1>0, <1>3 DEF CloseNext, Closing
  <2>2. using = {} /\ lock = Nobody
    BY <1>3 DEF IInv, InOrder, PoolEndsUnused
  <2> QED
    BY <1>0, <1>3, <2>1, <2>2 DEF IInv, Typed, NoneBeforeServing, PoolEndsUnused, InOrder,
       PoolOutlivesRequests, CleanExitLosesNothing, Open
<1> QED
  BY <1>0, <1>1, <1>2, <1>3

(* The composition root, and what happens to the pool and the database.    *)
LEMMA RootKeeps ==
  ASSUME IInv, Running, Boot \/ Listen \/ ListenFails \/ PoolEnds \/ DbFails \/ DbRecovers
  PROVE  IInv'
<1> USE DEF IInv, Typed, NoneBeforeServing, PoolEndsUnused, InOrder, PoolOutlivesRequests,
            CleanExitLosesNothing, Open
<1>1. CASE Boot
  BY <1>1 DEF Boot, poolVars, requestVars, Running
<1>2. CASE Listen
  BY <1>2 DEF Listen, poolVars, requestVars, Running
<1>3. CASE ListenFails
  BY <1>3 DEF ListenFails, EndPool, requestVars, Running
<1>4. CASE PoolEnds
  BY <1>4 DEF PoolEnds, processVars, requestVars, Running
<1>5. CASE DbFails
  BY <1>5 DEF DbFails, IdleError, requestVars, Running
<1>6. CASE DbRecovers
  BY <1>6 DEF DbRecovers, processVars, poolVars, requestVars, Running
<1> QED
  BY <1>1, <1>2, <1>3, <1>4, <1>5, <1>6

-----------------------------------------------------------------------------
(* The theorems.                                                           *)

(* The process starts in the invariant.                                    *)
LEMMA InitIInv == Init => IInv
BY DEF Init, IInv, Typed, NoneBeforeServing, PoolEndsUnused, InOrder, PoolOutlivesRequests,
       CleanExitLosesNothing, Open

(* Every step keeps it.                                                    *)
LEMMA NextIInv == IInv /\ [Next]_vars => IInv'
<1> SUFFICES ASSUME IInv, [Next]_vars PROVE IInv'
  OBVIOUS
<1>1. CASE UNCHANGED vars
  BY <1>1 DEF vars, processVars, poolVars, requestVars, dbVars, IInv, Typed, NoneBeforeServing,
     PoolEndsUnused, InOrder, PoolOutlivesRequests, CleanExitLosesNothing, Open
<1>2. ASSUME Running, NEW r \in Requests, Arrive(r)
      PROVE  IInv'
  BY <1>2, ArriveStep, RequestStepKeeps
<1>3. ASSUME Running,
             \/ \E r \in Requests : Disconnect(r)
             \/ Grant \/ ConnectTimeout \/ QueueTimeout
             \/ \E j \in Jobs : Broken(j) \/ Read(j) \/ TakeLock(j) \/ EndWrite(j) \/ Retry(j)
      PROVE  IInv'
  BY <1>3, PoolStep, RequestStepKeeps
<1>4. ASSUME Running, NEW s \in Signals, Signal(s)
      PROVE  IInv'
  BY <1>4, SignalKeeps
<1>5. ASSUME Running, GiveUp \/ CloseRejects
      PROVE  IInv'
  BY <1>5, DiesKeeps DEF GiveUp, CloseRejects
<1>6. ASSUME Running, CloseNext
      PROVE  IInv'
  BY <1>6, CloseNextKeeps
<1>7. ASSUME Running,
             Boot \/ Listen \/ ListenFails \/ PoolEnds \/ DbFails \/ DbRecovers
      PROVE  IInv'
  BY <1>7, RootKeeps
<1> QED
  BY <1>1, <1>2, <1>3, <1>4, <1>5, <1>6, <1>7 DEF Next, Progress

(* The inductive invariant holds of every reachable state.                 *)
THEOREM Invariance == Spec => []IInv
<1>1. Init => IInv
  BY InitIInv
<1>2. IInv /\ [Next]_vars => IInv'
  BY NextIInv
<1> QED
  BY <1>1, <1>2, PTL DEF Spec

(* A shutdown, or a port that cannot be listened on, takes the pool from   *)
(* nobody who still waits for an answer (main.ts, shutdown).               *)
THEOREM PoolOutlives == Spec => []PoolOutlivesRequests
<1>1. IInv => PoolOutlivesRequests
  BY DEF IInv
<1> QED
  BY <1>1, Invariance, PTL

(* Exit code 0 means that no query was cut short, that no transaction was  *)
(* left open and that every ended span was exported (main.ts, shutdown).   *)
THEOREM CleanExit == Spec => []CleanExitLosesNothing
<1>1. IInv => CleanExitLosesNothing
  BY DEF IInv
<1> QED
  BY <1>1, Invariance, PTL

(* What the database does never ends the process: nothing does but its     *)
(* configuration, its port and signals (db.ts, the pool's listener).       *)
LEMMA OutlivesStep ==
  IInv /\ [Next]_vars => (exit' # exit => main \in {"boot", "refused"} \/ caught # {})
<1> SUFFICES ASSUME IInv, Next, exit' # exit
             PROVE  main \in {"boot", "refused"} \/ caught # {}
  BY DEF vars, processVars
<1>1. Running
  BY DEF Next, vars, processVars
<1>2. ASSUME NEW r \in Requests, Arrive(r)
      PROVE  FALSE
  BY <1>2, ArriveStep DEF RequestStep
<1>3. ~ (\/ \E r \in Requests : Disconnect(r)
         \/ Grant \/ ConnectTimeout \/ QueueTimeout
         \/ \E j \in Jobs : Broken(j) \/ Read(j) \/ TakeLock(j) \/ EndWrite(j) \/ Retry(j))
  BY PoolStep DEF RequestStep
<1>4. CASE \E s \in Signals : Signal(s)
  BY <1>4 DEF Signal
<1>5. CASE GiveUp \/ CloseRejects \/ CloseNext
  BY <1>5 DEF GiveUp, CloseRejects, CloseNext, IInv, InOrder
<1>6. CASE Boot \/ Listen \/ ListenFails \/ PoolEnds \/ DbFails \/ DbRecovers
  BY <1>6 DEF Boot, Listen, ListenFails, PoolEnds, DbFails, IdleError, DbRecovers, processVars
<1> QED
  BY <1>1, <1>2, <1>3, <1>4, <1>5, <1>6 DEF Next, Progress

(* The same of every step the process takes.                               *)
THEOREM Outlives == Spec => OutlivesDatabase
<1>1. IInv /\ [Next]_vars => [exit' # exit => main \in {"boot", "refused"} \/ caught # {}]_vars
  BY OutlivesStep
<1> QED
  BY <1>1, Invariance, PTL DEF Spec, OutlivesDatabase

-----------------------------------------------------------------------------
(* Types.  That the attempts stay within their bound, and that a query is  *)
(* in one place of the pool at a time, takes what follows: a query that is *)
(* under way belongs to the stage its request is at, one that may still    *)
(* take the lock has an attempt left, and only writes ever attempt.        *)

Rng(q) == {q[i] : i \in DOMAIN q}
NoRepeat(q) == \A m, n \in DOMAIN q : q[m] = q[n] => m = n

Codes == {0, 200, 400, 404, 500, 503}

(* Queries that wait for a client or have one.                             *)
InFlight == using \cup Rng(waiting)

AtStage(r) == input[r].use \in Uses /\ stage[r] \in DOMAIN Script(input[r].use)

Contending == NoRepeat(waiting) /\ Rng(waiting) \cap using = {}

OnItsScript ==
  /\ \A r \in Requests : Open(r) \/ tries[r] > 0 => AtStage(r)
  /\ \A j \in InFlight : /\ AtStage(j[1]) /\ j \in Rng(Asked(j[1], Stage(j[1])))
                         /\ Open(j[1]) => j \in todo[j[1]]

TriesLeft ==
  /\ \A r \in Requests : tries[r] > 0 => Stage(r) = "write"
  /\ \A j \in InFlight : Stage(j[1]) = "write" /\ j # lock /\ j \notin cut
                           => tries[j[1]] < MaxTries
  /\ lock # Nobody => tries[lock[1]] > 0

TypeInv == /\ TypeOK /\ DOMAIN input = Requests
           /\ Contending /\ OnItsScript /\ TriesLeft

(* What becomes of the queue: joined by others, served, left.              *)
LEMMA Joined ==
  ASSUME NEW q \in Seq(Jobs), NEW p \in Seq(Jobs), NoRepeat(q), NoRepeat(p),
         Rng(q) \cap Rng(p) = {}
  PROVE  q \o p \in Seq(Jobs) /\ NoRepeat(q \o p) /\ Rng(q \o p) = Rng(q) \cup Rng(p)
<1> DEFINE b == q \o p
<1>1. /\ b \in Seq(Jobs) /\ Len(b) = Len(q) + Len(p)
      /\ \A i \in 1 .. Len(q) : b[i] = q[i]
      /\ \A i \in (Len(q) + 1) .. (Len(q) + Len(p)) : b[i] = p[i - Len(q)]
  OBVIOUS
<1>2. /\ Len(q) \in Nat /\ Len(p) \in Nat /\ DOMAIN q = 1 .. Len(q) /\ DOMAIN p = 1 .. Len(p)
      /\ DOMAIN b = 1 .. (Len(q) + Len(p))
  BY <1>1
<1> HIDE DEF b
<1>3. \A i \in 1 .. Len(p) : b[i + Len(q)] = p[i] /\ i + Len(q) \in DOMAIN b
  BY <1>1, <1>2
<1>4. \A i \in DOMAIN b : \/ i \in DOMAIN q /\ b[i] = q[i]
                          \/ i - Len(q) \in DOMAIN p /\ b[i] = p[i - Len(q)]
  BY <1>1, <1>2
<1>5. Rng(b) = Rng(q) \cup Rng(p)
  <2>1. Rng(b) \subseteq Rng(q) \cup Rng(p)
    BY <1>4 DEF Rng
  <2>2. Rng(q) \subseteq Rng(b)
    <3>1. \A i \in DOMAIN q : i \in DOMAIN b /\ b[i] = q[i]
      BY <1>1, <1>2
    <3> QED
      BY <3>1 DEF Rng
  <2>3. Rng(p) \subseteq Rng(b)
    BY <1>2, <1>3 DEF Rng
  <2> QED
    BY <2>1, <2>2, <2>3
<1>6. NoRepeat(b)
  <2> SUFFICES ASSUME NEW m \in DOMAIN b, NEW n \in DOMAIN b, b[m] = b[n]
               PROVE  m = n
    BY DEF NoRepeat
  <2>1. m \in Int /\ n \in Int
    BY <1>2
  <2>2. \A i \in DOMAIN q, k \in DOMAIN p : q[i] # p[k]
    BY DEF Rng
  <2>3. \/ m \in DOMAIN q /\ n \in DOMAIN q /\ q[m] = q[n]
        \/ /\ m - Len(q) \in DOMAIN p /\ n - Len(q) \in DOMAIN p
           /\ p[m - Len(q)] = p[n - Len(q)]
    BY <1>4, <2>2
  <2> QED
    BY <1>2, <2>1, <2>3 DEF NoRepeat
<1> QED
  BY <1>1, <1>5, <1>6 DEF b

(* The queue without its head, which is served: nobody waits twice.        *)
LEMMA Served ==
  ASSUME NEW q \in Seq(Jobs), q # <<>>, NoRepeat(q)
  PROVE  /\ Tail(q) \in Seq(Jobs) /\ NoRepeat(Tail(q)) /\ Head(q) \in Rng(q)
         /\ Rng(Tail(q)) = Rng(q) \ {Head(q)}
<1>1. /\ Tail(q) \in Seq(Jobs) /\ Len(q) \in Nat \ {0} /\ Len(Tail(q)) = Len(q) - 1
      /\ DOMAIN q = 1 .. Len(q) /\ DOMAIN Tail(q) = 1 .. (Len(q) - 1) /\ Head(q) = q[1]
      /\ \A i \in 1 .. (Len(q) - 1) : Tail(q)[i] = q[i + 1]
  OBVIOUS
<1>2. Rng(Tail(q)) \subseteq Rng(q) \ {Head(q)}
  BY <1>1 DEF Rng, NoRepeat
<1>3. ASSUME NEW i \in DOMAIN q, q[i] # q[1]
      PROVE  q[i] \in Rng(Tail(q))
  <2>1. i - 1 \in 1 .. (Len(q) - 1) /\ Tail(q)[i - 1] = q[i]
    BY <1>1, <1>3
  <2> QED
    BY <1>1, <2>1 DEF Rng
<1>4. Rng(q) \ {Head(q)} \subseteq Rng(Tail(q))
  BY <1>1, <1>3 DEF Rng
<1>5. NoRepeat(Tail(q))
  BY <1>1 DEF NoRepeat
<1>6. Head(q) \in Rng(q)
  BY <1>1 DEF Rng
<1> QED
  BY <1>1, <1>2, <1>4, <1>5, <1>6

(* The queue without one of its queries.                                   *)
LEMMA Left ==
  ASSUME NEW q \in Seq(Jobs), NEW i \in DOMAIN q, NoRepeat(q)
  PROVE  /\ Without(q, i) \in Seq(Jobs) /\ NoRepeat(Without(q, i))
         /\ Rng(Without(q, i)) \subseteq Rng(q)
<1> DEFINE a == SubSeq(q, 1, i - 1)
           b == SubSeq(q, i + 1, Len(q))
<1>1. i \in 1 .. Len(q) /\ Len(q) \in Nat /\ DOMAIN q = 1 .. Len(q)
  OBVIOUS
<1>2. /\ a \in Seq(Jobs) /\ DOMAIN a = 1 .. (i - 1)
      /\ \A m \in DOMAIN a : m \in DOMAIN q /\ m \in Int /\ m < i /\ a[m] = q[m]
  BY <1>1
<1>3. /\ b \in Seq(Jobs) /\ DOMAIN b = 1 .. (Len(q) - i)
      /\ \A m \in DOMAIN b : /\ m \in Int /\ m + i \in DOMAIN q /\ m + i > i
                             /\ b[m] = q[m + i]
  BY <1>1
<1> HIDE DEF a, b
<1>4. NoRepeat(a) /\ NoRepeat(b)
  BY <1>1, <1>2, <1>3 DEF NoRepeat
<1>5. Rng(a) \subseteq Rng(q) /\ Rng(b) \subseteq Rng(q)
  BY <1>1, <1>2, <1>3 DEF Rng
<1>6. Rng(a) \cap Rng(b) = {}
  BY <1>1, <1>2, <1>3 DEF Rng, NoRepeat
<1> QED
  BY <1>2, <1>3, <1>4, <1>5, <1>6, Joined DEF Without, a, b

(* The scripts: a write is the last stage of one.                          *)
LEMMA Scripts ==
  ASSUME NEW use \in Uses
  PROVE  /\ DOMAIN Script(use) = 1 .. Len(Script(use)) /\ Len(Script(use)) \in 1 .. 5
         /\ \A n \in DOMAIN Script(use) : n < Len(Script(use)) => Script(use)[n] # "write"
<1> USE DEF Script, HealthScript, GetScript, AvailabilityScript, BookScript, MoveScript,
            CancelScript
<1>1. CASE use = "health"
  BY <1>1
<1>2. CASE use = "get"
  BY <1>2
<1>3. CASE use = "availability"
  BY <1>3
<1>4. CASE use = "book"
  BY <1>4
<1>5. CASE use = "move"
  BY <1>5
<1>6. CASE use = "cancel"
  BY <1>6
<1> QED
  BY <1>1, <1>2, <1>3, <1>4, <1>5, <1>6 DEF Uses

(* The queries of a stage are different ones of the request.               *)
LEMMA AskedJobs ==
  ASSUME NEW r \in Requests, NEW kind
  PROVE  /\ Asked(r, kind) \in Seq(Jobs) /\ NoRepeat(Asked(r, kind))
         /\ \A k \in Rng(Asked(r, kind)) : k \in Jobs /\ k[1] = r
         /\ kind = "write" => Rng(Asked(r, kind)) = {<<r, 1>>}
<1>1. <<r, 1>> \in Jobs /\ <<r, 2>> \in Jobs
  BY DEF Jobs
<1>2. CASE kind = "pair"
  <2> DEFINE q == Asked(r, kind)
  <2>1. q = <<<<r, 1>>, <<r, 2>>>>
    BY <1>2 DEF Asked
  <2>2. /\ q \in Seq(Jobs) /\ DOMAIN q = {1, 2}
        /\ q[1] = <<r, 1>> /\ q[2] = <<r, 2>> /\ q[1] # q[2]
    BY <1>1, <2>1
  <2> HIDE DEF q
  <2>3. NoRepeat(q) /\ Rng(q) = {<<r, 1>>, <<r, 2>>}
    BY <2>2 DEF NoRepeat, Rng
  <2>4. \A k \in {<<r, 1>>, <<r, 2>>} : k \in Jobs /\ k[1] = r
    BY <1>1
  <2>5. \A k \in Rng(q) : k \in Jobs /\ k[1] = r
    BY <2>3, <2>4
  <2> QED
    BY <1>2, <2>2, <2>3, <2>5 DEF q
<1>3. CASE kind # "pair"
  <2>1. Asked(r, kind) = <<<<r, 1>>>>
    BY <1>3 DEF Asked
  <2> QED
    BY <1>1, <2>1 DEF NoRepeat, Rng
<1> QED
  BY <1>2, <1>3

(* A configuration that is accepted gives the pool a size.                 *)
LEMMA AcceptedPool ==
  ASSUME NEW env \in Environments, Problems(env) = {}
  PROVE  PoolMax(env) \in Nat
<1> DEFINE v == [name |-> "DB_POOL_MAX", required |-> FALSE, min |-> 1, max |-> 100]
           raw == env["DB_POOL_MAX"]
<1>1. v \in Numbers /\ v.name = "DB_POOL_MAX" /\ v.min = 1 /\ v.max = 100
  BY DEF Numbers
<1>2. ~ BadNumber(v, raw)
  <2> SUFFICES ASSUME BadNumber(v, env[v.name]) PROVE FALSE
    BY <1>1
  <2>1. v \in {n \in Numbers : BadNumber(n, env[n.name])}
    BY <1>1
  <2> QED
    BY <2>1 DEF Problems
<1> HIDE DEF v
<1>3. CASE raw = Absent
  BY <1>3 DEF PoolMax, DefaultPoolMax
<1>4. CASE raw # Absent
  <2>1. raw \in [is : {"number"}, number : Int]
    BY <1>2, <1>4, EnvironmentAssumption DEF BadNumber
  <2>2. raw.number \in 1 .. 100
    BY <1>1, <1>2, <2>1 DEF BadNumber
  <2> QED
    BY <1>4, <2>2 DEF PoolMax
<1> QED
  BY <1>3, <1>4

(* Giving a client back.                                                   *)
LEMMA Released ==
  ASSUME TypeInv, NEW j \in using, Release(j)
  PROVE  /\ using' = using \ {j} /\ cut' = cut \ {j} /\ cut' \subseteq using' /\ idle' \in Nat
         /\ lock' \in using' \cup {Nobody} /\ (lock' # Nobody => lock' = lock)
         /\ \A k \in using' \cup Rng(waiting) :
              k # j /\ (k = lock => k = lock') /\ (k \in cut => k \in cut')
BY DEF TypeInv, TypeOK, Contending, Release

(* What is under way is a query of some request.                           *)
LEMMA InFlightJobs ==
  ASSUME TypeInv, NEW k \in InFlight
  PROVE  k \in Jobs /\ k[1] \in Requests /\ k # Nobody
<1>1. k \in Jobs
  BY DEF TypeInv, TypeOK, InFlight, Rng
<1> QED
  BY <1>1, NobodyAssumption DEF Jobs

(* A step in which no query is added and every request stays where it is.  *)
LEMMA StayingKeeps ==
  ASSUME TypeInv, UNCHANGED <<input, stage, tries>>,
         NoRepeat(waiting'), Rng(waiting') \cap using' = {}, InFlight' \subseteq InFlight,
         lock' # Nobody => lock' = lock,
         \A k \in InFlight' : (k = lock => k = lock') /\ (k \in cut => k \in cut'),
         \A r \in Requests : Open(r)' => Open(r) /\ todo'[r] \subseteq todo[r],
         \A k \in InFlight' : Open(k[1])' => k \in todo'[k[1]]
  PROVE  Contending' /\ OnItsScript' /\ TriesLeft'
<1>1. Contending'
  BY DEF Contending
<1>2. \A r : Stage(r)' = Stage(r) /\ (AtStage(r)' <=> AtStage(r))
  BY DEF Stage, AtStage
<1>3. OnItsScript'
  BY <1>2 DEF TypeInv, OnItsScript, Asked, Rng
<1>4. TriesLeft'
  BY <1>2 DEF TypeInv, TriesLeft
<1> QED
  BY <1>1, <1>3, <1>4

(* A step in which request r, with no query under way, moves to a stage:   *)
(* it is answered there, or it asks what the stage asks.                   *)
LEMMA MovingKeeps ==
  ASSUME TypeInv, NEW r \in Requests, UNCHANGED tries,
         \A q \in Requests \ {r} : /\ input'[q] = input[q] /\ stage'[q] = stage[q]
                                   /\ status'[q] = status[q] /\ todo'[q] = todo[q],
         NoRepeat(waiting'), Rng(waiting') \cap using' = {}, using' \subseteq using,
         lock' # Nobody => lock' = lock,
         \A k \in using' \cup Rng(waiting) :
           k[1] # r /\ (k = lock => k = lock') /\ (k \in cut => k \in cut'),
         tries[r] > 0 => AtStage(r)' /\ Stage(r)' = "write",
         \/ status'[r] # 0 /\ Rng(waiting') = Rng(waiting)
         \/ /\ AtStage(r)' /\ todo'[r] = Rng(Asked(r, Stage(r)'))
            /\ Rng(waiting') = Rng(waiting) \cup todo'[r]
            /\ Stage(r)' = "write" => tries[r] < MaxTries
  PROVE  Contending' /\ OnItsScript' /\ TriesLeft'
<1>1. Contending'
  BY DEF Contending
<1>2. /\ \A q \in Requests \ {r} : /\ Stage(q)' = Stage(q) /\ (AtStage(q)' <=> AtStage(q))
                                   /\ (Open(q)' <=> Open(q))
      /\ status'[r] # 0 => ~ Open(r)'
  BY DEF Stage, AtStage, Open
<1>3. \A k \in InFlight' : \/ /\ k \in InFlight /\ k[1] # r
                              /\ (k = lock => k = lock') /\ (k \in cut => k \in cut')
                           \/ /\ AtStage(r)' /\ k \in todo'[r] /\ k[1] = r
                              /\ todo'[r] = Rng(Asked(r, Stage(r)'))
                              /\ Stage(r)' = "write" => tries[r] < MaxTries
  BY AskedJobs DEF InFlight
<1>4. \A k \in InFlight : k[1] \in Requests
  BY InFlightJobs
<1>5. OnItsScript'
  <2>1. ASSUME NEW q \in Requests
        PROVE  Open(q)' \/ tries'[q] > 0 => AtStage(q)'
    <3>1. CASE q = r
      BY <1>2, <3>1
    <3>2. CASE q # r
      BY <1>2, <3>2 DEF TypeInv, OnItsScript
    <3> QED
      BY <3>1, <3>2
  <2>2. ASSUME NEW k \in InFlight'
        PROVE  /\ AtStage(k[1])' /\ k \in Rng(Asked(k[1], Stage(k[1])'))
               /\ Open(k[1])' => k \in todo'[k[1]]
    <3>1. CASE k \in InFlight /\ k[1] # r
      BY <1>2, <1>4, <3>1 DEF TypeInv, OnItsScript
    <3>2. CASE /\ AtStage(r)' /\ k \in todo'[r] /\ k[1] = r
               /\ todo'[r] = Rng(Asked(r, Stage(r)'))
      BY <3>2
    <3> QED
      BY <1>3, <3>1, <3>2
  <2> QED
    BY <2>1, <2>2 DEF OnItsScript, Asked, Rng
<1>6. TriesLeft'
  <2>1. \A q \in Requests : tries'[q] > 0 => Stage(q)' = "write"
    BY <1>2 DEF TypeInv, TriesLeft
  <2>2. ASSUME NEW k \in InFlight', Stage(k[1])' = "write", k # lock', k \notin cut'
        PROVE  tries'[k[1]] < MaxTries
    BY <1>2, <1>3, <1>4, <2>2 DEF TypeInv, TriesLeft
  <2>3. lock' # Nobody => tries'[lock'[1]] > 0
    BY DEF TypeInv, TriesLeft
  <2> QED
    BY <2>1, <2>2, <2>3 DEF TriesLeft
<1> QED
  BY <1>1, <1>5, <1>6

(* What entering a stage does to the queue and to the request.             *)
LEMMA EnteringAsks ==
  ASSUME TypeInv, NEW r \in Requests, NEW use \in Uses, NEW n \in DOMAIN Script(use),
         Enter(r, use, n), \A k \in Rng(waiting) : k[1] # r
  PROVE  /\ stage' = [stage EXCEPT ![r] = n] /\ stage' \in [Requests -> 0 .. 5]
         /\ todo' \in [Requests -> SUBSET Jobs] /\ status' \in [Requests -> Codes]
         /\ waiting' \in Seq(Jobs) /\ NoRepeat(waiting') /\ buffered' \subseteq Requests
         /\ \A q \in Requests \ {r} : status'[q] = status[q] /\ todo'[q] = todo[q]
         /\ \/ status'[r] # 0 /\ Rng(waiting') = Rng(waiting)
            \/ /\ todo'[r] = Rng(Asked(r, Script(use)[n]))
               /\ Rng(waiting') = Rng(waiting) \cup todo'[r]
<1> DEFINE jobs == Asked(r, Script(use)[n])
<1>1. /\ waiting \in Seq(Jobs) /\ NoRepeat(waiting) /\ buffered \subseteq Requests
      /\ stage \in [Requests -> 0 .. 5] /\ todo \in [Requests -> SUBSET Jobs]
      /\ status \in [Requests -> Codes]
  BY DEF TypeInv, TypeOK, Contending, Codes
<1>2. n \in 0 .. 5
  BY Scripts
<1>3. /\ jobs \in Seq(Jobs) /\ NoRepeat(jobs) /\ Rng(jobs) \subseteq Jobs
      /\ \A k \in Rng(jobs) : k[1] = r
  BY AskedJobs
<1> HIDE DEF jobs
<1>4. CASE pool = "open"
  <2>1. /\ stage' = [stage EXCEPT ![r] = n]
        /\ todo' = [todo EXCEPT ![r] = Rng(jobs)]
        /\ waiting' = waiting \o jobs
        /\ UNCHANGED <<status, buffered>>
    BY <1>4 DEF Enter, Rng, jobs
  <2>2. Rng(waiting) \cap Rng(jobs) = {}
    BY <1>3
  <2>3. /\ waiting' \in Seq(Jobs) /\ NoRepeat(waiting')
        /\ Rng(waiting') = Rng(waiting) \cup Rng(jobs)
    BY <1>1, <1>3, <2>1, <2>2, Joined
  <2> QED
    BY <1>1, <1>2, <1>3, <2>1, <2>3 DEF jobs
<1>5. CASE pool # "open"
  <2>1. /\ Failed(r, use) /\ stage' = [stage EXCEPT ![r] = n]
        /\ UNCHANGED <<todo, waiting>>
    BY <1>5 DEF Enter
  <2>2. /\ \E code \in {500, 503} : status' = [status EXCEPT ![r] = code]
        /\ buffered' \subseteq Requests
    BY <1>1, <2>1 DEF Failed, Finish
  <2> QED
    BY <1>1, <1>2, <2>1, <2>2 DEF Codes
<1> QED
  BY <1>4, <1>5

(* An answer.                                                              *)
LEMMA Answers ==
  ASSUME TypeInv, NEW r \in Requests, NEW code \in Codes \ {0}, Finish(r, code)
  PROVE  /\ status' \in [Requests -> Codes] /\ buffered' \subseteq Requests
         /\ status'[r] # 0 /\ \A q \in Requests \ {r} : status'[q] = status[q]
BY DEF TypeInv, TypeOK, Finish, Codes

(* The statuses a failed query may be answered with.                       *)
LEMMA FailureAnswers ==
  ASSUME TypeInv, NEW r \in Requests, AnswerFailed(r)
  PROVE  /\ status' \in [Requests -> Codes] /\ buffered' \subseteq Requests
         /\ \A q \in Requests : status'[q] = 0 => status[q] = 0
<1>1. CASE UNCHANGED <<status, buffered>>
  BY <1>1 DEF TypeInv, TypeOK, Codes
<1>2. CASE Open(r) /\ Failed(r, input[r].use)
  <2>1. Finish(r, 500) \/ Finish(r, 503)
    BY <1>2 DEF Failed
  <2>2. 500 \in Codes \ {0} /\ 503 \in Codes \ {0}
    BY DEF Codes
  <2>3. /\ status' \in [Requests -> Codes] /\ buffered' \subseteq Requests
        /\ status'[r] # 0 /\ \A q \in Requests \ {r} : status'[q] = status[q]
    BY <2>1, <2>2, Answers
  <2> QED
    BY <2>3
<1> QED
  BY <1>1, <1>2 DEF AnswerFailed

(* Every step that goes on with a request leaves the rest of the process   *)
(* alone, and its own variables typed.                                     *)
Rest == UNCHANGED <<main, down, caught, exit, server, poolMax, dbUp, outages>>
RestTyped == /\ waiting \in Seq(Jobs) /\ using \subseteq Jobs /\ cut \subseteq using
             /\ lock \in using \cup {Nobody} /\ idle \in Nat
             /\ pool \in {"open", "ending", "ended"}
             /\ \A r \in Requests : input[r] \in Inputs[r] \cup {NoInput}
             /\ stage \in [Requests -> 0 .. 5] /\ todo \in [Requests -> SUBSET Jobs]
             /\ tries \in [Requests -> 0 .. MaxTries]
             /\ status \in [Requests -> Codes]
             /\ connected \in [Requests -> BOOLEAN] /\ buffered \subseteq Requests
(* Where the process and the database stay, their types do.                *)
LEMMA RestKeeps ==
  ASSUME TypeInv, Rest, RestTyped'
  PROVE  TypeOK'
BY DEF TypeInv, TypeOK, Rest, RestTyped, Codes

(* Going on after a query, its client given back.                          *)
LEMMA CompletedTypes ==
  ASSUME TypeInv, NEW j \in using, NEW r \in Requests, j[1] = r, Complete(r, j),
         UNCHANGED <<input, tries>>
  PROVE  /\ waiting' \in Seq(Jobs) /\ stage' \in [Requests -> 0 .. 5]
         /\ todo' \in [Requests -> SUBSET Jobs] /\ status' \in [Requests -> Codes]
         /\ buffered' \subseteq Requests
         /\ Contending' /\ OnItsScript' /\ TriesLeft'
<1>0. /\ using' = using \ {j} /\ cut' = cut \ {j} /\ cut' \subseteq using'
      /\ lock' \in using' \cup {Nobody} /\ (lock' # Nobody => lock' = lock)
      /\ \A k \in using' \cup Rng(waiting) :
           k # j /\ (k = lock => k = lock') /\ (k \in cut => k \in cut')
  BY Released DEF Complete
<1>1. /\ waiting \in Seq(Jobs) /\ NoRepeat(waiting) /\ Rng(waiting) \cap using = {}
      /\ stage \in [Requests -> 0 .. 5] /\ todo \in [Requests -> SUBSET Jobs]
      /\ status \in [Requests -> Codes] /\ buffered \subseteq Requests
      /\ DOMAIN input = Requests
  BY DEF TypeInv, TypeOK, Contending, Codes
<1>2. CASE /\ UNCHANGED <<stage, waiting, status, buffered>>
           /\ IF Open(r) THEN todo' = [todo EXCEPT ![r] = @ \ {j}] ELSE todo' = todo
  <2>1. todo' \in [Requests -> SUBSET Jobs]
    BY <1>1, <1>2
  <2>2. \A q \in Requests : Open(q)' => Open(q) /\ todo'[q] \subseteq todo[q]
    BY <1>1, <1>2 DEF Open
  <2>3. InFlight' \subseteq InFlight /\ \A k \in InFlight' : k # j
    BY <1>0, <1>2 DEF InFlight
  <2>4. \A k \in InFlight' : Open(k[1])' => k \in todo'[k[1]]
    <3> SUFFICES ASSUME NEW k \in InFlight', Open(k[1])' PROVE k \in todo'[k[1]]
      OBVIOUS
    <3>1. Open(k[1]) /\ k \in todo[k[1]] /\ k # j
      BY <1>2, <2>3 DEF TypeInv, OnItsScript, Open
    <3>2. k[1] \in Requests
      BY <2>3, InFlightJobs
    <3> QED
      BY <1>1, <1>2, <3>1, <3>2
  <2>5. Contending' /\ OnItsScript' /\ TriesLeft'
    BY <1>0, <1>1, <1>2, <2>2, <2>3, <2>4, StayingKeeps DEF InFlight
  <2> QED
    BY <1>1, <1>2, <2>1, <2>5
<1>3. CASE /\ Open(r) /\ todo[r] = {j} /\ stage[r] < Len(Script(input[r].use))
           /\ Enter(r, input[r].use, stage[r] + 1)
  <2>1. AtStage(r) /\ AtStage(j[1]) /\ status[r] = 0
    BY <1>3 DEF TypeInv, OnItsScript, Open
  <2> DEFINE use == input[r].use
             n == stage[r] + 1
  <2>2. use \in Uses /\ n \in DOMAIN Script(use) /\ stage[r] \in DOMAIN Script(use)
        /\ Stage(r) # "write"
    BY <1>1, <1>3, <2>1, Scripts DEF AtStage, Stage
  <2>3. \A k \in using' \cup Rng(waiting) : k[1] # r
    BY <1>0, <1>3 DEF TypeInv, OnItsScript, InFlight
  <2>4. /\ stage' = [stage EXCEPT ![r] = n] /\ stage' \in [Requests -> 0 .. 5]
        /\ todo' \in [Requests -> SUBSET Jobs] /\ status' \in [Requests -> Codes]
        /\ waiting' \in Seq(Jobs) /\ NoRepeat(waiting') /\ buffered' \subseteq Requests
        /\ \A q \in Requests \ {r} : status'[q] = status[q] /\ todo'[q] = todo[q]
        /\ \/ status'[r] # 0 /\ Rng(waiting') = Rng(waiting)
           \/ /\ todo'[r] = Rng(Asked(r, Script(use)[n]))
              /\ Rng(waiting') = Rng(waiting) \cup todo'[r]
    BY <1>3, <2>2, <2>3, EnteringAsks
  <2>5. tries[r] = 0 /\ tries[r] < MaxTries
    BY <2>2, BoundsAssumption DEF TypeInv, TriesLeft, TypeOK
  <2>6. Stage(r)' = Script(use)[n] /\ AtStage(r)'
    BY <1>1, <2>2, <2>4 DEF Stage, AtStage
  <2>7. Rng(waiting') \cap using' = {}
    <3>1. \A k \in todo'[r] : todo'[r] = Rng(Asked(r, Script(use)[n])) => k[1] = r
      BY AskedJobs
    <3> QED
      BY <1>0, <1>1, <2>3, <2>4, <3>1
  <2> HIDE DEF use, n
  <2>8. Contending' /\ OnItsScript' /\ TriesLeft'
    <3>1. \A q \in Requests \ {r} : /\ input'[q] = input[q] /\ stage'[q] = stage[q]
                                     /\ status'[q] = status[q] /\ todo'[q] = todo[q]
      BY <1>1, <2>4
    <3>2. \A k \in using' \cup Rng(waiting) :
            k[1] # r /\ (k = lock => k = lock') /\ (k \in cut => k \in cut')
      BY <1>0, <2>3
    <3>3. ~ (tries[r] > 0)
      BY <2>5
    <3>4. \/ status'[r] # 0 /\ Rng(waiting') = Rng(waiting)
          \/ /\ AtStage(r)' /\ todo'[r] = Rng(Asked(r, Stage(r)'))
             /\ Rng(waiting') = Rng(waiting) \cup todo'[r]
      BY <2>1, <2>4, <2>6
    <3> QED
      BY <1>0, <2>4, <2>5, <2>7, <3>1, <3>2, <3>3, <3>4, MovingKeeps
  <2> QED
    BY <2>4, <2>8
<1>4. CASE /\ Open(r) /\ todo[r] = {j} /\ Finish(r, 200)
           /\ UNCHANGED <<stage, todo, waiting>>
  <2>1. /\ status' \in [Requests -> Codes] /\ buffered' \subseteq Requests
        /\ status'[r] # 0 /\ \A q \in Requests \ {r} : status'[q] = status[q]
    <3>1. 200 \in Codes \ {0}
      BY DEF Codes
    <3> QED
      BY <1>4, <3>1, Answers
  <2>2. Contending' /\ OnItsScript' /\ TriesLeft'
    <3>1. \A q \in Requests : Open(q)' => q # r /\ Open(q)
      BY <1>4, <2>1 DEF Open
    <3>2. InFlight' \subseteq InFlight /\ todo' = todo
      BY <1>0, <1>4 DEF InFlight
    <3>3. \A k \in InFlight' : Open(k[1])' => k \in todo'[k[1]]
      <4>1. \A k \in InFlight' : k[1] \in Requests
        BY <3>2, InFlightJobs
      <4> QED
        BY <3>1, <3>2, <4>1 DEF TypeInv, OnItsScript
    <3> QED
      BY <1>0, <1>1, <1>4, <3>1, <3>2, <3>3, StayingKeeps DEF InFlight
  <2> QED
    BY <1>1, <1>4, <2>1, <2>2
<1> QED
  BY <1>2, <1>3, <1>4 DEF Complete

(* Requests and the queries they are at.                                   *)
LEMMA ArriveTypes ==
  ASSUME TypeInv, NEW r \in Requests, Arrive(r)
  PROVE  TypeInv'
<1>0. /\ waiting \in Seq(Jobs) /\ NoRepeat(waiting) /\ Rng(waiting) \cap using = {}
      /\ using \subseteq Jobs
      /\ stage \in [Requests -> 0 .. 5] /\ todo \in [Requests -> SUBSET Jobs]
      /\ status \in [Requests -> Codes] /\ buffered \subseteq Requests
      /\ tries \in [Requests -> 0 .. MaxTries] /\ DOMAIN input = Requests
      /\ stage[r] = 0 /\ Rest /\ UNCHANGED <<pool, using, idle, cut, lock, tries, connected>>
  BY DEF TypeInv, TypeOK, Contending, Codes, Arrive, Rest, processVars, dbVars
<1>1. /\ \A k \in InFlight : k[1] # r
      /\ ~ (tries[r] > 0) /\ tries[r] < MaxTries
  <2>1. ~ AtStage(r)
    <3> SUFFICES ASSUME input[r].use \in Uses PROVE stage[r] \notin DOMAIN Script(input[r].use)
      BY DEF AtStage
    <3> QED
      BY <1>0, Scripts
  <2> QED
    BY <1>0, <2>1, BoundsAssumption DEF TypeInv, OnItsScript
<1>2. PICK i \in Inputs[r] :
        /\ input' = [input EXCEPT ![r] = i]
        /\ \/ Screened(i) = 0 /\ Enter(r, i.use, 1)
           \/ /\ \/ Screened(i) # 0 /\ Finish(r, Screened(i))
                 \/ Finish(r, 503)
              /\ stage' = [stage EXCEPT ![r] = 1]
              /\ UNCHANGED <<todo, waiting>>
  BY DEF Arrive
<1>3. /\ \A q \in Requests : input'[q] \in Inputs[q] \cup {NoInput}
      /\ DOMAIN input' = Requests /\ input'[r] = i
      /\ \A q \in Requests \ {r} : input'[q] = input[q]
  BY <1>0, <1>2 DEF TypeInv, TypeOK
<1>4. \A k \in using' \cup Rng(waiting) :
        k[1] # r /\ (k = lock => k = lock') /\ (k \in cut => k \in cut')
  BY <1>0, <1>1 DEF InFlight
<1>5. CASE Screened(i) = 0 /\ Enter(r, i.use, 1)
  <2> DEFINE use == i.use
  <2>1. use \in Uses /\ 1 \in DOMAIN Script(use)
    <3>1. use \in Uses
      BY <1>5, InputAssumption DEF Screened
    <3> QED
      BY <3>1, Scripts
  <2>2. /\ stage' = [stage EXCEPT ![r] = 1] /\ stage' \in [Requests -> 0 .. 5]
        /\ todo' \in [Requests -> SUBSET Jobs] /\ status' \in [Requests -> Codes]
        /\ waiting' \in Seq(Jobs) /\ NoRepeat(waiting') /\ buffered' \subseteq Requests
        /\ \A q \in Requests \ {r} : status'[q] = status[q] /\ todo'[q] = todo[q]
        /\ \/ status'[r] # 0 /\ Rng(waiting') = Rng(waiting)
           \/ /\ todo'[r] = Rng(Asked(r, Script(use)[1]))
              /\ Rng(waiting') = Rng(waiting) \cup todo'[r]
    BY <1>4, <1>5, <2>1, EnteringAsks
  <2>3. Stage(r)' = Script(use)[1] /\ AtStage(r)'
    BY <1>0, <1>3, <2>1, <2>2 DEF Stage, AtStage
  <2>4. Rng(waiting') \cap using' = {}
    <3>1. \A k \in todo'[r] : todo'[r] = Rng(Asked(r, Script(use)[1])) => k[1] = r
      BY AskedJobs
    <3> QED
      BY <1>0, <1>4, <2>2, <3>1
  <2>5. Contending' /\ OnItsScript' /\ TriesLeft'
    <3>1. \A q \in Requests \ {r} : /\ input'[q] = input[q] /\ stage'[q] = stage[q]
                                     /\ status'[q] = status[q] /\ todo'[q] = todo[q]
      BY <1>0, <1>3, <2>2
    <3> QED
      BY <1>0, <1>1, <1>4, <2>2, <2>3, <2>4, <3>1, MovingKeeps
  <2>6. RestTyped'
    BY <1>0, <1>3, <2>2 DEF RestTyped, TypeInv, TypeOK
  <2> QED
    BY <1>0, <1>3, <2>5, <2>6, RestKeeps DEF TypeInv
<1>6. CASE /\ \/ Screened(i) # 0 /\ Finish(r, Screened(i))
              \/ Finish(r, 503)
           /\ stage' = [stage EXCEPT ![r] = 1]
           /\ UNCHANGED <<todo, waiting>>
  <2>1. PICK code \in Codes \ {0} : Finish(r, code)
    BY <1>6 DEF Screened, Codes
  <2>2. /\ status' \in [Requests -> Codes] /\ buffered' \subseteq Requests
        /\ status'[r] # 0 /\ \A q \in Requests \ {r} : status'[q] = status[q]
    BY <2>1, Answers
  <2>3. Contending' /\ OnItsScript' /\ TriesLeft'
    <3>1. \A q \in Requests \ {r} : /\ input'[q] = input[q] /\ stage'[q] = stage[q]
                                     /\ status'[q] = status[q] /\ todo'[q] = todo[q]
      BY <1>0, <1>3, <1>6, <2>2
    <3> QED
      BY <1>0, <1>1, <1>4, <1>6, <2>2, <3>1, MovingKeeps
  <2>4. RestTyped'
    <3>1. /\ stage' \in [Requests -> 0 .. 5] /\ UNCHANGED <<todo, waiting>>
          /\ todo' \in [Requests -> SUBSET Jobs]
      BY <1>0, <1>6
    <3> QED
      BY <1>0, <1>3, <2>2, <3>1 DEF RestTyped, TypeInv, TypeOK
  <2> QED
    BY <1>0, <1>3, <2>3, <2>4, RestKeeps DEF TypeInv
<1> QED
  BY <1>2, <1>5, <1>6

(* A query is answered.                                                    *)
LEMMA CompleteTypes ==
  ASSUME TypeInv, NEW j \in Jobs, Read(j) \/ EndWrite(j)
  PROVE  TypeInv'
<1>1. /\ j \in using /\ j[1] \in Requests /\ Complete(j[1], j)
      /\ UNCHANGED <<processVars, pool, input, tries, connected, dbVars>>
  BY DEF Read, EndWrite, Jobs
<1>2. /\ waiting' \in Seq(Jobs) /\ stage' \in [Requests -> 0 .. 5]
      /\ todo' \in [Requests -> SUBSET Jobs] /\ status' \in [Requests -> Codes]
      /\ buffered' \subseteq Requests
      /\ Contending' /\ OnItsScript' /\ TriesLeft'
  BY <1>1, CompletedTypes
<1>3. /\ using' = using \ {j} /\ cut' \subseteq using' /\ idle' \in Nat
      /\ lock' \in using' \cup {Nobody}
  BY <1>1, Released DEF Complete
<1>4. RestTyped' /\ Rest
  BY <1>1, <1>2, <1>3 DEF RestTyped, Rest, processVars, dbVars, TypeInv, TypeOK
<1> QED
  BY <1>1, <1>2, <1>4, RestKeeps DEF TypeInv

(* A retry: the write asks for a client again, with an attempt left.       *)
LEMMA RetryTypes ==
  ASSUME TypeInv, NEW j \in Jobs, Retry(j)
  PROVE  TypeInv'
<1> DEFINE r == j[1]
           use == input[r].use
           n == stage[r]
<1>0. /\ waiting \in Seq(Jobs) /\ NoRepeat(waiting) /\ Rng(waiting) \cap using = {}
      /\ stage \in [Requests -> 0 .. 5] /\ todo \in [Requests -> SUBSET Jobs]
      /\ status \in [Requests -> Codes] /\ buffered \subseteq Requests
      /\ DOMAIN input = Requests /\ tries \in [Requests -> 0 .. MaxTries] /\ lock # Nobody
      /\ r \in Requests /\ j \in using /\ lock = j /\ Open(r) /\ tries[r] < MaxTries
      /\ Release(j) /\ Enter(r, use, n)
      /\ UNCHANGED <<processVars, pool, input, tries, connected, dbVars>>
  BY NobodyAssumption DEF TypeInv, TypeOK, Contending, Codes, Retry, Jobs
<1>1. /\ using' = using \ {j} /\ cut' \subseteq using' /\ idle' \in Nat
      /\ lock' \in using' \cup {Nobody} /\ (lock' # Nobody => lock' = lock)
      /\ \A k \in using' \cup Rng(waiting) :
           k # j /\ (k = lock => k = lock') /\ (k \in cut => k \in cut')
  BY <1>0, Released
<1>2. use \in Uses /\ n \in DOMAIN Script(use) /\ Script(use)[n] = "write" /\ Stage(r) = "write"
  BY <1>0 DEF TypeInv, TriesLeft, OnItsScript, AtStage, Stage
<1> HIDE DEF r, use, n
<1>3. \A k \in using' \cup Rng(waiting) : k[1] # r
  <2> SUFFICES ASSUME NEW k \in using' \cup Rng(waiting), k[1] = r PROVE FALSE
    OBVIOUS
  <2>1. k # j /\ k \in Rng(Asked(r, Stage(r))) /\ j \in Rng(Asked(r, Stage(r)))
    BY <1>0, <1>1 DEF TypeInv, OnItsScript, InFlight, r
  <2>2. r \in Requests /\ Stage(r) = "write"
    BY <1>0, <1>2
  <2>3. Rng(Asked(r, Stage(r))) = {<<r, 1>>}
    BY <2>2, AskedJobs
  <2> QED
    BY <2>1, <2>3
<1>4. /\ stage' = [stage EXCEPT ![r] = n] /\ stage' \in [Requests -> 0 .. 5]
      /\ todo' \in [Requests -> SUBSET Jobs] /\ status' \in [Requests -> Codes]
      /\ waiting' \in Seq(Jobs) /\ NoRepeat(waiting') /\ buffered' \subseteq Requests
      /\ \A q \in Requests \ {r} : status'[q] = status[q] /\ todo'[q] = todo[q]
      /\ \/ status'[r] # 0 /\ Rng(waiting') = Rng(waiting)
         \/ /\ todo'[r] = Rng(Asked(r, Script(use)[n]))
            /\ Rng(waiting') = Rng(waiting) \cup todo'[r]
  BY <1>0, <1>2, <1>3, EnteringAsks
<1>5. Stage(r)' = Script(use)[n] /\ AtStage(r)'
  BY <1>0, <1>2, <1>4 DEF Stage, AtStage, use
<1>6. Rng(waiting') \cap using' = {}
  <2>1. \A k \in todo'[r] : todo'[r] = Rng(Asked(r, Script(use)[n])) => k[1] = r
    BY <1>0, AskedJobs
  <2> QED
    BY <1>0, <1>1, <1>3, <1>4, <2>1
<1>7. Contending' /\ OnItsScript' /\ TriesLeft'
  <2>1. \A q \in Requests \ {r} : /\ input'[q] = input[q] /\ stage'[q] = stage[q]
                                   /\ status'[q] = status[q] /\ todo'[q] = todo[q]
    BY <1>0, <1>4
  <2>2. \A k \in using' \cup Rng(waiting) :
          k[1] # r /\ (k = lock => k = lock') /\ (k \in cut => k \in cut')
    BY <1>1, <1>3
  <2>3. \/ status'[r] # 0 /\ Rng(waiting') = Rng(waiting)
        \/ /\ AtStage(r)' /\ todo'[r] = Rng(Asked(r, Stage(r)'))
           /\ Rng(waiting') = Rng(waiting) \cup todo'[r]
    BY <1>4, <1>5
  <2> QED
    BY <1>0, <1>1, <1>2, <1>4, <1>5, <1>6, <2>1, <2>2, <2>3, MovingKeeps
<1>8. RestTyped' /\ Rest
  BY <1>0, <1>1, <1>4 DEF RestTyped, Rest, processVars, dbVars, TypeInv, TypeOK
<1> QED
  BY <1>0, <1>7, <1>8, RestKeeps DEF TypeInv

(* A query that fails answers its request, if that is still open; whoever  *)
(* it was under way for asks for nothing more.                             *)
LEMMA FailureKeeps ==
  ASSUME TypeInv, NEW r \in Requests, AnswerFailed(r), UNCHANGED <<input, stage, todo, tries>>,
         NoRepeat(waiting'), Rng(waiting') \cap using' = {}, InFlight' \subseteq InFlight,
         lock' # Nobody => lock' = lock,
         \A k \in InFlight' : (k = lock => k = lock') /\ (k \in cut => k \in cut')
  PROVE  Contending' /\ OnItsScript' /\ TriesLeft'
<1>1. \A q \in Requests : Open(q)' => Open(q) /\ todo'[q] \subseteq todo[q]
  BY FailureAnswers DEF Open
<1>2. \A k \in InFlight' : k[1] \in Requests
  BY InFlightJobs
<1>3. \A k \in InFlight' : Open(k[1])' => k \in todo'[k[1]]
  BY <1>1, <1>2 DEF TypeInv, OnItsScript
<1> QED
  BY <1>1, <1>3, StayingKeeps

(* A query fails.                                                          *)
LEMMA FailTypes ==
  ASSUME TypeInv, ConnectTimeout \/ QueueTimeout \/ \E j \in Jobs : Broken(j)
  PROVE  TypeInv'
<1>0. /\ waiting \in Seq(Jobs) /\ NoRepeat(waiting) /\ Rng(waiting) \cap using = {}
      /\ RestTyped
  BY DEF TypeInv, TypeOK, Contending, RestTyped, Codes
<1>1. ASSUME NEW i \in DOMAIN waiting, TimesOut(i)
      PROVE  TypeInv'
  <2>1. waiting[i] \in Jobs /\ waiting[i][1] \in Requests
    BY <1>0 DEF Jobs
  <2>2. /\ waiting' \in Seq(Jobs) /\ NoRepeat(waiting') /\ Rng(waiting') \subseteq Rng(waiting)
    BY <1>0, <1>1, Left DEF TimesOut
  <2>3. /\ AnswerFailed(waiting[i][1]) /\ Rest
        /\ UNCHANGED <<pool, using, idle, cut, lock, stage, todo, input, tries, connected>>
    BY <1>1 DEF TimesOut, Rest, processVars, dbVars
  <2>4. status' \in [Requests -> Codes] /\ buffered' \subseteq Requests
    BY <2>1, <2>3, FailureAnswers
  <2>5. Contending' /\ OnItsScript' /\ TriesLeft'
    BY <1>0, <2>1, <2>2, <2>3, FailureKeeps DEF InFlight
  <2>6. RestTyped'
    BY <1>0, <2>2, <2>3, <2>4 DEF RestTyped
  <2> QED
    BY <2>3, <2>5, <2>6, RestKeeps DEF TypeInv
<1>2. ASSUME NEW j \in Jobs, Broken(j)
      PROVE  TypeInv'
  <2>1. /\ j \in using /\ j[1] \in Requests /\ AnswerFailed(j[1]) /\ Release(j) /\ Rest
        /\ UNCHANGED <<pool, waiting, stage, todo, input, tries, connected>>
    BY <1>2 DEF Broken, Jobs, Rest, processVars, dbVars
  <2>2. /\ using' = using \ {j} /\ cut' \subseteq using' /\ idle' \in Nat
        /\ lock' \in using' \cup {Nobody} /\ (lock' # Nobody => lock' = lock)
        /\ \A k \in using' \cup Rng(waiting) :
             k # j /\ (k = lock => k = lock') /\ (k \in cut => k \in cut')
    BY <2>1, Released
  <2>3. status' \in [Requests -> Codes] /\ buffered' \subseteq Requests
    BY <2>1, FailureAnswers
  <2>4. Contending' /\ OnItsScript' /\ TriesLeft'
    BY <1>0, <2>1, <2>2, FailureKeeps DEF InFlight
  <2>5. RestTyped'
    BY <1>0, <2>1, <2>2, <2>3 DEF RestTyped
  <2> QED
    BY <2>1, <2>4, <2>5, RestKeeps DEF TypeInv
<1> QED
  BY <1>1, <1>2 DEF ConnectTimeout, QueueTimeout

(* A write gets the lock of its day.                                       *)
LEMMA TakeLockTypes ==
  ASSUME TypeInv, NEW j \in Jobs, TakeLock(j)
  PROVE  TypeInv'
<1>1. /\ j \in using /\ j \notin cut /\ j[1] \in Requests /\ Stage(j[1]) = "write" /\ j # Nobody
      /\ lock = Nobody /\ lock' = j /\ tries' = [tries EXCEPT ![j[1]] = @ + 1] /\ Rest
      /\ UNCHANGED <<pool, waiting, using, idle, cut, stage, todo, status, input, connected,
                     buffered>>
  BY NobodyAssumption DEF TakeLock, Jobs, Rest, processVars, dbVars
<1>2. /\ RestTyped /\ tries \in [Requests -> 0 .. MaxTries] /\ MaxTries \in Nat
      /\ tries[j[1]] < MaxTries /\ AtStage(j[1]) /\ \A k \in using : k[1] \in Requests
  BY <1>1, BoundsAssumption
     DEF TypeInv, TypeOK, RestTyped, Codes, TriesLeft, OnItsScript, InFlight, Jobs
<1>3. tries' \in [Requests -> 0 .. MaxTries] /\ tries'[j[1]] > 0
      /\ \A q \in Requests \ {j[1]} : tries'[q] = tries[q]
  BY <1>1, <1>2
<1>4. \A q : /\ Stage(q)' = Stage(q) /\ (AtStage(q)' <=> AtStage(q)) /\ (Open(q)' <=> Open(q))
             /\ todo'[q] = todo[q]
  BY <1>1 DEF Stage, AtStage, Open
<1>5. InFlight' = InFlight /\ Contending'
  BY <1>1 DEF InFlight, Contending, TypeInv
<1>6. OnItsScript'
  BY <1>2, <1>3, <1>4, <1>5 DEF TypeInv, OnItsScript, Asked, Rng
(* Only one query of a request is under way at its write.                  *)
<1>7. TriesLeft'
  <2>1. \A q \in Requests : tries'[q] > 0 => Stage(q)' = "write"
    BY <1>1, <1>3, <1>4 DEF TypeInv, TriesLeft
  <2>2. ASSUME NEW k \in InFlight', Stage(k[1])' = "write", k # lock', k \notin cut'
        PROVE  tries'[k[1]] < MaxTries
    <3>1. k \in InFlight /\ Stage(k[1]) = "write" /\ k # lock /\ k \notin cut /\ k # j
      BY <1>1, <1>4, <1>5, <2>2, InFlightJobs
    <3>2. CASE k[1] # j[1]
      BY <1>1, <1>3, <3>1, <3>2 DEF TypeInv, TriesLeft
    <3>3. CASE k[1] = j[1]
      <4>1. /\ k \in Rng(Asked(j[1], Stage(j[1]))) /\ j \in Rng(Asked(j[1], Stage(j[1])))
        BY <1>1, <3>1, <3>3 DEF TypeInv, OnItsScript, InFlight
      <4> QED
        BY <1>1, <3>1, <4>1, AskedJobs
    <3> QED
      BY <3>2, <3>3
  <2>3. lock' # Nobody => tries'[lock'[1]] > 0
    BY <1>1, <1>3
  <2> QED
    BY <2>1, <2>2, <2>3 DEF TriesLeft
<1>8. RestTyped'
  BY <1>1, <1>2, <1>3 DEF RestTyped
<1> QED
  BY <1>1, <1>5, <1>6, <1>7, <1>8, RestKeeps DEF TypeInv

(* The process itself: it does nothing to a request it does not take along.*)
Undisturbed ==
  /\ UNCHANGED <<waiting, using, input, stage, todo, tries, status>>
  /\ \/ lock' = lock /\ cut' = cut
     \/ lock' = Nobody /\ cut' = using

(* Such a step leaves every query under way where it was.                  *)
LEMMA UndisturbedKeeps ==
  ASSUME TypeInv, Undisturbed
  PROVE  Contending' /\ OnItsScript' /\ TriesLeft' /\ DOMAIN input' = Requests
<1>1. /\ \A r : /\ Stage(r)' = Stage(r) /\ (AtStage(r)' <=> AtStage(r))
                /\ (Open(r)' <=> Open(r)) /\ todo'[r] = todo[r] /\ tries'[r] = tries[r]
      /\ InFlight' = InFlight
  BY DEF Undisturbed, Stage, AtStage, Open, InFlight, Rng
<1>2. Contending'
  BY DEF Undisturbed, TypeInv, Contending, NoRepeat, Rng
<1>3. OnItsScript'
  BY <1>1 DEF TypeInv, OnItsScript, Asked, Rng
<1>4. TriesLeft'
  <2>1. lock' # Nobody => lock' = lock /\ tries'[lock'[1]] = tries[lock[1]]
    BY DEF Undisturbed
  <2>2. \A k \in InFlight : k # lock' /\ k \notin cut' => k # lock /\ k \notin cut
    BY InFlightJobs DEF Undisturbed, TypeInv, TypeOK
  <2> QED
    BY <1>1, <2>1, <2>2 DEF TypeInv, TriesLeft
<1>5. DOMAIN input' = Requests
  BY DEF Undisturbed, TypeInv
<1> QED
  BY <1>2, <1>3, <1>4, <1>5

(* The pool serves, clients go away.                                       *)
LEMMA PoolTypes ==
  ASSUME TypeInv, Grant \/ \E r \in Requests : Disconnect(r)
  PROVE  TypeInv'
<1>0. /\ waiting \in Seq(Jobs) /\ NoRepeat(waiting) /\ Rng(waiting) \cap using = {}
      /\ RestTyped
  BY DEF TypeInv, TypeOK, Contending, RestTyped, Codes
<1>1. CASE Grant
  <2>1. /\ waiting # <<>> /\ waiting' = Tail(waiting) /\ using' = using \cup {Head(waiting)}
        /\ idle' = (IF idle > 0 THEN idle - 1 ELSE 0) /\ Rest
        /\ UNCHANGED <<pool, cut, lock, input, stage, todo, tries, status, connected, buffered>>
    BY <1>1 DEF Grant, Rest, processVars, requestVars, dbVars
  <2>2. /\ waiting' \in Seq(Jobs) /\ NoRepeat(waiting') /\ Head(waiting) \in Rng(waiting)
        /\ Rng(waiting') = Rng(waiting) \ {Head(waiting)}
    BY <1>0, <2>1, Served
  <2>3. InFlight' = InFlight /\ Rng(waiting') \cap using' = {}
    BY <1>0, <2>1, <2>2 DEF InFlight
  <2>4. \A k \in InFlight' : Open(k[1])' => k \in todo'[k[1]]
    BY <2>1, <2>3 DEF TypeInv, OnItsScript, Open
  <2>5. Contending' /\ OnItsScript' /\ TriesLeft'
    BY <2>1, <2>2, <2>3, <2>4, StayingKeeps DEF Open
  <2>6. RestTyped'
    <3>1. Head(waiting) \in Jobs
      BY <1>0, <2>1
    <3>2. idle' \in Nat
      BY <1>0, <2>1 DEF RestTyped
    <3> QED
      BY <1>0, <2>1, <2>2, <3>1, <3>2 DEF RestTyped
  <2> QED
    BY <2>1, <2>5, <2>6, RestKeeps DEF TypeInv
<1>2. ASSUME NEW r \in Requests, Disconnect(r)
      PROVE  TypeInv'
  <2>1. /\ connected' = [connected EXCEPT ![r] = FALSE] /\ Rest
        /\ UNCHANGED <<poolVars, input, stage, todo, tries, status, buffered>>
    BY <1>2 DEF Disconnect, Rest, processVars, dbVars
  <2>2. Contending' /\ OnItsScript' /\ TriesLeft'
    BY <2>1, UndisturbedKeeps DEF poolVars, Undisturbed
  <2>3. RestTyped'
    BY <1>0, <2>1 DEF RestTyped, poolVars
  <2> QED
    BY <2>1, <2>2, <2>3, RestKeeps DEF TypeInv
<1> QED
  BY <1>1, <1>2

(* Nothing is left of a process that died.                                 *)
LEMMA DiesTypes ==
  ASSUME TypeInv, NEW how \in {"1", "killed"}, Dies(how),
         UNCHANGED <<main, down, caught, server, poolMax, dbVars>>
  PROVE  TypeInv'
<1>1. InFlight' = {} /\ NoRepeat(waiting') /\ Rng(waiting') = {} /\ waiting' \in Seq(Jobs)
  BY DEF Dies, InFlight, Rng, NoRepeat
<1>2. TypeOK'
  BY <1>1, BoundsAssumption DEF TypeInv, TypeOK, Dies, dbVars
<1>3. Contending' /\ OnItsScript' /\ TriesLeft' /\ DOMAIN input' = Requests
  BY <1>1 DEF Contending, OnItsScript, TriesLeft, Dies, Open
<1> QED
  BY <1>2, <1>3 DEF TypeInv

(* The process starts, the pool ends, the database fails and recovers.     *)
LEMMA RootTypes ==
  ASSUME TypeInv, Boot \/ Listen \/ ListenFails \/ PoolEnds \/ DbFails \/ DbRecovers
  PROVE  TypeInv'
<1> USE DEF processVars, poolVars, requestVars, dbVars
<1>1. Undisturbed
  BY DEF Boot, Listen, ListenFails, PoolEnds, DbFails, DbRecovers, Undisturbed
<1>2. TypeOK'
  <2> USE DEF TypeInv, TypeOK
  <2>1. CASE Boot
    <3>1. poolMax' \in Nat /\ main' \in {main, "listening"} /\ exit' \in {exit, "1"}
      BY <2>1, AcceptedPool DEF Boot
    <3> QED
      BY <2>1, <3>1 DEF Boot
  <2>2. CASE Listen
    BY <2>2 DEF Listen
  <2>3. CASE ListenFails
    BY <2>3 DEF ListenFails, EndPool
  <2>4. CASE PoolEnds
    BY <2>4 DEF PoolEnds
  <2>5. CASE DbFails
    <3>1. outages' \in 0 .. MaxOutages
      BY <2>5, BoundsAssumption DEF DbFails
    <3> QED
      BY <2>5, <3>1 DEF DbFails, IdleError
  <2>6. CASE DbRecovers
    BY <2>6 DEF DbRecovers
  <2> QED
    BY <2>1, <2>2, <2>3, <2>4, <2>5, <2>6
<1> QED
  BY <1>1, <1>2, UndisturbedKeeps DEF TypeInv

(* The process shuts down, or is made to.                                  *)
LEMMA ShutdownTypes ==
  ASSUME TypeInv, CloseNext \/ GiveUp \/ CloseRejects \/ \E s \in Signals : Signal(s)
  PROVE  TypeInv'
<1>1. CASE CloseNext
  <2>1. Undisturbed
    BY <1>1 DEF CloseNext, Undisturbed
  <2>2. /\ down \in 1 .. 3 /\ Len(Closing) = 3 /\ buffered' \subseteq Requests
        /\ UNCHANGED <<main, caught, poolMax, waiting, using, idle, cut, lock, stage, todo, input,
                       tries, status, connected, dbVars>>
    BY <1>1 DEF CloseNext, TypeInv, TypeOK, Closing
  <2>3. /\ down' \in 0 .. 3 /\ exit' \in {exit, "0"} /\ server' \in {server, "closing"}
        /\ pool' \in {pool, "ending"}
    BY <1>1, <2>2 DEF CloseNext, Begin, EndPool
  <2>4. TypeOK'
    BY <2>2, <2>3 DEF TypeInv, TypeOK, dbVars
  <2> QED
    BY <2>1, <2>4, UndisturbedKeeps DEF TypeInv
<1>2. CASE GiveUp \/ CloseRejects
  BY <1>2, DiesTypes DEF GiveUp, CloseRejects
<1>3. ASSUME NEW s \in Signals, Signal(s)
      PROVE  TypeInv'
  <2>1. CASE main = "boot" \/ s \in caught
    BY <1>3, <2>1, DiesTypes DEF Signal
  <2>2. CASE ~ (main = "boot" \/ s \in caught)
    <3>1. /\ caught' = caught \cup {s} /\ Len(Closing) = 3
          /\ down' \in {down, 1} /\ server' \in {server, "closing"} /\ pool' \in {pool, "ending"}
          /\ UNCHANGED <<main, exit, poolMax, waiting, using, idle, cut, lock, requestVars, dbVars>>
      BY <1>3, <2>2 DEF Signal, Begin, EndPool, Closing
    <3>2. Undisturbed
      BY <3>1 DEF Undisturbed, requestVars
    <3>3. TypeOK'
      BY <1>3, <3>1 DEF TypeInv, TypeOK, requestVars, dbVars
    <3> QED
      BY <3>2, <3>3, UndisturbedKeeps DEF TypeInv
  <2> QED
    BY <2>1, <2>2
<1> QED
  BY <1>1, <1>2, <1>3

(* The process starts in the invariant.                                    *)
LEMMA InitTypes == Init => TypeInv
<1> SUFFICES ASSUME Init PROVE TypeInv
  OBVIOUS
<1>1. InFlight = {} /\ NoRepeat(waiting) /\ Rng(waiting) = {} /\ waiting \in Seq(Jobs)
  BY DEF Init, InFlight, Rng, NoRepeat
<1>2. outages \in 0 .. MaxOutages
  BY BoundsAssumption DEF Init
<1>3. TypeOK
  BY <1>1, <1>2, BoundsAssumption DEF Init, TypeOK, Closing
<1> QED
  BY <1>1, <1>3 DEF Init, TypeInv, Contending, OnItsScript, TriesLeft, Open

(* Every step keeps it.                                                    *)
LEMMA NextTypes == TypeInv /\ [Next]_vars => TypeInv'
<1> SUFFICES ASSUME TypeInv, [Next]_vars PROVE TypeInv'
  OBVIOUS
<1>1. CASE UNCHANGED vars
  <2>1. Undisturbed
    BY <1>1 DEF vars, processVars, poolVars, requestVars, dbVars, Undisturbed
  <2>2. TypeOK'
    BY <1>1 DEF vars, processVars, poolVars, requestVars, dbVars, TypeInv, TypeOK
  <2> QED
    BY <2>1, <2>2, UndisturbedKeeps DEF TypeInv
<1>2. CASE Next
  BY <1>1, <1>2, ArriveTypes, CompleteTypes, RetryTypes, FailTypes, TakeLockTypes, PoolTypes,
     RootTypes, ShutdownTypes DEF Next, Progress
<1> QED
  BY <1>1, <1>2

(* Every variable keeps its type, whatever is asked for and fails: above   *)
(* all, no write is attempted more often than the cap (runAttemptLoop),    *)
(* and no query waits for a client that has one (node-postgres' pool).     *)
THEOREM Types == Spec => []TypeOK
<1>1. TypeInv => TypeOK
  BY DEF TypeInv
<1> QED
  BY <1>1, InitTypes, NextTypes, PTL DEF Spec
=============================================================================
