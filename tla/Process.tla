------------------------------- MODULE Process -------------------------------
(***************************************************************************)
(* One life of the service process (main.ts): configuration, listening,    *)
(* requests that share the connection pool (db.ts), and the end, by        *)
(* configuration, by a port that cannot be listened on, or by a signal.    *)
(*                                                                         *)
(* What the queries say is Scheduler's business; here a request is the     *)
(* clients it asks the pool for, and every attempt of a write contends for *)
(* one lock, which is the worst case.                                      *)
(*                                                                         *)
(* Bounds: one request per member of Requests, MaxTries attempts of a      *)
(* write, MaxOutages failures of the database.                             *)
(***************************************************************************)
EXTENDS Integers, Sequences, FiniteSets

CONSTANTS
  Requests,
  Inputs,        \* Inputs[r]: what r may ask for, a use case and a body
  Environments,  \* the raw values the process may be started with
  MaxTries,      \* bound on the attempts of one write
  MaxOutages,    \* bound on failures of the database
  Leaving,       \* requests whose client may go away
  Nobody

Signals == {"SIGTERM", "SIGINT"}

Jobs == Requests \X {1, 2}

ASSUME NobodyAssumption == Nobody \notin Jobs
(* A database that is down from the start is one failure.                  *)
ASSUME BoundsAssumption == {MaxTries, MaxOutages} \subseteq Nat \ {0}

VARIABLES
  main,       \* how far the composition root has come
  down,       \* awaits of shutdown() begun; 0 before the first signal
  caught,     \* signals whose once-listener is used up
  exit,       \* the exit code, or how the process died; "none" while it runs
  server,     \* the HTTP server: open or closing
  poolMax,    \* DB_POOL_MAX, 0 before the configuration is read
  pool,       \* open, ending, ended
  waiting,    \* queries waiting for a client, oldest first
  using,      \* queries that have one
  idle,       \* connected clients nobody uses
  cut,        \* queries whose connection has broken
  lock,       \* the query whose transaction holds the contended lock
  input,      \* what each request asks for
  stage,      \* the stage of its script each request is at; 0 before it is sent
  todo,       \* the queries of that stage not yet answered
  tries,      \* attempts made
  status,     \* the status its handler has answered with, 0 before
  connected,  \* whether its client is still there
  buffered,   \* requests whose ended span the SDK has not exported
  dbUp, outages

processVars == <<main, down, caught, exit, server, poolMax>>
poolVars    == <<pool, waiting, using, idle, cut, lock>>
requestVars == <<input, stage, todo, tries, status, connected, buffered>>
dbVars      == <<dbUp, outages>>
vars == <<processVars, poolVars, requestVars, dbVars>>

NoInput == [use |-> "none", body |-> "empty"]

Running == exit = "none"

(* The process is gone, and with it all that it held; PostgreSQL rolls     *)
(* back what was open.                                                     *)
Dies(how) ==
  /\ exit' = how
  /\ pool' = "ended" /\ waiting' = <<>> /\ using' = {} /\ idle' = 0
  /\ cut' = {} /\ lock' = Nobody
  /\ input' = [r \in Requests |-> NoInput]
  /\ stage' = [r \in Requests |-> 0] /\ todo' = [r \in Requests |-> {}]
  /\ tries' = [r \in Requests |-> 0] /\ status' = [r \in Requests |-> 0]
  /\ connected' = [r \in Requests |-> FALSE] /\ buffered' = {}

Init ==
  /\ main = "boot" /\ down = 0 /\ caught = {} /\ exit = "none" /\ server = "open"
  /\ poolMax = 0 /\ pool = "open" /\ waiting = <<>> /\ using = {} /\ idle = 0
  /\ cut = {} /\ lock = Nobody
  /\ input = [r \in Requests |-> NoInput]
  /\ stage = [r \in Requests |-> 0]
  /\ todo = [r \in Requests |-> {}]
  /\ tries = [r \in Requests |-> 0]
  /\ status = [r \in Requests |-> 0]
  /\ connected = [r \in Requests |-> TRUE]
  /\ buffered = {}
  /\ dbUp \in BOOLEAN /\ outages = IF dbUp THEN 0 ELSE 1

-----------------------------------------------------------------------------
(* Configuration.  A raw value is absent, a word or a number; the empty    *)
(* string counts as absent.                                                *)

(* 2^32 - 1, cut to what TLC can hold; no run sets a seed near it.         *)
MaxSeed == 2147483647

(* name, required, the least and the greatest number accepted, default     *)
Numbers ==
  {[name |-> "PORT", required |-> TRUE, min |-> 1, max |-> 65535],
   [name |-> "BOOKING_ATTEMPT_CAP", required |-> FALSE, min |-> 1, max |-> 1000],
   [name |-> "BOOKING_SEED", required |-> FALSE, min |-> 0, max |-> MaxSeed],
   [name |-> "DB_POOL_MAX", required |-> FALSE, min |-> 1, max |-> 100]}

DefaultPoolMax == 10

Absent == [is |-> "absent"]
Word(w) == [is |-> "word", word |-> w]
Number(n) == [is |-> "number", number |-> n]

ASSUME EnvironmentAssumption ==
  \A env \in Environments :
    env["DB_POOL_MAX"] \in {Absent} \cup [is : {"word"}, word : STRING]
                             \cup [is : {"number"}, number : Int]

LogLevels == {"fatal", "error", "warn", "info", "debug", "trace", "silent"}

(* Mutant: a number is accepted whatever its size.                         *)
BadNumberUnranged(v, raw) == (raw = Absent /\ v.required) \/ raw.is = "word"

BadNumber(v, raw) ==
  \/ raw = Absent /\ v.required
  \/ raw.is = "word"
  \/ raw.is = "number" /\ raw.number \notin v.min .. v.max

(* The variables whose values are refused: all of them, not the first.     *)
Problems(env) ==
  {v.name : v \in {n \in Numbers : BadNumber(n, env[n.name])}}
    \cup (IF env["DATABASE_URL"] = Absent THEN {"DATABASE_URL"} ELSE {})
    \cup (IF env["LOG_LEVEL"] \in {Absent} \cup {Word(l) : l \in LogLevels}
          THEN {} ELSE {"LOG_LEVEL"})

PoolMax(env) ==
  IF env["DB_POOL_MAX"] = Absent THEN DefaultPoolMax ELSE env["DB_POOL_MAX"].number

(* The composition root up to listen(): the configuration is refused, or   *)
(* telemetry is started, a pool that has connected to nothing is created   *)
(* and the two signal handlers are installed.                              *)
Boot ==
  /\ main = "boot"
  /\ \E env \in Environments :
       IF Problems(env) # {}
       THEN exit' = "1" /\ UNCHANGED <<main, poolMax>>
       ELSE main' = "listening" /\ poolMax' = PoolMax(env) /\ UNCHANGED exit
  /\ UNCHANGED <<down, caught, server, poolVars, requestVars, dbVars>>

Listen ==
  /\ main = "listening"
  /\ main' = "serving"
  /\ UNCHANGED <<down, caught, exit, server, poolMax, poolVars, requestVars, dbVars>>

-----------------------------------------------------------------------------
(* The pool.  closeDb ends it: clients nobody uses are closed at once, the *)
(* others when they are released; nobody gets a client any more.           *)

EndPool == pool' = IF pool = "open" THEN "ending" ELSE pool

PoolEnds ==
  /\ pool = "ending" /\ using = {}
  /\ pool' = "ended" /\ idle' = 0
  /\ UNCHANGED <<processVars, waiting, using, cut, lock, requestVars, dbVars>>

(* A connection in use is given back, and what its transaction locked is   *)
(* free; one that broke is not kept.  Mutants: the client is not given     *)
(* back when its query fails; a lock of the session outlives its           *)
(* transaction.                                                            *)
ReleaseUnlessCut(j) ==
  /\ using' = IF j \in cut THEN using ELSE using \ {j}
  /\ idle' = IF j \in cut THEN idle ELSE idle + 1
  /\ lock' = IF lock = j THEN Nobody ELSE lock
  /\ UNCHANGED cut
ReleaseLocked(j) ==
  /\ using' = using \ {j}
  /\ cut' = cut \ {j}
  /\ idle' = IF j \in cut THEN idle ELSE idle + 1
  /\ UNCHANGED lock
Release(j) ==
  /\ using' = using \ {j}
  /\ cut' = cut \ {j}
  /\ idle' = IF j \in cut THEN idle ELSE idle + 1
  /\ lock' = IF lock = j THEN Nobody ELSE lock

(* Mutants: the pool before the server, telemetry before the server.       *)
PoolFirst == <<"db", "server", "telemetry">>
TelemetryFirst == <<"telemetry", "server", "db">>

(* What shutdown awaits, in order.                                         *)
Closing == <<"server", "db", "telemetry">>

-----------------------------------------------------------------------------
(* Requests.                                                               *)

(* The queries of each use case, a stage being those awaited together.     *)
HealthScript       == <<"read">>
GetScript          == <<"read">>
AvailabilityScript == <<"read", "read", "read", "read">>
BookScript         == <<"read", "read", "pair", "write">>
MoveScript         == <<"read", "read", "read", "read", "write">>
CancelScript       == <<"write">>

Uses == {"health", "get", "availability", "book", "move", "cancel"}

ASSUME InputAssumption ==
  \A r \in Requests : \A i \in Inputs[r] : i.use \in Uses \cup {"unrouted"}

Script(use) ==
  CASE use = "health"       -> HealthScript
    [] use = "get"          -> GetScript
    [] use = "availability" -> AvailabilityScript
    [] use = "book"         -> BookScript
    [] use = "move"         -> MoveScript
    [] use = "cancel"       -> CancelScript

Stage(r) == Script(input[r].use)[stage[r]]

Open(r) == stage[r] > 0 /\ status[r] = 0

(* The jobs of a stage, in the order they ask for a client.                *)
Asked(r, kind) == IF kind = "pair" THEN <<<<r, 1>>, <<r, 2>>>> ELSE <<<<r, 1>>>>

(* The parser comes first, then the route, then its schema, which an empty *)
(* body fails where one is read; 0 lets the handler run.                   *)
Screened(i) ==
  IF i.body = "unparsable" THEN 400
  ELSE IF i.use = "unrouted" THEN 404
  ELSE IF i.use \in {"book", "move"} /\ i.body # "valid" THEN 400
  ELSE 0

(* The handler has answered: the response, if anybody still reads it, ends *)
(* the server span.                                                        *)
Finish(r, code) ==
  /\ status' = [status EXCEPT ![r] = code]
  /\ buffered' = IF connected[r] THEN buffered \cup {r} ELSE buffered

(* A query has failed: pingDatabase swallows it and the route answers 503, *)
(* every other use case lets it escape to setErrorHandler.                 *)
Failed(r, use) == Finish(r, IF use = "health" THEN 503 ELSE 500)

(* Entering stage n: its queries ask for clients, in vain once the pool    *)
(* has been ended.                                                         *)
Enter(r, use, n) ==
  LET jobs == Asked(r, Script(use)[n])
  IN  IF pool = "open"
      THEN /\ stage' = [stage EXCEPT ![r] = n]
           /\ todo' = [todo EXCEPT ![r] = {jobs[i] : i \in DOMAIN jobs}]
           /\ waiting' = waiting \o jobs
           /\ UNCHANGED <<status, buffered>>
      ELSE /\ Failed(r, use)
           /\ stage' = [stage EXCEPT ![r] = n]
           /\ UNCHANGED <<todo, waiting>>

(* A request on an open server, answered before any handler or handled;    *)
(* on a connection kept alive to a closing one it is answered 503.         *)
Arrive(r) ==
  /\ main = "serving" /\ stage[r] = 0
  /\ \E i \in Inputs[r] :
       /\ input' = [input EXCEPT ![r] = i]
       /\ \/ /\ server = "open" /\ Screened(i) = 0
             /\ Enter(r, i.use, 1)
          \/ /\ server = "open" /\ Screened(i) # 0
             /\ Finish(r, Screened(i))
             /\ stage' = [stage EXCEPT ![r] = 1]
             /\ UNCHANGED <<todo, waiting>>
          \/ /\ server = "closing" /\ Closing[down] = "server"
             /\ Finish(r, 503)
             /\ stage' = [stage EXCEPT ![r] = 1]
             /\ UNCHANGED <<todo, waiting>>
  /\ UNCHANGED <<processVars, pool, using, idle, cut, lock, tries, connected, dbVars>>

(* The client goes away; its handler does not notice.                      *)
Disconnect(r) ==
  /\ r \in Leaving /\ Open(r) /\ connected[r]
  /\ connected' = [connected EXCEPT ![r] = FALSE]
  /\ UNCHANGED <<processVars, poolVars, stage, todo, input, tries, status, buffered, dbVars>>

(* The oldest waiter gets a client.                                        *)
Grant ==
  /\ waiting # <<>> /\ pool = "open" /\ dbUp /\ Cardinality(using) < poolMax
  /\ waiting' = Tail(waiting)
  /\ using' = using \cup {Head(waiting)}
  /\ idle' = IF idle > 0 THEN idle - 1 ELSE 0
  /\ UNCHANGED <<processVars, pool, cut, lock, requestVars, dbVars>>

(* A query whose request has been answered already changes nothing more.   *)
AnswerFailed(r) ==
  IF Open(r) THEN Failed(r, input[r].use) ELSE UNCHANGED <<status, buffered>>

Without(queue, i) == SubSeq(queue, 1, i - 1) \o SubSeq(queue, i + 1, Len(queue))

(* CONNECTION_TIMEOUT_MS: a waiting query is refused a client.             *)
TimesOut(i) ==
  /\ waiting' = Without(waiting, i)
  /\ AnswerFailed(waiting[i][1])
  /\ UNCHANGED <<processVars, pool, using, idle, cut, lock, stage, todo, input, tries,
                 connected, dbVars>>

(* Because nobody would ever give it one, or because all are in use.       *)
ConnectTimeout == (pool # "open" \/ ~ dbUp) /\ \E i \in DOMAIN waiting : TimesOut(i)
QueueTimeout == Cardinality(using) = poolMax /\ \E i \in DOMAIN waiting : TimesOut(i)

(* The connection of a query has broken: the query fails.                  *)
Broken(j) ==
  /\ j \in using \cap cut
  /\ AnswerFailed(j[1])
  /\ Release(j)
  /\ UNCHANGED <<processVars, pool, waiting, stage, todo, input, tries, connected, dbVars>>

(* A query is answered and its client given back; the last of its stage    *)
(* lets the handler go on, to the next stage or to its answer.             *)
Complete(r, j) ==
  /\ Release(j)
  /\ \/ /\ ~ Open(r)
        /\ UNCHANGED <<stage, todo, waiting, status, buffered>>
     \/ /\ Open(r) /\ todo[r] # {j}
        /\ todo' = [todo EXCEPT ![r] = @ \ {j}]
        /\ UNCHANGED <<stage, waiting, status, buffered>>
     \/ /\ Open(r) /\ todo[r] = {j} /\ stage[r] < Len(Script(input[r].use))
        /\ Enter(r, input[r].use, stage[r] + 1)
     \/ /\ Open(r) /\ todo[r] = {j} /\ stage[r] = Len(Script(input[r].use))
        /\ Finish(r, 200)
        /\ UNCHANGED <<stage, todo, waiting>>

Read(j) ==
  /\ j \in using \ cut /\ Stage(j[1]) # "write"
  /\ Complete(j[1], j)
  /\ UNCHANGED <<processVars, pool, input, tries, connected, dbVars>>

(* A transaction waits for the lock, its client in hand.                   *)
TakeLock(j) ==
  /\ j \in using \ cut /\ Stage(j[1]) = "write" /\ lock = Nobody
  /\ lock' = j
  /\ tries' = [tries EXCEPT ![j[1]] = @ + 1]
  /\ UNCHANGED <<processVars, pool, waiting, using, idle, cut, stage, todo, status,
                 input, connected, buffered, dbVars>>

(* It commits, or rolls back for good.                                     *)
EndWrite(j) ==
  /\ lock = j /\ j \in using \ cut
  /\ Complete(j[1], j)
  /\ UNCHANGED <<processVars, pool, input, tries, connected, dbVars>>

(* 23P01: it rolls back, gives its client back, and the loop asks for one  *)
(* again, behind everyone who waits.                                       *)
Retry(j) ==
  /\ lock = j /\ j \in using \ cut /\ Open(j[1])
  /\ tries[j[1]] < MaxTries /\ input[j[1]].use # "cancel"
  /\ Release(j)
  /\ Enter(j[1], input[j[1]].use, stage[j[1]])
  /\ UNCHANGED <<processVars, pool, input, tries, connected, dbVars>>

-----------------------------------------------------------------------------
(* The database fails: what was connected is not any more, and the pool    *)
(* emits 'error' for every idle client.  Mutant: without the listener.     *)
IdleErrorThrown(n) == exit' = IF n > 0 THEN "crashed" ELSE exit
IdleError(n) == UNCHANGED exit

DbFails ==
  /\ dbUp /\ outages < MaxOutages
  /\ dbUp' = FALSE /\ outages' = outages + 1
  /\ cut' = using /\ idle' = 0 /\ lock' = Nobody
  /\ IdleError(idle)
  /\ UNCHANGED <<main, down, caught, server, poolMax, pool, waiting, using, requestVars>>

DbRecovers ==
  /\ ~ dbUp /\ dbUp' = TRUE
  /\ UNCHANGED <<processVars, poolVars, requestVars, outages>>

-----------------------------------------------------------------------------
(* The end.                                                                *)

Begin(n) ==
  /\ server' = IF Closing[n] = "server" THEN "closing" ELSE server
  /\ IF Closing[n] = "db" THEN EndPool ELSE UNCHANGED pool

(* A signal at a process without its listener (any more) kills it; the     *)
(* first caught begins the shutdown, and another kind changes nothing.     *)
Signal(s) ==
  IF main = "boot" \/ s \in caught
  THEN Dies("killed") /\ UNCHANGED <<main, down, caught, server, poolMax, dbVars>>
  ELSE /\ caught' = caught \cup {s}
       /\ IF down = 0 THEN down' = 1 /\ Begin(1) ELSE UNCHANGED <<down, server, pool>>
       /\ UNCHANGED <<main, exit, poolMax, waiting, using, idle, cut, lock, requestVars, dbVars>>

(* app.close() resolves when no connection has a request on it, closeDb    *)
(* when the pool has ended; telemetry.shutdown() exports what is buffered. *)
Awaited(what) ==
  CASE what = "server"    -> \A r \in Requests : Open(r) => ~ connected[r]
    [] what = "db"        -> pool = "ended"
    [] what = "telemetry" -> TRUE

CloseNext ==
  /\ down > 0 /\ Awaited(Closing[down])
  /\ buffered' = IF Closing[down] = "telemetry" THEN {} ELSE buffered
  /\ IF down < Len(Closing)
     THEN down' = down + 1 /\ Begin(down + 1) /\ UNCHANGED exit
     ELSE exit' = "0" /\ UNCHANGED <<down, server, pool>>
  /\ UNCHANGED <<main, caught, poolMax, waiting, using, idle, cut, lock, stage, todo,
                 input, tries, status, connected, dbVars>>

(* listen() rejects: the pool is ended, then telemetry, then exit 1.       *)
ListenFails ==
  /\ main = "listening"
  /\ main' = "refused" /\ EndPool
  /\ UNCHANGED <<down, caught, exit, server, poolMax, waiting, using, idle, cut, lock,
                 requestVars, dbVars>>

GiveUp ==
  /\ main = "refused" /\ pool = "ended"
  /\ Dies("1")
  /\ UNCHANGED <<main, down, caught, server, poolMax, dbVars>>

(* Something closed on either path rejects.                                *)
CloseRejects ==
  /\ down > 0 \/ main = "refused"
  /\ Dies("1")
  /\ UNCHANGED <<main, down, caught, server, poolMax, dbVars>>

-----------------------------------------------------------------------------
(* What Node and PostgreSQL go on with unasked.                            *)
Progress ==
  \/ Boot \/ Listen \/ ListenFails \/ PoolEnds \/ CloseNext \/ GiveUp \/ Grant \/ ConnectTimeout
  \/ \E j \in Jobs : Broken(j) \/ Read(j) \/ TakeLock(j) \/ EndWrite(j)

Next ==
  \/ /\ Running
     /\ \/ Progress \/ QueueTimeout \/ DbFails \/ DbRecovers \/ CloseRejects
        \/ \E j \in Jobs : Retry(j)
        \/ \E r \in Requests : Arrive(r) \/ Disconnect(r)
        \/ \E s \in Signals : Signal(s)
  \/ ~ Running /\ UNCHANGED vars

Spec == Init /\ [][Next]_vars

FairSpec == Spec /\ WF_vars(Running /\ Progress)

-----------------------------------------------------------------------------
(* Properties.                                                             *)

(* Every variable holds a value of its type.                               *)
TypeOK ==
  /\ main \in {"boot", "listening", "serving", "refused"}
  /\ down \in 0 .. Len(Closing) /\ caught \subseteq Signals
  /\ exit \in {"none", "0", "1", "killed", "crashed"}
  /\ server \in {"open", "closing"} /\ pool \in {"open", "ending", "ended"}
  /\ poolMax \in Nat /\ idle \in Nat /\ outages \in 0 .. MaxOutages
  /\ waiting \in Seq(Jobs) /\ using \subseteq Jobs /\ cut \subseteq using
  /\ lock \in using \cup {Nobody}
  /\ \A r \in Requests : input[r] \in Inputs[r] \cup {NoInput}
  /\ stage \in [Requests -> 0 .. 5] /\ todo \in [Requests -> SUBSET Jobs]
  /\ tries \in [Requests -> 0 .. MaxTries]
  /\ status \in [Requests -> {0, 200, 400, 404, 500, 503}]
  /\ connected \in [Requests -> BOOLEAN] /\ dbUp \in BOOLEAN
  /\ buffered \subseteq Requests

(* A shutdown takes the pool from nobody who still waits for an answer:    *)
(* until the server has drained, closeDb does not begin (shutdown).        *)
PoolOutlivesRequests ==
  pool # "open" => \A r \in Requests : Open(r) => ~ connected[r]

(* Exit code 0 means that nothing was cut short: no query is under way, in *)
(* a request whose client has gone or that was answered early included,    *)
(* and every span that ended has been exported (shutdown).                 *)
CleanExitLosesNothing ==
  exit = "0" => using = {} /\ lock = Nobody /\ buffered = {}

(* Only its configuration, its port and signals end the process, never the *)
(* database (db.ts: connectivity is reported by /health, not by a crash).  *)
OutlivesDatabase ==
  [][exit' # exit => main \in {"boot", "refused"} \/ caught # {}]_vars

(* Every request the server takes is answered, the pool of one client, a   *)
(* pair of reads that ask for two, attempts that wait for each other's     *)
(* lock client in hand, and outages notwithstanding, and without anybody's *)
(* having to time out in the queue (createPool, runAttemptLoop).           *)
EveryoneIsAnswered ==
  \A r \in Requests : Open(r) ~> (status[r] # 0 \/ ~ Running)

(* A signal ends the process, whatever it was doing: starting, listening   *)
(* in vain, serving, with or without a database (shutdown).                *)
SignalEnds == (caught # {}) ~> ~ Running
=============================================================================
