# The service scheduler in TLA+

A TLA+ model of the Keyloop service scheduler (`src/`): a Node service that books,
reschedules, cancels and reads workshop appointments in PostgreSQL. An appointment
occupies one service bay and one technician qualified for its service type, over a
half-open interval derived from the requested start and the service type's duration.
No two uncancelled appointments may share a bay or a technician over overlapping
intervals; that is the system's central promise, and the database keeps it by two
exclusion constraints.

The repository also holds the tools its team works with: a log of what was decided and
done, collectors that write derived records into it, and a gate that computes from it
whether a unit of work (a slice) is done. They are stateful programs over shared files, git
and CI, and they are modelled too.

Line numbers below are those of the repository; paths are relative to its `src/`.

## 1. Inventory

| Part | State it keeps | Operations | Where it is hard |
| --- | --- | --- | --- |
| `bookAppointment` | none; a request's locals | book | everything it read before the loop is stale inside it |
| `rescheduleAppointment` | none | move | reads the row without a lock, then has to cope with it being moved or cancelled |
| `cancelAppointment` | none | cancel | idempotent, `updated_at` included; races a move for the row lock |
| `attemptLoop` | current pair, candidates left, attempts | one transaction per pair, prune, refuse | its refusals must be honest and its bound must hold |
| `candidates` | none (pure) | order, next, prune | the order may only ever order |
| `appointmentRepository` | the `appointment` table | insert, move, cancel, locks, occupancy read | locks in flight against two pairs at once (ADR-0030) |
| `0003_appointment.sql` | the exclusion indexes | check or wait | two checks, one after the other, each waiting for transactions in progress |
| `pgError` | none (pure) | classify | a deadlock carries no verdict |
| `candidateRepository`, `referenceRepository` | reference tables, read only | reads | constant while the service runs |
| `deriveInterval`, `openingHours`, `interval`, `duration` | none (pure) | derive | clocks that change, midnight, the renderable bound |
| `queryAvailability`, `readAppointment` | none | reads | advisory, stale when used |
| `http/` | none | routes, problems, error handler | retries after a lost answer |
| `db` | the pool: clients in use, idle, queue | connect, release, end | a full pool, its timeout, clients whose connection breaks |
| `main` | `shuttingDown`, two once-listeners | boot, listen, shut down | requests in flight at a signal, a signal while listening |
| `config`, `health` | configuration; none | refuse or accept; ping | every refusal, not the first; a failure that must not escape |
| `logger`, `telemetry` | spans ended and not exported | start, flush | what is lost at an exit |
| `tools/team-log/{schema,write,append}` | `docs/slices`' log, append-only | number, validate, append a batch | a batch that fails half way; destinations that were folded into another slice |
| `tools/team-log/collect-*` | none; they append | collect CI runs, a mutation report | runs that end and are collected in any order, any subset |
| `tools/ci/{run-tests,red-proof}` | none | merge reports, judge a red commit | a project that did not run at all |
| `tools/team-log/audit` | none | compare records with what agents did | agents that stop and are resumed |
| `tools/slice/{check,close}` | slice files, the log, git, prompts, the pull request | compute every row, close | what was true when recorded and is not when read |

How they interact: a route calls one use case and turns its outcome into an answer. The
use case reads reference data, derives the interval, reads candidates, and runs the
attempt loop; the loop opens a transaction per attempt, in which the repository takes the
row lock (a move), the advisory locks of every resource the write is in flight against,
and then writes once. Requests share nothing in the process but the pool; everything they
share is in PostgreSQL. Every `await` is a point where others run. The tools share nothing
with the service; they share the log among themselves, and one tool's record is another
tool's evidence.

What makes each part correct:

* table and constraints: never a double booking, whatever the interleaving;
* the locks: no deadlock, so that `40P01` is an internal fault and not contention;
* the loop: it ends, within its cap and its structural bound; `exhausted` rests on a
  verdict for every candidate of one kind; a refused move leaves the original standing;
* cancel: final and idempotent;
* a request: takes effect at most once, in one step, and says so truthfully;
* the derivation: what is accepted lies within opening hours; what lies within them is
  accepted;
* the process: nothing but its configuration, its port or a signal ends it; a shutdown takes
  the pool from nobody who still waits for an answer, and exits with 0 only if it cut
  nothing short; every request it takes is answered and every signal obeyed;
* the log: every record is valid, one batch appears whole or not at all, and a slice
  that a finding was sent to cannot be done without a word about it. A destination that was
  folded into another slice is refused when it is written; a fold that comes later is not
  followed, and the finding stays owed by a slice nobody works on (section 3);
* the gate: a row that passes on evidence a collector derived is true of the work as it stands
  now, not as it stood when the evidence was collected. Evidence that somebody wrote down by
  hand is believed as it is (section 3).

The hazards behind these, each with its line, are in `PROJECT.json`.

## 2. Modules

| Module | Models | Notes |
| --- | --- | --- |
| `Schedule` | the data: resources, places, intervals, row versions, the two exclusion predicates, the occupancy read | no state; extended by the next two |
| `AppointmentBook` | the promise: each request takes effect at most once, atomically | abstract, no transactions, locks or retries |
| `Scheduler` | book, move and cancel against PostgreSQL | the core |
| `Service` | `Scheduler` behind HTTP statuses, the availability query, clients that repeat a command answered 500 | composes; every step of a write is `Scheduler`'s |
| `Vacancy` | `Scheduler` with a history variable | for one question about refusals |
| `OpeningHours` | `deriveInterval` and all it calls, with a reference definition | pure |
| `Process` | `main.ts`, `db.ts`, `config.ts`, health, and requests as the pool sees them | one life of the process |
| `TeamLog` | the log, its schema, batches, destinations and folds; slice files; `slice:close` | extended by the next |
| `Evidence` | git, CI runs, Stryker, and the two collectors | extends `TeamLog` |
| `Agents` | agents that are dispatched, stop and are resumed; the audit | extends `Evidence` |
| `SliceGate` | every row of `slice:check` | extends `Agents`; composes the four |
| `SchedulerProofs` → `LockProofs` → `LoopProofs` → `BookProofs` | the theorems about `Scheduler` | TLAPS; each extends the one before |
| `ServiceProofs` | the theorems about `Service` | TLAPS; extends `BookProofs` |
| `ProcessProofs` | the theorems about `Process` | TLAPS |
| `OpeningHoursProofs` | the theorems about `OpeningHours` | TLAPS |
| `SliceProofs` | the theorems about `SliceGate` and the modules it extends | TLAPS |
| `MCScheduler`, `MCService`, `MCVacancy`, `MCOpeningHours`, `MCProcess`, `MCSliceGate` | instances for TLC | |

### Scheduler and the code

A request is a process; `pc` says at which `await` it stands.

| `pc` | The code is at | Actions that leave it |
| --- | --- | --- |
| `idle` | the request has not arrived | `Arrive` |
| `advise` | `bookAppointment` before the loop | `Advise`, `AdviseRefused` |
| `find` | `rescheduleAppointment` before the loop | `Find`, `FindRefused` |
| `row` | `lockAppointmentRow`, waiting for `FOR UPDATE` | `LockRow` |
| `keys` | `lockResources`, one key after another; then the write | `LockKey`, `Write`, `NotConfirmed` |
| `bay`, `technician` | inside the `INSERT` or `UPDATE`: that constraint's check | `CheckPass`, `CheckFail` |
| `commit` | the statement is done: foreign keys, then `COMMIT` | `Commit`, `BadReference`, `LoseCommit` |
| `cancel`, `cancelling` | the one `UPDATE` of `cancelAppointmentById`, before and after it | `Cancel`, `CancelMissing`, `Commit`, `LoseCommit` |
| `done` | answered | – |

`CheckFail` is the whole `case 'conflict'` of the loop: log, draw the order on a move's
first conflict or prune, then refuse as `exhausted`, refuse as `capped`, throw at the
structural bound, or open the next attempt, in that order. `Deadlock` is PostgreSQL
aborting a member of a smallest cycle of waits; `Fail` is any other error at any point,
including one the loop rethrows; `LoseCommit` is a commit whose acknowledgement is lost.

The table holds versions of rows. `rev` stands for `updated_at`: it grows exactly when the
statement writes `now()`, so a replayed cancellation that stamped the row would show.
PostgreSQL's exclusion check is modelled as documented in its source's behaviour: a
version's bay entry is inserted and checked, then its technician entry; a clash with a
committed version that nobody is superseding is `23P01`; a clash with a version in
progress, or with one being superseded in progress, waits for that transaction. Two checks
in one transaction are two steps, because others run in between.

Abstractions: the shuffle is any order, drawn as its heads are needed; the free-first
partition is kept. `Commands` fixes for each command what the derivation answers
(`derives`) and whether the vehicle belongs to the customer (`owned`); `OpeningHours`
models the derivation itself. One dealership, since the composite foreign keys keep a
row's resources within its own.

### Service and the code

`Look` is `GET /availability`: the candidates less the occupancy read, in one step because
only the occupancy read depends on anything that changes. `Send` is a first command, of the
interval asked about if the client asked; `Resend` the same command after a 500, a booking
under an id of its own because nothing in it identifies the repetition. `BookStatus`,
`MoveStatus` and `CancelStatus` are the three routes' switches, `Thrown` the error handler.
`view` is the table as the client last knew it: at its query, or at the arrival of its
request. A row's `rev` only grows, so `view[r] = table` says nothing changed in between.

Where the write paths are meant to be exact, `BookingOn`, `MoveOn` and `CancelOn` say what
a search of every pair would answer; they know nothing of order, pruning or attempts.

### OpeningHours and the code

An instant is an integer of milliseconds, a zone is the offset of its clock at each
instant, a local date is its day number. `withinOpeningHours` keeps the code's order of
steps; `deriveInterval` composes it as the code does. The reference definition, `OpenAt`,
never renders an endpoint: it asks of every single instant whether the doors are open.
Left out: local dates before year 1, which the code's successor function is documented to
get wrong in the safe direction.

### Process and the code

| `main` | The composition root is at | Actions that leave it |
| --- | --- | --- |
| `boot` | `loadConfig`, telemetry, the pool, the handlers | `Boot` (to `listening`, or exit 1 with every refused variable) |
| `listening` | `app.listen` pending | `Listen`, `ListenFails` |
| `serving` | the server takes requests | – (the end is `down`, below) |
| `refused` | `listen` rejected: `closeDb`, telemetry | `GiveUp` (exit 1), `CloseRejects` |

`down` counts the awaits of `shutdown()` begun, over `Closing == <<"server", "db",
"telemetry">>`: `Signal` begins the first, `CloseNext` passes from one to the next, and from
the last to exit 0; `CloseRejects` is any of them rejecting. `caught` holds the signals whose
once-listener is used up: a second signal of the same kind, or one before the handlers are
installed, kills the process, and a second kind changes nothing.

A request is its `Script`, the queries of its use case in stages: those of one stage are
awaited together, as `bookAppointment` awaits its two candidate reads. `Arrive` is a request
on an open server, screened (parser, route, schema) or handled, or on a kept-alive
connection of a closing one, answered 503. `Grant` gives the oldest waiter a client of the
pool; `ConnectTimeout` and `QueueTimeout` are the connection timeout, apart because only the
second is something the code cannot count on not happening. `Read`, `TakeLock`, `EndWrite`
and `Retry` are a query, an attempt that waits for a lock with its client in hand, its end,
and the loop's next attempt, which asks for a client again behind everyone who waits.
`DbFails` breaks every connection: a query in use fails (`Broken`), an idle client makes the
pool emit `'error'` (`IdleError`). `Disconnect` is a client that goes away, whose handler
does not notice and whose connection the server no longer waits for.

What the queries say is `Scheduler`'s; here every write contends for the same lock, which is
the worst case for a pool.

### TeamLog, Evidence, Agents, SliceGate and the code

A record is a record of the fields readers look at. `AppendRecords` is `append` for a batch:
defaults, numbers, timestamps and the schema's verdict on every record before the first is
written. `Resolved` follows the folds of a slice file to the slice that took it over, for the
destinations of a record that is being written (`CheckDestinations`); `Went` says where a
finding was last sent, by a ruling or by a routing. `Offered` are the batches people try to
append: the only assumption about them is that each is a list. What their records say is for
the schema to judge, which lets them name a run of CI, a score, a time to come.

A commit knows its parent, whether it belongs to the slice `Own`, whether it is a red one,
and the contents of each arc42 file (by hand and generated apart) and each source file. A CI
run is pushed, ends (`Finish`) with the outcome of its jobs, may be run again under its id
(`Rerun`, after which it shows its last attempt only), and is collected (`CollectCi`) in any
subset and order, once, and not at all if a record of whatever source names its id; `Merged`, `ExitCodeFor` and `Judge` are the report merge, its exit
code and the red proof. `Stryker` and `CollectMutation` are the mutation report and its
collector, with and without `--allow-partial`. An agent is dispatched with a captured prompt,
stops, writing a record, and may be resumed; `AuditClean` is the four lists of the audit.

`SliceGate` has one operator for each row of the Definition of Ready and of the Definition of
Done, named after it, with the values `PASS`, `FAIL`, `UNVERIFIED` and `N/A` that `check.mjs`
prints, and `AllChecksPass`, its verdict. `sees` is what the checkout offers: git, `gh`, a
test script, a layering configuration.

## 3. What is checked

Three requests over two bays, two technicians and two stored appointments are the smallest
instance in which two movers rotate resources while a third request interferes, in which
pruning one list and then the other happens, and in which a request waits for someone who
waits. Slots are three: two that overlap and two that touch. With more than one pair free
and more than one candidate of each kind, a wrong prune leaves a pair untried.

| Run | Question | Bounds |
| --- | --- | --- |
| `moves` | types, no deadlock, honest `exhausted`; is a booking refused while a pair is free (QS-3)? | 3 requests of every kind, cap 3, three starting tables |
| `nolocks` | without the advisory locks, is anything but deadlock freedom lost; does `Scheduler` still implement `AppointmentBook`? | as `moves` with two of the tables, `UseLocks = FALSE` |
| `faults` | all of it, the abstract book included, with a failing statement or a lost acknowledgement, colliding hashes, rejected and unowned commands; every request is answered; the loop's bound | 2 requests of every kind, cap 16, 1 fault |
| `service` | is contention ever a 500; is an undisturbed request decided as a search of every pair would; does availability agree with booking; does a repeated move stay in place? | 2 clients, one repetition, every kind of command, 1 fault, cap 16 |
| `hours` | do two rendered endpoints say what every instant would? | 6 days of 8 ticks, clocks changed once |
| `process` | what may a shutdown cut short; what ends the process; is every request answered and every signal obeyed? | 3 requests, pools of 1 and 2 clients, 2 attempts, 1 outage, 1 client that may leave |
| `slices` | does a row that passes tell the truth, whatever is deferred, folded, collected, committed or taken back in whatever order? | 6 topics, each to its own depth (below) |
| `capped` | violation, see below | cap 1 |
| `spurious` | violation | cap 16 |
| `setback` | violation | 24 ticks a day, clock set back by one |
| `subsecond` | violation | steady clock, two ticks a second |
| `unlogged` | violation | two agents of one role |

`faults` runs with the shipped cap, above the structural bound, so that the throw the code
calls unreachable would be reached if it could be. `service` adds a service that
only one technician is qualified for, so that bays and technicians run out separately.
`moves` uses symmetry over requests; `faults` checks liveness and uses none. `moves` reaches
about 820 000 states, `service` 827 000, `slices` 433 000, `process` 224 000.

`process` takes a booking, whose two candidate reads want two clients of a pool that may have
one, a cancellation and a third request that is a health check, a move or nothing the server
routes; two writes and a pool of one make the queue and the lock wait for each other.

`slices` looks at one topic in each behaviour, because rows that read different evidence do
not interact and their product is out of reach: `obligations` (deferrals, routings, folds
over four slices, one finding), `gate` (a slice that is done but for its light gate, and what
may still be said or committed), `history` (hand edits, generated edits, reverts, a merge),
`tests` (two runs that end, are run again once and are collected in any order, one of them perhaps
cancelled or with a job that did not do its work, beside records of runs written by hand: of
a run that will be collected, of one that never was, of a commit not in history, of the
future), `mutation` (two files, three scores, a part or the whole of the report, and scores
typed by hand, with and without `mutation_per_file`), `dispatch` (two roles, agents that are
resumed, and ends written by hand, in a span of their own or in another's).
`MaxTime` is how far a record's time may lie from the beginning, past or future; 30 is
beyond the clock of any behaviour of the run.
The team may stop at any point, so the run does not look for deadlocks.

Every property has a mutant in `PROJECT.json`: a change of one mapped definition, such as
dropping the guard on status, pruning the pair instead of the resource, ignoring the pair a
move leaves, closing the pool before the server, or recording a CI run as its jobs alone say, which a
cancelled run does not have, that the run must catch.

**Fairness.** `FairSpec` assumes weak fairness of each request's own steps: Node resumes a
settled promise, and PostgreSQL grants a lock that stays free and detects deadlocks
(`deadlock_timeout`). Nothing is assumed of arrivals or failures. Locks are granted to some
waiter, with no order among waiters; requests are finitely many, so nobody starves.
`Process` has one weak fairness condition, on `Running /\ Progress`: Node's event loop and
PostgreSQL go on with something they can do. Progress excludes arrivals, disconnections,
signals, outages, recoveries, retries and timeouts in a queue that moves, of which nothing is
assumed: requests are answered without any of these. It includes the timeout of a query
nobody would ever serve, because its timer runs out by itself. `SliceGate` states no
liveness: nobody is obliged to work.

**Evidence written by hand.** The gate reads a record of a CI run whatever its source
(`tools/slice/check.mjs:382`), and `collect-ci.mjs:343-352` skips a run whose id any record
names. So one record by hand makes *tests green* pass on nothing CI did, or serves *test-first
proven* as its red or its green run, and keeps the run's own record out of an append-only log
for good. This has happened:
`docs/arc42/11-risks-technical-debt.md:97-102` (D-16-5, from `O-16-4` and `O-16-5`) and
`docs/slices/18-collector-dedupe-by-run-and-source.md:15-19` tell of it, and AC-1 and AC-2 of
slice 18, which is not built at this commit, are the remedy. The model has the code as it
is: such records are offered, and the `slices` run reaches both rows passing on them, and the
light gate open. The three properties about CI therefore say what is left, and say it by name:
`GreenCoversTheWork` of a row that goes by the collector's record, `RedCameFirst` of a slice
all of whose run records are the collector's, and `LightGateIsEarned` accordingly. Without
those conditions each is violated, which is D-16-5 and nothing new, hence no run of its own.

Three more limits of these rows are in the model and hold by no property. A run that was
cancelled counts as the red run, because a run that did not succeed is recorded as failing
(`collect-ci.mjs:153`): `RedCameFirst` says "without success", not "failed a test". A run that
is run again keeps its id, so the second outcome is never collected and the row may go by an
attempt that has since been superseded: the properties speak of the attempts that were
collected. And a fold after a deferral leaves the finding with the tombstone
(`tools/lib/deferrals.mjs:153`): `SentIsSpokenOf` holds the slice named, not its successor.

`MutationPassIsWhole` speaks of the collector's records too. `check.mjs:522-524` says of
`mutation_per_file` that no one typed it; nothing in the schema sees to that, and records in
which it is typed are offered.

`slice:check` also measures undeclared edits against the merge base rather than the slice's
first commit; D-14-4 (`docs/arc42/11-risks-technical-debt.md:54-57`) records what that costs,
and `MergeBase` has it as it is. The comment at `check.mjs:246-248` says that no git is
`UNVERIFIED`; without git the list of the slice's commits is empty, and the row is `N/A`, as
it is for a slice without commits (`CorrespondenceRow`).

### Where code and documents disagree

* `capped`: the 409 of a request refused at the attempt cap says that every candidate was
  already occupied (`src/http/routes/appointments.ts:238` and `:430`); most were never tried.
* `spurious`: `docs/arc42/11-risks-technical-debt.md:182` says an `exhausted` refusal cannot
  be spurious. Its verdicts were given at different instants: a cancellation between two
  attempts frees a resource already pruned, and the request is refused although some pair
  was free at every instant. For bookings alone, where occupancy only grows, the claim
  holds: `NoSpuriousRefusal`, which the `moves` run checks and `RefusalsHonest` proves.
* `setback`: ADR-0001 has the whole derived interval within opening hours; the code
  compares its ends, which is not enough when the clock is set back in between.
* `subsecond`: the same, when a start carries a fraction of a second: the end is rendered
  to the second and may pass closing time by less than one.
* `unlogged`: a comment of `tools/slice/check.mjs:712` says that an unaccounted capture fails
  the slice whether or not anyone reports it. Prompts are accounted for by role and number
  (`:733`), and a resumed agent's second record takes the next number without a prompt, so
  it accounts for the prompt of another agent that never wrote a record.

The `hours` run shows that `setback` and `subsecond` are the only ways: to the second, and while the clock
is not set back, accepted intervals are open throughout; and an interval that is open
throughout is accepted unless the clock changes at the very instant it ends.

## 4. What is proved

The theorems hold for all constants that satisfy the assumptions of the modules: any set of
requests, ids, slots and services, any finite sets of bays and technicians, any hashes of
four bytes, any cap, any number of faults, with and without the locks where the statement
does not say; any clocks, hours and durations; any environment, requests and outages; any
slices, findings, commits, CI runs and agents. Every safety property that a passing run checks
is a theorem.

| Module | Theorems | Property |
| --- | --- | --- |
| `SchedulerProofs` | `TypeCorrect`, `NeverDoubleBooked`, `Invariance` | `TypeOK`, `NoDoubleBooking` |
| `LockProofs` | `LocksHeld`, `CancelFinal`, `DeadlockFree` | `CancelledIsFinal`, `NoDeadlock` |
| `LoopProofs` | `LoopEnds`, `ExhaustedProven`, `RefusalsHonest` | `LoopBounded`, `ExhaustedIsProven`, `NoSpuriousRefusal` |
| `BookProofs` | `AllQualified`, `Refinement` | `ImplementsBook` |
| `ServiceProofs` | `WritesAreSchedulers`, `NeverContention`, `StaysInPlace` | `ContentionIsNever500`, `RepeatedMoveStays` |
| | `DecidedAsAlone`, `OffersHold` | `DecidesAsAlone`, `OfferHolds` |
| `ProcessProofs` | `PoolOutlives`, `CleanExit`, `Outlives`, `Types` | `PoolOutlivesRequests`, `CleanExitLosesNothing`, `OutlivesDatabase`, `TypeOK` |
| `OpeningHoursProofs` | `DerivedIsInOpeningHours`, `OpeningHoursAreDerived` | `DerivedIsOpenToTheSecond`, `OpenIsDerived` |
| `SliceProofs` | `Types`, `AuditDoesNotCryWolf` | `TypeOK`, `HonestLogIsClean` |
| | `GreenIsOfTheWork`, `RedBeforeGreen` | `GreenCoversTheWork`, `RedCameFirst` |
| | `NothingSentIsDropped`, `LightGateEarned` | `SentIsSpokenOf`, `LightGateIsEarned` |
| | `UndeclaredEditIsKept`, `PassingScoresAreWhole` | `UndeclaredEditStays`, `MutationPassIsWhole` |

What is assumed of constants is what the code or its platform gives: `DurationAssumption`, that
a duration is an integer of minutes or what `serviceDuration` refuses; `EnvironmentAssumption`
and `InputAssumption`, that a variable of the environment is absent, a number or another word
and a request is to a route or to none; `BoundsAssumption`, that a write is tried and the
database may be down at the start; `OfferedAssumption`, `ScoreAssumption`,
`SlackAssumption` and `MaxTimeAssumption`, that a batch is a list, a score an integer, the
audit's tolerance not negative and the bound on times a number. Nothing is assumed of what the
records of a batch say.

**Double booking.** `NoDoubleBooking` does not follow from itself. What makes it hold is a
fact about versions in flight: a transaction that has passed the check of a constraint
conflicts there neither with a committed row nor with another version that has passed it. The
inductive invariant is therefore

    IInv == TypeOK /\ PhaseOK /\ PassedApart /\ PassedClear /\ NoDoubleBooking

`PhaseOK` ties a request's phase to what it has: a written version from the first check on,
a stored row under every move and cancellation past its read. `PassedApart` keeps two
versions that have passed the same check apart; `PassedClear` keeps a passed version clear
of committed rows. `CheckPass` establishes both for its version, because the check saw
neither a committed clash nor one in progress; `Commit` uses both to keep the committed
table conflict-free; every other step only removes versions or leaves them. The proof has
one lemma per step that can disturb a part and one per part for those that cannot. The
advisory locks are used nowhere: double booking is the constraints' business alone
(ADR-0036), and the theorem says so for `UseLocks = FALSE` too.

**Locks.** `LockInv` adds that a row and an advisory key have one holder at a time, that a
new row's id is its request's own, that a version in flight is what its statement makes of
the row as stored, and that a transaction takes its keys in ascending order, all before it
writes, and keeps them. `CancelFinal` follows: the guard on the status, true when the `UPDATE`
read the row, is true when it commits, because nobody else could commit the row in between.

`DeadlockFree` is the argument the code's comments make, step by step. Suppose a set of
requests each of which waits for another of the set. A request inside an exclusion check
waits for a writer that it conflicts with; they share a bay or a technician, hence a key,
which both would hold: so nobody in the set is in a check. A request that waits for a row
waits for a holder that is past its own row lock, hence waits for a key. Whoever waits for a
key waits for a request that also waits for a key, and a later one in the order: hashes are
bounded, so the last key anybody waits for contradicts itself. That the locks
cover the pair a move leaves as well as the one it takes (ADR-0030) is what the first step
rests on; colliding hashes do no harm, since the order is on hashes.

**The loop.** `LoopInv` counts: attempts made plus candidates left never exceed the bound, a
move's first conflict excepted. The throw for the structural bound is therefore unreachable.
What has been pruned has a conflict in the log (`ExhaustedProven`), and a resource that
conflicted during a booking is still busy while there are only bookings, for whom the table
only grows (`RefusedIsBusy`, `RefusalsHonest`).

**Refinement.** `BookProofs` maps a state of `Scheduler` to one of `AppointmentBook` (the
committed table and the answers) and shows that `Init` maps to its `Init` and each action to
one of its actions or to a stutter. Only `Commit`, `LoseCommit` and the refusals map to
something. It needs `AllQualified`, since the abstract book only ever books qualified pairs,
and that a request in progress has no answer yet.

**The service.** Every step of `Service` is one of `Scheduler` or changes none of its
variables, so the invariants carry over. Each answer given without a fault is then among
those its route has a status for: `DeadlockFree` rules out `no-verdict`, `LoopEnds` the
throw. For a repeated move, `rev` only grows, so a row that is now what the client saw has
been that all along (`SeenBefore`); the pair tried is therefore the row's own
(`TriesItsOwn`), and `NoDoubleBooking` says that nothing committed clashes with it.

That a request decided on an unchanged table is decided as a search of every pair would decide
it has two halves. A commit is right because the pair it stores is one a search would find:
`PassedClear` keeps it clear of other rows, and `AllQualified` makes it a pair of candidates.
A refusal as exhausted is right because every candidate of some kind has been refused
(`Pruned`), and whatever was refused is busy with another row: not for ever, since rows are
moved and cancelled, but as long as the table is what it was when the client learned of it
(`StillBusy`). That it has been that in between, and did not change and change back, is
`SeenBefore` again. Both halves speak of the table without the request's own row, which is
what makes a move indifferent to the pair it leaves. `OffersHold` adds that an attempt's pair
is of those offered (`Offered`): the first one is, because the order puts free candidates
first and nothing changed, and no check fails on it, so it is also the last. `ClientInv`
puts these together. Both theorems assume the locks, since without them a request may be
decided by a deadlock; `DecidesAsAlone` leaves out answers at the attempt cap (`capped`), which
the run of that name shows to be no verdict on the table.

**The process.** The invariant of `ProcessProofs` says that there is no request before the
server listens; that once the pool has ended nobody has a client; that a shutdown began with
a signal and comes to telemetry after the pool has ended; and the two invariants proved
themselves. The second and the last clause of the third are what `CloseNext` needs to exit
with 0; the first is why ending the pool after a refused port takes it from nobody.
`Outlives`, an action property, rests on the third: no step of the database ends anything.

`Types` needs more than types: that a write is never tried past the cap rests on where every
request is on its script, that no query waits or has a client twice, and that whatever is
under way belongs to the stage its request is at (`TypeInv`).

**Opening hours.** The proof counts milliseconds from the midnight that begins the day of the
start. `Cut` and its companions are the arithmetic of cutting a count into seconds and days;
they give that a rendered endpoint is on the right side of opening and closing exactly when
its count is, because the hours are whole seconds, and that an end on the next date at
midnight counts as the length of the day. `ClockNeverBack` makes every instant between the
endpoints render between them; for the converse, `OpenUntil` is applied to the start and to
the last instant before the end.

**The slice gate.** The gate reads the log and never the CI runs, so what has to be shown is
that the log is true of them. The invariant of `SliceProofs` is

    IInv == Histories /\ Runs /\ Entries /\ Transcripts /\ Scored

`Entries` says of each record that it is valid, and of a derived one that it is not from the
future, that naming a run it has the end, the commit and the outcome of an attempt at that run
(`Vouched`), and that one made by a hook claims no more than its agent's transcript lasts
(`Backed`). Of a record by hand it says nothing but that it is valid: that is why the theorems
about CI carry their conditions on the source of what the row reads. `Histories`, `Runs` and
`Transcripts` are what makes the rest stay: a commit keeps its history whatever is rewound, the
attempts at a run are only added to and each ends at a moment of its own, a transcript only
gets longer and an agent that stopped has its record. An append adds only records that are
true when they are added (`EntriesGrow`), and every other step leaves alone what the records
are about (`EntriesStay`). From there each row's property is about the choice the row makes:
records' times are integers between bounds, so the newest of some exists and is one
(`NewestIs`), and as no two attempts end at the same moment, the newest record, if it is
derived, is that of the last attempt collected, in whatever order they were collected
(`NewestIsLast`). That no two end at the same moment is the model's clock, which every end
advances; GitHub's is cut to the second, and of two runs that end within one the gate takes
the one recorded later.
`UndeclaredEditIsKept` is about two histories: a commit adds itself to the branch's and takes
nothing out, so that what a commit edited stays edited there. In `PassingScoresAreWhole` only the
collector can have appended a derived score (`OnlyCollected`), whatever was offered by hand.

**Only model-checked.** Liveness (`Answered`, `EveryoneIsAnswered`, `SignalEnds`), which the
prover does not do. `OnlyCappedIsSpurious` and the other statements of documents are
false, as the violation runs show.

## 5. Plan

In order, most important first; what is done is marked.

1. `Schedule`, `AppointmentBook`, `Scheduler` with the runs above: done.
2. Theorems about `Scheduler`, every safety property and the refinement: done.
3. `OpeningHours` and its agreement with the reference, by lemmas about division by the
   length of a day: done.
4. `Service`, statuses, availability and a client that retries, over `Scheduler`, and a
   theorem for each property: done.
5. `Process`, the pool under the lock waits of the loop, start and shutdown with requests in
   flight, and its theorems: done.
6. `TeamLog`, `Evidence`, `Agents`, `SliceGate`, with a theorem for each property: done.
7. Candidate lists with the seeded shuffle, shown to implement the sets of `Scheduler`: left.

## 6. Not modelled

Of the service: the bodies and schemas of requests and answers beyond what decides a status,
what spans, logs and metrics say (but for the conflict log and what a shutdown flushes),
migrations as steps, and everything outside `src/`. A booking repeated after a lost answer is
modelled but has no property, since no document promises that it is recognised. PostgreSQL
is modelled by the semantics the code relies on: READ COMMITTED, row locks,
transaction-scoped advisory locks, exclusion constraints that check or wait, foreign keys at
the end of the statement. A crash of the service is, for the table, a failure of every
request in flight; a crash of PostgreSQL keeps committed rows, which is the same. node-postgres'
pool and Fastify's `close` are modelled as `db.ts` and `main.ts` use them.

Of the tools: what an append regenerates (`DEFECTS.md`, `STATUS.md`), `log:query`, the board
and the other renderings, which nothing reads back; the document and architecture lints,
which are stateless passes over text by regular expressions; the seed and the harness scripts,
which fill an empty database and drive the service from outside. The mark `partial` of a
mutation record is written (`collect-mutation.mjs:176`) and read by nobody
(`check.mjs:527`), so `MutationPassIsWhole` excludes records that carry it, by name.
