------------------------------ MODULE Evidence ------------------------------
(***************************************************************************)
(* What the gate of one slice, Own, judges it by: the commits, the CI runs *)
(* over them, Stryker's report, and the collectors that bring the last two *)
(* into the log (tools/team-log/collect-ci.mjs, collect-mutation.mjs).     *)
(*                                                                         *)
(* A CI run is the workflow verify.yml: the job verify, the job test, whose*)
(* tools/ci/run-tests.mjs runs the Vitest projects one after the other and *)
(* merges their reports, and the job red-proof (tools/ci/red-proof.mjs).   *)
(* Runs end in any order, may be cancelled before their jobs start, may be *)
(* run again under the same id, and are collected whenever somebody thinks *)
(* of it.                                                                  *)
(*                                                                         *)
(* Bounds: MaxCommits commits on top of the root, MaxRuns CI runs, each    *)
(* attempted MaxAttempts times.                                            *)
(***************************************************************************)
EXTENDS TeamLog

CONSTANTS
  Own,          \* the slice whose gate it is
  ArcFiles,     \* section files of arc42
  SrcFiles,     \* files Stryker can mutate
  Deltas,       \* what a commit may change, and its subject
  Outcomes,     \* how the jobs of a CI run may end
  Reports,      \* what Stryker's report may hold
  Threshold,    \* the score a changed file has to reach
  MaxCommits, MaxRuns, MaxAttempts

VARIABLES
  commits,     \* the commits made, in order; the first is the root
  head, main,  \* the commit checked out, and the one main is at
  runs,        \* the CI runs, in the order they were started
  report       \* what Stryker's report on disk says of each file

evidenceVars == <<commits, head, main, runs, report>>

ASSUME OwnAssumption == Own \in Slices
ASSUME ScoreAssumption == Threshold \in Int /\ Reports \subseteq [SrcFiles -> Int]

(* What Stryker says of a file it has no counted mutant of.                *)
NoScore == -1

EvidenceInit ==
  /\ commits = <<[parent |-> 0, history |-> {1}, own |-> FALSE, red |-> FALSE,
                  hand |-> [f \in ArcFiles |-> 0], generated |-> [f \in ArcFiles |-> 0],
                  src |-> [f \in SrcFiles |-> 0]]>>
  /\ head = 1 /\ main = 1
  /\ runs = <<>>
  /\ report = [f \in SrcFiles |-> NoScore]

-----------------------------------------------------------------------------
(* git.                                                                    *)

(* A commit stands for its whole history, itself included.                 *)
Ancestors(c) == commits[c].history

IsAncestor(c, d) == c \in Ancestors(d)
Youngest(C) == CHOOSE c \in C : \A d \in C : d <= c
MergeBase == Youngest(Ancestors(main) \cap Ancestors(head))

(* A commit flips the contents it touches: a second flip is a revert.      *)
Flip(contents, touched) == [f \in DOMAIN contents |-> IF f \in touched THEN 1 - contents[f]
                                                      ELSE contents[f]]

(* Delta: whether its subject is scoped to the slice and marked red, the   *)
(* sections edited by hand and regenerated, the sources touched.           *)
Commit(d) ==
  LET c == commits[head]
      new == Len(commits) + 1
  IN  /\ Len(commits) <= MaxCommits
      /\ commits' = Append(commits,
           [parent |-> head, history |-> c.history \cup {new}, own |-> d.own, red |-> d.red,
            hand |-> Flip(c.hand, d.hand), generated |-> Flip(c.generated, d.generated),
            src |-> Flip(c.src, d.src)])
      /\ head' = new
      /\ UNCHANGED <<main, runs, report, logVars>>

(* The last commit of the branch is taken back, as an amend does.          *)
Rewind ==
  /\ head # MergeBase /\ head' = commits[head].parent
  /\ UNCHANGED <<commits, main, runs, report, logVars>>

Merge ==
  /\ head # MergeBase /\ main' = head
  /\ UNCHANGED <<commits, head, runs, report, logVars>>

-----------------------------------------------------------------------------
(* The jobs of a CI run.                                                   *)

(* A project ran if its report holds a file.  files: the directories a     *)
(* file failed in; tests: those a test failed in, which is less when a     *)
(* file could not be loaded.                                               *)
Projects == {"nodb", "db", "perf"}

Merged(o) ==
  LET ran == {p \in Projects : o.tests[p].ran}
  IN  [didNotRun |-> Projects \ ran,
       files |-> UNION {o.tests[p].files : p \in ran},
       tests |-> UNION {o.tests[p].tests : p \in ran}]

ExitCodeFor(m) ==
  CASE m.didNotRun # {} -> 2
    [] m.didNotRun = {} /\ m.tests # {} -> 1
    [] OTHER -> 0

(* The shape of a red commit's failure.                                    *)
Judge(red, verify, failed) ==
  red => verify = "success" /\ "unit" \notin failed /\ "zone" \in failed

JobNames == {"verify", "test", "red-proof"}

(* The conclusion of each job of a run that ended as o on commit c; none   *)
(* if the run was cancelled before they started.                           *)
Conclusions(o, c) ==
  IF ~ o.started THEN <<>>
  ELSE [j \in JobNames |->
          CASE j = "verify"    -> o.verify
            [] j = "test"      -> IF ExitCodeFor(Merged(o)) = 0 THEN "success" ELSE "failure"
            [] j = "red-proof" -> IF Judge(commits[c].red, o.verify, Merged(o).files)
                                  THEN "success" ELSE "failure"]

ConclusionOf(jobs) ==
  CASE jobs = <<>> -> "cancelled"
    [] jobs # <<>> /\ (\A j \in DOMAIN jobs : jobs[j] = "success") -> "success"
    [] OTHER -> "failure"

Push ==
  /\ Len(runs) < MaxRuns
  /\ runs' = Append(runs, [commit |-> head, status |-> "in_progress", ended |-> {}])
  /\ UNCHANGED <<commits, head, main, report, logVars>>

(* A run says how its last attempt ended; ended: all that did.             *)
Finish(i) ==
  /\ runs[i].status # "completed"
  /\ \E o \in Outcomes :
       LET jobs == Conclusions(o, runs[i].commit)
           attempt == [run |-> i, commit |-> runs[i].commit, at |-> clock + 1,
                       conclusion |-> ConclusionOf(jobs)]
       IN  runs' = [runs EXCEPT ![i] =
             [commit |-> @.commit, status |-> "completed", updatedAt |-> attempt.at,
              outcome |-> o, jobs |-> jobs, conclusion |-> attempt.conclusion,
              ended |-> @.ended \cup {attempt}]]
  /\ clock' = clock + 1
  /\ UNCHANGED <<commits, head, main, report, log, file, edits>>

(* Somebody has GitHub run a run again: it keeps its id.                   *)
Rerun(i) ==
  /\ runs[i].status = "completed" /\ Cardinality(runs[i].ended) < MaxAttempts
  /\ runs' = [runs EXCEPT ![i] = [commit |-> @.commit, status |-> "in_progress",
                                  ended |-> @.ended]]
  /\ UNCHANGED <<commits, head, main, report, logVars>>

-----------------------------------------------------------------------------
(* collect-ci.                                                             *)

PassFail(conclusion) == IF conclusion = "success" THEN "PASS" ELSE "FAIL"

(* What the gate reads of the jobs.  A run that did not succeed says FAIL  *)
(* somewhere, if need be under the workflow's own name.                    *)
(* Mutant: only the jobs are asked.                                        *)
JobsAsSaid(run) == [j \in DOMAIN run.jobs |-> PassFail(run.jobs[j])]
JobsOf(run) ==
  LET said == [j \in DOMAIN run.jobs |-> PassFail(run.jobs[j])]
  IN  IF run.conclusion # "success" /\ (\A j \in DOMAIN said : said[j] # "FAIL")
      THEN Filled([workflow |-> "FAIL"], said) ELSE said

DepcruiseOf(run) ==
  CASE ~ run.outcome.started -> "not-run"
    [] run.outcome.started -> IF run.outcome.layering = "success" THEN "pass" ELSE "fail"

RedProofOf(run) ==
  IF "red-proof" \notin DOMAIN run.jobs THEN "not-applicable" ELSE run.jobs["red-proof"]

(* A record's time is the run's, not that of its collection.               *)
ToCheckRunRecord(i) ==
  LET run == runs[i]
  IN  [ts |-> run.updatedAt, slice |-> Own, event |-> "check_run", source |-> "derived",
       checks |-> [run_id |-> i, head_sha |-> run.commit, conclusion |-> run.conclusion,
                   depcruise |-> DepcruiseOf(run), red_proof |-> RedProofOf(run),
                   jobs |-> JobsOf(run)]]

Has(i, field) == "checks" \in DOMAIN log[i] /\ field \in DOMAIN log[i].checks

(* A run is known by its id alone, whoever wrote it down and of whichever  *)
(* slice: by hand, or at an earlier attempt.                               *)
SaysRun(i) == log[i].event = "check_run" /\ Has(i, "run_id")
Known == {log[i].checks.run_id : i \in {j \in DOMAIN log : SaysRun(j)}}

(* The completed runs of I the log does not know, oldest first.            *)
Fresh(I) == {i \in I : runs[i].status = "completed"} \ Known
InOrder(I) ==
  {q \in [1 .. Cardinality(I) -> I] :
     \A m, n \in DOMAIN q :
       m < n => q[m] # q[n] /\ runs[q[m]].updatedAt <= runs[q[n]].updatedAt}

CollectCi(I) ==
  /\ Fresh(I) # {}
  /\ \E q \in InOrder(Fresh(I)) :
       AppendRecords([n \in DOMAIN q |-> ToCheckRunRecord(q[n])], TRUE)
  /\ UNCHANGED <<evidenceVars, file, edits>>

-----------------------------------------------------------------------------
(* Stryker and collect-mutation.                                           *)

(* Every run of Stryker, file-scoped or whole, overwrites the report.      *)
Stryker ==
  /\ \E r \in Reports : r # report /\ report' = r
  /\ UNCHANGED <<commits, head, main, runs, logVars>>

ChangedFiles == {f \in SrcFiles : commits[MergeBase].src[f] # commits[head].src[f]}
Measured == {f \in ChangedFiles : report[f] # NoScore}

(* The aggregate is there, but no row reads it where the rest is.          *)
ToChecks ==
  [mutation_score |-> None,
   mutation_per_file |-> [f \in Measured |-> report[f]],
   mutation_below_threshold |-> {f \in Measured : report[f] < Threshold},
   mutation_measures_changed_files |-> Measured # {}]

(* A report that covers some of the changed files is refused, or recorded  *)
(* as partial.  Mutant: it is recorded like any other.                     *)
RefusedNever(allowPartial) == FALSE
Refused(allowPartial) == Measured # ChangedFiles /\ ~ allowPartial

CollectMutation(allowPartial) ==
  LET partial == Measured # ChangedFiles /\ allowPartial
      checks  == IF partial THEN Filled(ToChecks, [mutation_report_partial |-> TRUE]) ELSE ToChecks
  IN  /\ ChangedFiles # {} /\ ~ Refused(allowPartial)
      /\ AppendRecords(<<[event |-> "check_run", slice |-> Own, source |-> "derived",
                          checks |-> checks]>>, TRUE)
      /\ UNCHANGED <<evidenceVars, file, edits>>
=============================================================================
