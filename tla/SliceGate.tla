------------------------------ MODULE SliceGate ------------------------------
(***************************************************************************)
(* slice:check (tools/slice/check.mjs): the rows of the Definition of      *)
(* Ready and of the Definition of Done of a slice, each computed from the  *)
(* log, the slice files, git, the captured prompts and the pull request,   *)
(* while all of them move on.  A row is                                    *)
(*    PASS        verified from an artifact,                               *)
(*    FAIL        verified to be wrong,                                    *)
(*    UNVERIFIED  without evidence either way, which blocks as FAIL does,  *)
(*    N/A         about nothing this slice has.                            *)
(* The rows that read git, prompts or the pull request are those of Own.   *)
(***************************************************************************)
EXTENDS Agents

CONSTANTS
  DependsOn,      \* DependsOn[s]: the slices s depends on
  Minted,         \* the refs Own's design document introduces
  DesignDefined   \* the refs some design defines without the log

VARIABLE sees     \* what the checkout has: git, gh, a test script, a layering config

vars == <<logVars, evidenceVars, agentVars, sees>>

Sights == [git : BOOLEAN, gh : BOOLEAN, script : BOOLEAN, config : BOOLEAN]

Judged(ok) == IF ok THEN "PASS" ELSE "FAIL"

-----------------------------------------------------------------------------
(* The Definition of Ready.                                                *)

CriteriaRow(s)  == Judged(file[s].text.criteria)
ScenariosRow(s) == Judged(file[s].text.scenarios)
DeclaredRow(s)  == Judged(file[s].text.declared # {})

DependenciesRow(s) ==
  Judged(\A d \in DependsOn[s] : d \in Slices /\ file[d].folded = None /\ file[d].status = "done")

FindingEvents == {"finding_raised", "finding_ruled", "finding_routed", "finding_resolved"}

(* Each bullet of the inherited scope cites a ref somebody knows, or says  *)
(* why it has none, and each ref inherited is cited.                       *)
Escape == "no ref"
TraceableRow(s) ==
  LET text  == file[s].text
      known == DesignDefined \cup RefsOf({i \in DOMAIN log : log[i].event \in FindingEvents})
  IN  IF text.bullets = None THEN "N/A"
      ELSE Judged(/\ \A b \in text.bullets : Escape \in b \/ b \cap known # {}
                  /\ text.inherits \subseteq UNION text.bullets \cap known)

ObligationsRow(s) == Judged(RefsDeferredTo(s) \subseteq file[s].text.inherits)

ClarificationsRow(s) ==
  Judged(Cardinality(Span(s, {"dcr_raised"})) <= Cardinality(Span(s, {"dcr_resolved"})))

(* The commits the declaration governs: those of the branch or, once it is *)
(* merged, those scoped to the slice.  A git that is not there has none.   *)
OnBranch == sees.git /\ MergeBase # head
Scoped == IF sees.git THEN {c \in Ancestors(head) : commits[c].own} ELSE {}
Governed == IF OnBranch THEN Ancestors(head) \ Ancestors(MergeBase) ELSE Scoped

(* Some governed commit changed the file outside its generated blocks.     *)
(* Mutant: the governed commits together did.                              *)
NetHandEdited(f) ==
  Governed # {} /\ commits[Youngest(Governed)].hand[f] # commits[MergeBase].hand[f]
HandEdited(f) == \E c \in Governed : commits[c].hand[f] # commits[commits[c].parent].hand[f]

CorrespondenceRow ==
  LET declared == file[Own].text.declared
  IN  CASE declared = {} -> "UNVERIFIED"
        [] declared # {} /\ Governed = {} -> "N/A"
        [] OTHER -> Judged({f \in ArcFiles : HandEdited(f)} \subseteq declared)

-----------------------------------------------------------------------------
(* The Definition of Done: what CI and Stryker said.                       *)

(* Any record of a run, whoever wrote it.                                  *)
CiRuns == {i \in Span(Own, {"check_run"}) : SaysRun(i)}

(* What a record says of the jobs, if anything: a collector says PASS and  *)
(* FAIL, a person anything, such as how many tests of how many passed.     *)
Said(i) ==
  IF Has(i, "jobs") THEN {log[i].checks.jobs[j] : j \in DOMAIN log[i].checks.jobs} ELSE {}
SaysFail(i) == "FAIL" \in Said(i)
SaysRed(i)  == Said(i) \cap {"FAIL", "0/7"} # {}

(* A failing run, and a passing one that ended after the first of those:   *)
(* neither the commit of a run nor its red proof is asked for.             *)
TestFirstRow ==
  LET failing == {i \in CiRuns : SaysRed(i)}
  IN  IF CiRuns = {} THEN "UNVERIFIED"
      ELSE Judged(/\ failing # {}
                  /\ \E i \in CiRuns : ~ SaysRed(i) /\ log[i].ts > log[Oldest(failing)].ts)

(* The newest of the slice's own commits, or HEAD if it has none.          *)
SliceHead == IF Scoped # {} THEN Youngest(Scoped) ELSE head

(* Whether a run on c, if git knows c, saw the slice's last commit.        *)
(* Mutant: a run on a commit unrelated to it did.                          *)
CoversUnlessBehind(c) ==
  IF IsAncestor(c, SliceHead) /\ c # SliceHead THEN "no" ELSE "yes"
CoversHead(c) ==
  LET known == sees.git /\ c \in DOMAIN commits
  IN  CASE known /\ IsAncestor(SliceHead, c) -> "yes"
        [] known /\ IsAncestor(c, SliceHead) /\ c # SliceHead -> "no"
        [] OTHER -> "unknown"

TestsGreenRow ==
  IF ~ sees.script \/ CiRuns = {} THEN "UNVERIFIED"
  ELSE LET last == Newest(CiRuns)
           covers == CoversHead(IF Has(last, "head_sha") THEN log[last].checks.head_sha ELSE None)
       IN  CASE SaysFail(last) \/ covers = "no" -> "FAIL"
             [] ~ SaysFail(last) /\ covers = "unknown" -> "UNVERIFIED"
             [] OTHER -> "PASS"

(* The newest record with a mutation score, whoever wrote it: one that     *)
(* measured no changed file is about nothing; one from before scores were  *)
(* kept per file is read by its aggregate.                                 *)
Scores == {i \in Span(Own, DOMAIN Events) : Has(i, "mutation_score")}

MutationRow ==
  IF Scores = {} THEN "UNVERIFIED"
  ELSE LET checks == log[Newest(Scores)].checks
           vacuous == /\ "mutation_measures_changed_files" \in DOMAIN checks
                      /\ ~ checks.mutation_measures_changed_files
       IN  CASE vacuous -> "N/A"
             [] ~ vacuous /\ "mutation_below_threshold" \in DOMAIN checks ->
                  Judged(checks.mutation_below_threshold = {})
             [] OTHER -> Judged(checks.mutation_score >= Threshold)

LayeringRow ==
  LET cruised == {i \in Span(Own, DOMAIN Events) : Has(i, "depcruise")}
  IN  IF ~ sees.config \/ cruised = {} THEN "UNVERIFIED"
      ELSE Judged(log[Newest(cruised)].checks.depcruise = "pass")

-----------------------------------------------------------------------------
(* The Definition of Done: what people and agents said.                    *)

ReconciledRow(s) == Judged(Span(s, {"arc42_updated"}) # {})

(* Mutant: whichever slice's span a finding is closed in.                  *)
ClosedAnywhere(s) ==
  RefsOf({i \in DOMAIN log :
            log[i].event \in {"finding_ruled", "finding_resolved", "review_response"}})
Closed(s) == RefsOf(Span(s, {"finding_ruled", "finding_resolved", "review_response"}))
OpenSerious(s) ==
  {i \in Span(s, {"finding_raised"}) :
     log[i].severity \in {"MAJOR", "BLOCKING"} /\ log[i].ref \notin Closed(s)}

Approvals == {"approved", "approved-and-merged", "approved-with-conditions"}

(* The last Gate E decision; without one, a light gate opens by itself as  *)
(* long as no serious finding is open.                                     *)
ApprovedRow(s) ==
  LET gates == {i \in Span(s, {"gate_decided"}) : log[i].gate = "E"}
  IN  IF gates # {} THEN Judged(log[Newest(gates)].decision \in Approvals)
      ELSE Judged(file[s].text.light /\ OpenSerious(s) = {})

FindingsRow(s) == Judged(OpenSerious(s) = {})

DischargedRow(s) ==
  LET inherits == file[s].text.inherits
  IN  IF inherits = {} THEN "N/A"
      ELSE Judged(inherits \subseteq
                    RefsOf(Span(s, {"finding_ruled", "finding_resolved", "finding_routed"})))

(* Every captured prompt has an agent's record of its role, with its       *)
(* number at the end of the record's span, whatever that is the span of.   *)
DispatchRow ==
  LET accounted == {<<log[i].actor, log[i].span.n>> : i \in Span(Own, {"agent_finish"})}
  IN  IF agents = <<>> THEN "N/A"
      ELSE Judged(\A a \in DOMAIN agents : <<agents[a].role, agents[a].n>> \in accounted)

PullRequestRow ==
  LET ran == {log[i].actor : i \in Span(Own, {"agent_finish"})}
  IN  CASE ran = {} -> "N/A"
        [] ran # {} /\ ~ (sees.git /\ sees.gh) -> "UNVERIFIED"
        [] OTHER -> Judged(ran \subseteq spoken)

MintedRow ==
  LET known == RefsOf({i \in DOMAIN log : /\ log[i].event # "review_response"
                                          /\ "ref" \in DOMAIN log[i]})
  IN  IF Minted = {} THEN "N/A" ELSE Judged(Minted \subseteq known)

LoopbacksRow(s) == Judged(Cardinality(Span(s, {"loopback"})) <= 2)

Met(row) == row \in {"PASS", "N/A"}

AllChecksPass ==
  /\ Met(CriteriaRow(Own)) /\ Met(DependenciesRow(Own)) /\ Met(DeclaredRow(Own))
  /\ Met(TraceableRow(Own)) /\ Met(ObligationsRow(Own)) /\ Met(CorrespondenceRow)
  /\ Met(ScenariosRow(Own)) /\ Met(ClarificationsRow(Own))
  /\ Met(TestFirstRow) /\ Met(TestsGreenRow) /\ Met(MutationRow) /\ Met(LayeringRow)
  /\ Met(ReconciledRow(Own)) /\ Met(ApprovedRow(Own)) /\ Met(FindingsRow(Own))
  /\ Met(DischargedRow(Own)) /\ Met(DispatchRow) /\ Met(PullRequestRow)
  /\ Met(MintedRow) /\ Met(LoopbacksRow(Own))

-----------------------------------------------------------------------------
(* The team at work.                                                       *)

EvidenceNext ==
  \/ \E d \in Deltas : Commit(d)
  \/ Rewind
  \/ Merge
  \/ Push
  \/ \E i \in DOMAIN runs : Finish(i) \/ Rerun(i)
  \/ \E I \in SUBSET DOMAIN runs : CollectCi(I)
  \/ Stryker
  \/ \E allowPartial \in BOOLEAN : CollectMutation(allowPartial)

AgentsNext ==
  \/ \E r \in Roles : Dispatch(r) \/ Comment(r)
  \/ \E a \in DOMAIN agents : Stop(a) \/ Resume(a)

Init == LogInit /\ EvidenceInit /\ AgentsInit /\ sees \in Sights

LogStep      == LogNext /\ UNCHANGED <<evidenceVars, agentVars, sees>>
EvidenceStep == EvidenceNext /\ UNCHANGED <<agentVars, sees>>
AgentsStep   == AgentsNext /\ UNCHANGED sees

Next == LogStep \/ EvidenceStep \/ AgentsStep

Spec == Init /\ [][Next]_vars

-----------------------------------------------------------------------------
(* Properties.                                                             *)

(* log:check, and the rest of the state: every record ever written is      *)
(* valid under the dated schema, whoever wrote it, as a batch or alone,    *)
(* and none that a tool wrote is from the future.                          *)
TypeOK ==
  /\ \A i \in DOMAIN log :
       Valid(log[i]) /\ (log[i].source = "derived" => log[i].ts <= clock)
  /\ {head, main} \subseteq DOMAIN commits
  /\ \A i \in DOMAIN runs : runs[i].commit \in DOMAIN commits
  /\ \A a \in DOMAIN agents : agents[a].start <= agents[a].end

(* A finding whose newest ruling, wherever in the log it stands, is a      *)
(* deferral that names a slice cannot be dropped by that slice: it passes  *)
(* the row of what it owes, and does not fail that of what it discharged,  *)
(* only if its own span speaks of the finding (A-05-5, R-05-2).            *)
SentIsSpokenOf ==
  \A s \in Slices, r \in Refs :
    LET ruled == {i \in DOMAIN log : log[i].event = "finding_ruled" /\ log[i].ref = r}
    IN  /\ ruled # {} /\ log[Newest(ruled)].verdict = "deferred"
        /\ s \in Destinations(log[Newest(ruled)])
        /\ ObligationsRow(s) = "PASS" /\ DischargedRow(s) # "FAIL"
        => r \in RefsOf(Span(s, {"finding_ruled", "finding_resolved", "finding_routed"}))

(* What CI did, and what of it the collector brought into the log: of a    *)
(* run that was run again, the attempt it saw.                             *)
Attempts == UNION {runs[k].ended : k \in DOMAIN runs}
Collected ==
  {a \in Attempts : \E i \in DOMAIN log :
     /\ SaysRun(i) /\ log[i].source = "derived"
     /\ log[i].checks.run_id = a.run /\ log[i].ts = a.at}
LastCollected == CHOOSE a \in Collected : \A b \in Collected : b.at <= a.at

(* "Tests green", where it goes by a record of the collector, is never     *)
(* said of a run that did not succeed, nor of work that run did not see:   *)
(* in whatever order runs end and are collected, whatever is committed or  *)
(* taken back since, and whatever others wrote down by hand (O-6, O-17).   *)
(* Of a record somebody wrote by hand nothing is said (O-16-5, D-16-5).    *)
GreenCoversTheWork ==
  TestsGreenRow = "PASS" /\ log[Newest(CiRuns)].source = "derived" =>
    /\ LastCollected.conclusion = "success"
    /\ IsAncestor(SliceHead, LastCollected.commit)

(* "Red before green", where the collector wrote all the runs of the slice,*)
(* is said only if an attempt that ended without success, be it that it    *)
(* was cancelled, ended before one that succeeded, whenever each was       *)
(* collected.  One record by hand is enough to say it of nothing CI did.   *)
AllCollected == \A i \in CiRuns : log[i].source = "derived"
RedCameFirst ==
  TestFirstRow = "PASS" /\ AllCollected =>
    \E a, b \in Collected : /\ a.conclusion # "success" /\ b.conclusion = "success"
                            /\ a.at < b.at

(* An undeclared hand edit of arc42 is not undone by a further commit of   *)
(* the branch, be it its exact revert.                                     *)
UndeclaredEditStays ==
  [][Len(commits') > Len(commits) /\ OnBranch /\ CorrespondenceRow = "FAIL"
       => CorrespondenceRow' = "FAIL"]_vars

(* A record of the mutation collector that decides the row as it comes, is *)
(* not marked partial and passes, measured every file the branch had       *)
(* changed, each at the threshold (O-64, O-73).                            *)
MutationPassIsWhole ==
  [][LET n == Len(log')
     IN  /\ n > Len(log) /\ log'[n].source = "derived"
         /\ n \in Scores' /\ n = Newest(Scores)'
         /\ "mutation_report_partial" \notin DOMAIN log'[n].checks
         /\ MutationRow' = "PASS"
         => \A f \in ChangedFiles : report[f] >= Threshold]_vars

(* A slice that passes every check under the light gate, without anybody   *)
(* having approved it, has no serious finding open and none it was sent    *)
(* unspoken of; and it was red, then green on its last commit, unless it   *)
(* is a record somebody wrote by hand that says so (O-66).                 *)
LightGateIsEarned ==
  AllChecksPass /\ Span(Own, {"gate_decided"}) = {} =>
    /\ file[Own].text.light
    /\ AllCollected => \E a \in Collected : a.conclusion # "success"
    /\ log[Newest(CiRuns)].source = "derived" =>
         /\ LastCollected.conclusion = "success"
         /\ IsAncestor(SliceHead, LastCollected.commit)
    /\ RefsDeferredTo(Own) \subseteq RefsOf(Span(Own, FindingEvents))
    /\ \A i \in DOMAIN log :
         /\ log[i].event = "finding_raised" /\ log[i].slice = Own
         /\ log[i].severity # "MINOR"
         => \E j \in DOMAIN log : /\ log[j].slice = Own /\ log[j].event # "finding_raised"
                                  /\ "ref" \in DOMAIN log[j] /\ log[j].ref = log[i].ref

(* What check.mjs:712 says: an unaccounted capture fails the slice whether *)
(* or not anyone reports it.                                               *)
UnloggedDispatchFails ==
  DispatchRow = "PASS" =>
    \A a \in DOMAIN agents : \E i \in Finishes : Paired(i, a)
=============================================================================
