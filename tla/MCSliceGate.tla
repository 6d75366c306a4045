---------------------------- MODULE MCSliceGate ----------------------------
(***************************************************************************)
(* An instance of SliceGate for TLC, which looks at one topic at a time:   *)
(* each behaviour is about one of them, and leaves alone what the others   *)
(* are about.                                                              *)
(***************************************************************************)
EXTENDS SliceGate, TLC

CONSTANTS
  f1, f2,
  Topics      \* the topics looked at

VARIABLE topic

MCSlices    == {"06", "07", "09", "10"}
MCFolds     == {<<"10", "09">>, <<"09", "07">>}
MCDependsOn == [s \in MCSlices |-> IF s = "07" THEN {"06"} ELSE {}]

(* Records as the people of the team write them.                           *)
Reported(event, slice) == [event |-> event, slice |-> slice, source |-> "reported"]
Raised(slice, ref, severity) ==
  Reported("finding_raised", slice) @@ [ref |-> ref, severity |-> severity]
Ruled(slice, ref, verdict) ==
  Reported("finding_ruled", slice) @@ [ref |-> ref, verdict |-> verdict]
Deferred(slice, ref, to) == Ruled(slice, ref, "deferred") @@ [deferred_to |-> to]
Routed(slice, ref, to) ==
  Reported("finding_routed", slice) @@ [ref |-> ref, deferred_to |-> to]
Resolved_(slice, ref)    == Reported("finding_resolved", slice) @@ [ref |-> ref]
Decided(gate, decision)  ==
  Reported("gate_decided", "07") @@ [gate |-> gate, decision |-> decision]

Rulings ==
  {<<Deferred("06", f1, {"07"})>>, <<Deferred("06", f1, {"10", "backlog"})>>,
   <<Deferred("07", f1, {"06"})>>, <<Deferred("07", f1, {"09"})>>,
   <<Ruled("06", f1, "deferred")>>,                        \* names no destination
   <<Ruled("06", f1, "deferred") @@ ("ts" :> 0), Routed("06", f1, {"07"})>>,
   <<Deferred("06", f1, {"12"})>>,                         \* no such slice
   <<Deferred("06", f1, {"elsewhere"})>>,                  \* no destination at all
   <<Raised("06", f1, "MINOR"), Ruled("06", f1, "perhaps")>>,
   <<Routed("07", f1, {"retro"})>>,
   <<Resolved_("07", f1)>>, <<Ruled("07", f1, "accepted")>>,
   <<[Reported("check_run", "07") EXCEPT !.source = "derived"] @@ [checks |-> <<>>]>>}

Decisions ==
  {<<Decided("process", "approved")>>, <<Decided("E", "approved")>>,
   <<Decided("E", "changes-requested")>>, <<Decided("E", "approved-and-merged")>>}

Words ==
  {<<Raised("07", f2, "MAJOR")>>, <<Ruled("07", f2, "narrowed")>>,
   <<Ruled("06", f2, "rejected")>>, <<Deferred("06", f2, {"07"})>>,
   <<Reported("review_response", "07") @@ [ref |-> f2, resolution |-> "fixed"]>>,
   <<Reported("dcr_raised", "07")>>,
   <<Reported("dcr_resolved", "07") @@ [ruling |-> "a"]>>,
   <<Reported("dcr_resolved", "07") @@ [ruling |-> "c"]>>,
   <<Reported("arc42_updated", "07")>>, <<Reported("loopback", "07")>>}

(* As they were written before there were collectors and hooks, and as     *)
(* they may be written still: a score, with and without what the collector *)
(* says of it; an agent's end, in a span of its own and in another's.      *)
HandScored ==
  {<<Reported("check_run", "07") @@ [checks |-> checks]>> :
     checks \in {[mutation_score |-> 80],
                 [mutation_score |-> 80, mutation_per_file |-> ("a.ts" :> 80),
                  mutation_below_threshold |-> {}]}}
     \cup {<<Reported("check_run", "07") @@
              [ts |-> 20, checks |-> [mutation_score |-> 50]]>>}
HandFinished ==
  {<<Reported("agent_finish", "07") @@ [actor |-> "architect"]>>,
   <<Reported("agent_finish", "07") @@
       [actor |-> "architect", span |-> [of |-> <<"07", "implementer">>, n |-> 1]]>>,
   <<Reported("loopback", "07") @@
       [actor |-> "implementer", span |-> [of |-> <<"07", "architect">>, n |-> 1]]>>}

(* Runs of CI written down by hand: green on the commit that is there to   *)
(* begin with, some time or in the future; red, on a commit that was       *)
(* rewritten out of history; "failure", as GitHub says it; for another     *)
(* slice; and with an unreadable time.                                     *)
HandRun(slice, checks) == Reported("check_run", slice) @@ [checks |-> checks]
HandRan ==
  {<<HandRun("07", [run_id |-> 1, head_sha |-> 1, jobs |-> [test |-> "PASS"]])>>,
   <<HandRun("07", [run_id |-> 8, head_sha |-> 1, jobs |-> [test |-> "PASS"]])
       @@ ("ts" :> 20)>>,
   <<HandRun("07", [run_id |-> 9, head_sha |-> 9, jobs |-> [test |-> "0/7"]])>>,
   <<HandRun("07", [run_id |-> 2, jobs |-> [test |-> "failure"]])>>,
   <<HandRun("06", [run_id |-> 1, conclusion |-> "failure"])>>,
   <<HandRun("07", [run_id |-> 1]) @@ ("ts" :> None)>>}

HandWritten == HandScored \cup HandFinished \cup HandRan
MCOffered == Rulings \cup Decisions \cup Words \cup HandWritten

MCTexts ==
  {[Blank EXCEPT !.inherits = {f1}],
   [Blank EXCEPT !.inherits = {f1}, !.bullets = {{f1}, {f2}, {Escape}}],
   [Blank EXCEPT !.light = TRUE, !.declared = {"5"}],
   [Blank EXCEPT !.light = TRUE, !.declared = {"5"}, !.inherits = {f2}, !.bullets = {{f2}}],
   [Blank EXCEPT !.criteria = FALSE, !.scenarios = FALSE]}

Delta(own, red, hand, generated, src) ==
  [own |-> own, red |-> red, hand |-> hand, generated |-> generated, src |-> src]
Writing == {Delta(own, FALSE, hand, {}, {}) :
              own \in BOOLEAN, hand \in {{"5"}, {"9"}, {"5", "9"}}}
             \cup {Delta(TRUE, FALSE, {}, {"9"}, {})}
Testing == {Delta(TRUE, TRUE, {}, {}, {}), Delta(TRUE, FALSE, {}, {}, {}),
            Delta(FALSE, FALSE, {}, {}, {})}
Coding  == {Delta(TRUE, FALSE, {}, {}, src) : src \in (SUBSET {"a.ts", "b.ts"}) \ {{}}}
MCDeltas == Writing \cup Testing \cup Coding

Ran(files, tests) == [ran |-> TRUE, files |-> files, tests |-> tests]
NoReport == [ran |-> FALSE, files |-> {}, tests |-> {}]
Fine == Ran({}, {})

Ended(verify, nodb, db) ==
  [started |-> TRUE, verify |-> verify, layering |-> verify,
   tests |-> [nodb |-> nodb, db |-> db, perf |-> Fine]]

(* All is well; the red zone fails; one of its files cannot be loaded; the *)
(* layering and a unit test fail and there was no database; cancelled.     *)
Usual == {Ended("success", Fine, Fine), Ended("success", Fine, Ran({"zone"}, {"zone"}))}
MCOutcomes ==
  Usual \cup {Ended("success", Fine, Ran({"zone"}, {})),
              Ended("failure", Ran({"unit"}, {"unit"}), NoReport),
              [Ended("failure", Fine, Fine) EXCEPT !.started = FALSE]}

MCReports == [{"a.ts", "b.ts"} -> {NoScore, 50, 80}]

-----------------------------------------------------------------------------
AllSeen == [git |-> TRUE, gh |-> TRUE, script |-> TRUE, config |-> TRUE]

(* Own when all that is left is its gate, a light one: it depends on a     *)
(* slice that was closed, was red, then green on its last commit, which    *)
(* Stryker measured, and reconciled arc42.  byHand: it was not green, but  *)
(* somebody wrote down that it was.                                        *)
AlmostDone(byHand) ==
  LET ended(c, t, o) ==
        [commit |-> c, status |-> "completed", updatedAt |-> t, outcome |-> o,
         jobs |-> Conclusions(o, c), conclusion |-> ConclusionOf(Conclusions(o, c)),
         ended |-> {[run |-> c - 1, commit |-> c, at |-> t,
                     conclusion |-> ConclusionOf(Conclusions(o, c))]}]
      root(parent) == [parent |-> parent, history |-> 1 .. (parent + 1),
                       own |-> FALSE, red |-> FALSE,
                       hand |-> [f \in ArcFiles |-> 0], generated |-> [f \in ArcFiles |-> 0],
                       src |-> [f \in SrcFiles |-> 0]]
      derived(t, checks) == [ts |-> t, slice |-> "07", event |-> "check_run",
                             source |-> "derived", checks |-> checks]
      red == Ended("success", Fine, Ran({"zone"}, {"zone"}))
      said == Reported("check_run", "07")
                @@ [ts |-> 3, checks |-> [run_id |-> 2, head_sha |-> 3, jobs |-> [test |-> "PASS"]]]
  IN  /\ commits = <<root(0), [root(1) EXCEPT !.own = TRUE, !.red = TRUE],
                     [root(2) EXCEPT !.own = TRUE, !.src["a.ts"] = 1]>>
      /\ head = 3 /\ main = 1 /\ clock = 6
      /\ runs = <<ended(2, 2, red),
                  ended(3, 3, IF byHand THEN red ELSE Ended("success", Fine, Fine))>>
      /\ report = [f \in SrcFiles |-> IF f = "a.ts" THEN 80 ELSE NoScore]
      /\ log = <<Reported("gate_decided", "06")
                   @@ [gate |-> "E", decision |-> "approved", ts |-> 1],
                 ToCheckRunRecord(1), IF byHand THEN said ELSE ToCheckRunRecord(2),
                 derived(5, ToChecks),
                 Reported("arc42_updated", "07") @@ ("ts" :> 6)>>
      /\ edits = 0
      /\ file = [s \in Slices |->
                   [status |-> IF s = "06" THEN "done" ELSE "ready", folded |-> None,
                    text |-> IF s = "07"
                             THEN [Blank EXCEPT !.light = TRUE, !.declared = {"5"}] ELSE Blank]]
      /\ AgentsInit

TopicInit ==
  /\ topic \in Topics
  /\ IF topic = "gate" THEN \E byHand \in BOOLEAN : AlmostDone(byHand) ELSE LogInit /\ EvidenceInit /\ AgentsInit
  /\ sees \in IF topic = "gate" THEN {AllSeen, [AllSeen EXCEPT !.git = FALSE]} ELSE {AllSeen}

-----------------------------------------------------------------------------
(* What a step may be about.                                               *)

Added     == {log'[i] : i \in DOMAIN log' \ DOMAIN log}
About(ref, events) ==
  \A r \in Added : r.event \in events /\ ("ref" \in DOMAIN r => r.ref = ref)
Committed == {commits'[c] : c \in DOMAIN commits' \ DOMAIN commits}
Edited(S) == \A s \in Slices \ S : file'[s].text = file[s].text

Obligations == /\ UNCHANGED <<evidenceVars, agentVars>>
               /\ About(f1, {"finding_raised", "finding_ruled", "finding_routed",
                             "finding_resolved", "gate_decided"})
               /\ Edited({"07"}) /\ ~ file'["07"].text.light
               /\ Len(log') <= 3
Gate        == /\ UNCHANGED <<runs, report, main, agentVars>>
               /\ About(f2, DOMAIN Events \ {"check_run", "agent_finish"})
               /\ \A c \in Committed : c.own /\ c.parent # 1 /\ c.src["b.ts"] = 0
               /\ Edited({"07"}) /\ file'["07"].text.light
               /\ \A s \in Slices : file'[s].folded = None
               /\ Len(log') <= 7 /\ Len(commits') <= 4 /\ (sees.git \/ UNCHANGED log)
History     == /\ UNCHANGED <<log, runs, report, agentVars>>
               /\ \A c \in Committed : /\ ~ c.red /\ c.src = commits[c.parent].src
                                       /\ <<c.hand, c.generated>> # <<commits[c.parent].hand,
                                                                     commits[c.parent].generated>>
               /\ Edited({"07"}) /\ file'["07"].text.inherits = {}
               /\ \A s \in Slices : file'[s].folded = None

(* What is out of the ordinary: a run that ends otherwise than in success  *)
(* or in the red zone, one that is run again, a record written by hand.    *)
Odd(run)   == run.status = "completed" /\ run.outcome \notin Usual
Again(run) == run.ended # {} /\ (run.status = "completed" => Cardinality(run.ended) > 1)
ByHand     == Cardinality({i \in DOMAIN log' : log'[i].source = "reported"})

Tests       == /\ UNCHANGED <<main, report, file, agentVars>>
               /\ About(None, {"check_run"})
               /\ \A r \in Added : "run_id" \in DOMAIN r.checks
               /\ \A c \in Committed : /\ c.hand = commits[c.parent].hand
                                       /\ c.generated = commits[c.parent].generated
                                       /\ c.src = commits[c.parent].src
               /\ LET odd   == Cardinality({i \in DOMAIN runs' : Odd(runs'[i])})
                      again == Cardinality({i \in DOMAIN runs' : Again(runs'[i])})
                  IN  /\ odd + again + ByHand <= 1
                      /\ Len(commits') + again + ByHand <= 3
Mutation    == /\ UNCHANGED <<runs, main, file, agentVars>>
               /\ About(None, {"check_run"})
               /\ \A c \in Committed : c.own /\ c.src # commits[c.parent].src
               /\ Len(log') <= 2 /\ Len(commits') <= 3
Dispatches  == /\ UNCHANGED <<evidenceVars, file>>
               /\ About(None, {"agent_finish", "loopback"})
               /\ Len(log') <= 4 /\ ByHand <= 1

(* LogStep, in parts.                                                      *)
Says(batches) == /\ \E batch \in batches : AppendBatch(batch)
                 /\ UNCHANGED <<evidenceVars, agentVars, sees>>
Tends == /\ \E s \in Slices : Edit(s) \/ Close(s) \/ (\E t \in Slices : Fold(s, t))
         /\ UNCHANGED <<evidenceVars, agentVars, sees>>

MCNext ==
  \/ topic = "obligations" /\ (Says(Rulings \cup Decisions) \/ Tends) /\ Obligations
  \/ topic = "gate" /\ (Says(Decisions \cup Words) \/ Tends \/ EvidenceStep) /\ Gate
  \/ topic = "history" /\ (Tends \/ EvidenceStep) /\ History
  \/ topic = "tests" /\ (Says(HandRan) \/ EvidenceStep) /\ Tests
  \/ topic = "mutation" /\ (Says(HandScored) \/ EvidenceStep) /\ Mutation
  \/ topic = "dispatch" /\ (Says(HandFinished) \/ AgentsStep) /\ Dispatches

MCSpec == TopicInit /\ [][MCNext /\ UNCHANGED topic]_<<vars, topic>>
=============================================================================
