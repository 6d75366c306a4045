------------------------------- MODULE Agents -------------------------------
(***************************************************************************)
(* The agents of the slice Own, as the hooks around them record them, and  *)
(* the audit of the log against that record (tools/team-log/audit.mjs).    *)
(*                                                                         *)
(* A dispatch leaves a captured prompt, numbered per role, and a transcript*)
(* that lasts.  Each time an agent stops, a hook appends an agent.finish;  *)
(* an agent that stopped can be resumed, without a new prompt, and stops   *)
(* again.                                                                  *)
(*                                                                         *)
(* Bound: MaxAgents dispatches.                                            *)
(***************************************************************************)
EXTENDS Evidence

CONSTANTS
  Roles,
  Window,     \* how far apart a record and a transcript may end to be paired
  Slack,      \* how much longer than its transcript a record may claim
  MaxAgents

ASSUME SlackAssumption == Slack \in Nat

VARIABLES
  agents,     \* the transcripts, in the order they began
  spoken      \* the roles with an attributed comment on the pull request

agentVars == <<agents, spoken>>

AgentsInit == agents = <<>> /\ spoken = {}

-----------------------------------------------------------------------------
(* Outside the repository: the hooks and the pull request.                 *)

Captured(r) == {a \in DOMAIN agents : agents[a].role = r}

Dispatch(r) ==
  /\ Len(agents) < MaxAgents
  /\ agents' = Append(agents, [role |-> r, n |-> Cardinality(Captured(r)) + 1, running |-> TRUE,
                               start |-> clock + 1, since |-> clock + 1, end |-> clock + 1])
  /\ clock' = clock + 1
  /\ UNCHANGED <<spoken, log, file, edits, evidenceVars>>

Stop(a) ==
  /\ agents[a].running
  /\ AppendRecords(<<[event |-> "agent_finish", slice |-> Own, source |-> "derived",
                      actor |-> agents[a].role, agent_id |-> a,
                      duration |-> clock + 1 - agents[a].since]>>, TRUE)
  /\ agents' = [agents EXCEPT ![a].running = FALSE, ![a].end = clock + 1]
  /\ UNCHANGED <<spoken, file, edits, evidenceVars>>

Resume(a) ==
  /\ ~ agents[a].running /\ Len(log) < MaxRecords
  /\ agents' = [agents EXCEPT ![a].running = TRUE, ![a].since = clock + 1, ![a].end = clock + 1]
  /\ clock' = clock + 1
  /\ UNCHANGED <<spoken, log, file, edits, evidenceVars>>

Comment(r) ==
  /\ spoken' = spoken \cup {r}
  /\ UNCHANGED <<agents, logVars, evidenceVars>>

-----------------------------------------------------------------------------
(* The audit.                                                              *)

Finishes == {i \in DOMAIN log : log[i].event = "agent_finish" /\ log[i].actor \in Roles}

(* Record i and transcript a go together: by the agent's id, and by role   *)
(* and time for a record from before there was one.                        *)
Near(i, a) ==
  /\ agents[a].role = log[i].actor
  /\ log[i].ts - agents[a].end < Window /\ agents[a].end - log[i].ts < Window
Paired(i, a) == IF "agent_id" \in DOMAIN log[i] THEN log[i].agent_id = a ELSE Near(i, a)

PairOf(i) == CHOOSE a \in DOMAIN agents :
               Paired(i, a) /\ \A b \in DOMAIN agents : Paired(i, b) => a <= b

(* Mutant: any difference of the two is a mismatch.                        *)
Differs(i, a) == log[i].duration - (agents[a].end - agents[a].start) \notin -Slack .. Slack
Overclaims(i, a) == log[i].duration - (agents[a].end - agents[a].start) > Slack

(* Commits scoped to the slice when the log has nothing of it.             *)
UnloggedCommits ==
  {c \in Ancestors(head) : commits[c].own /\ \A i \in DOMAIN log : log[i].slice # Own}

Omissions   == {a \in DOMAIN agents : \A i \in Finishes : ~ Paired(i, a)}
Unsupported == {i \in Finishes : \A a \in DOMAIN agents : ~ Paired(i, a)}
Mismatches  ==
  {i \in Finishes \ Unsupported : /\ "duration" \in DOMAIN log[i]
                                  /\ Overclaims(i, PairOf(i))}

AuditClean == Omissions \cup Unsupported \cup Mismatches \cup UnloggedCommits = {}

(* The audit does not cry wolf: once nobody is running, and if the hook    *)
(* wrote every agent.finish, it finds nothing about the agents, however    *)
(* often one was resumed and another worked in between.                    *)
HonestLogIsClean ==
  /\ \A a \in DOMAIN agents : ~ agents[a].running
  /\ \A i \in Finishes : log[i].source = "derived"
  => Omissions = {} /\ Unsupported = {} /\ Mismatches = {}
=============================================================================
