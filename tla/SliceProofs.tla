----------------------------- MODULE SliceProofs -----------------------------
(***************************************************************************)
(* What the gate of a slice and the audit of its log may say, for any set  *)
(* of files, any history of commits, any runs of CI however they end and   *)
(* in whatever order they are collected, any agents and any records an     *)
(* orchestrator may append by hand.                                        *)
(*                                                                         *)
(* The gate reads the log and never the runs, so the argument is that the  *)
(* log is true of them as far as tools wrote it.  The invariant says so    *)
(* record by record: a record of CI that a collector wrote has the end,    *)
(* the commit and the outcome of an attempt of that run, and a record a    *)
(* hook made lasts no longer than the transcript of its agent; of what     *)
(* people wrote it says that the schema let it pass.  That survives a step *)
(* because what is appended is true when it is, and because what it is     *)
(* about stays: an attempt that has ended never changes, a commit keeps    *)
(* its history whatever is rewound, and a transcript only gets longer.     *)
(* The gate's choices then come out as those of the attempt itself because *)
(* no two end at the same moment.                                          *)
(***************************************************************************)
EXTENDS SliceGate, TLAPS, FiniteSetTheorems, WellFoundedInduction

-----------------------------------------------------------------------------
(* Sequences of anything, and the newest and oldest of some records.       *)

IsSeq(q) == q \in Seq({q[i] : i \in DOMAIN q})

(* A sequence is one over any set that holds its elements.                 *)
LEMMA OverAnySet ==
  ASSUME NEW S, NEW q \in Seq(S)
  PROVE  IsSeq(q) /\ Len(q) \in Nat /\ DOMAIN q = 1 .. Len(q)
<1>1. Len(q) \in Nat /\ DOMAIN q = 1 .. Len(q)
  OBVIOUS
<1>2. q \in [1 .. Len(q) -> {q[i] : i \in DOMAIN q}]
  BY <1>1
<1> QED
  BY <1>1, <1>2 DEF IsSeq

(* So is a list of what is given for each number.                          *)
LEMMA Listed ==
  ASSUME NEW S, NEW k \in Nat, NEW q \in [1 .. k -> S]
  PROVE  IsSeq(q) /\ Len(q) = k
<1>1. q \in Seq(S) /\ Len(q) = k
  OBVIOUS
<1> QED
  BY <1>1, OverAnySet

(* What somebody appends comes after what is there.                        *)
LEMMA Joined ==
  ASSUME NEW a, NEW b, IsSeq(a), IsSeq(b)
  PROVE  /\ IsSeq(a \o b) /\ Len(a) \in Nat /\ Len(b) \in Nat
         /\ DOMAIN a = 1 .. Len(a) /\ DOMAIN b = 1 .. Len(b)
         /\ Len(a \o b) = Len(a) + Len(b) /\ DOMAIN (a \o b) = 1 .. (Len(a) + Len(b))
         /\ \A i \in DOMAIN a : (a \o b)[i] = a[i]
         /\ \A n \in DOMAIN b : (a \o b)[Len(a) + n] = b[n]
<1> DEFINE S == {a[i] : i \in DOMAIN a}
           T == {b[i] : i \in DOMAIN b}
<1>1. a \in Seq(S \cup T) /\ b \in Seq(S \cup T)
  BY DEF IsSeq
<1> HIDE DEF S, T
<1>2. /\ a \o b \in Seq(S \cup T) /\ Len(a) \in Nat /\ Len(b) \in Nat
      /\ DOMAIN a = 1 .. Len(a) /\ DOMAIN b = 1 .. Len(b)
      /\ Len(a \o b) = Len(a) + Len(b)
      /\ \A i \in DOMAIN a : (a \o b)[i] = a[i]
  BY <1>1
<1>3. \A n \in DOMAIN b : (a \o b)[Len(a) + n] = b[n]
  BY <1>1, <1>2
<1>4. IsSeq(a \o b) /\ DOMAIN (a \o b) = 1 .. Len(a \o b)
  BY <1>2, OverAnySet
<1> QED
  BY <1>2, <1>3, <1>4

(* The same of a single element.                                           *)
LEMMA Followed ==
  ASSUME NEW a, IsSeq(a), NEW e
  PROVE  /\ IsSeq(Append(a, e)) /\ Len(a) \in Nat /\ DOMAIN a = 1 .. Len(a)
         /\ Len(Append(a, e)) = Len(a) + 1 /\ DOMAIN Append(a, e) = 1 .. (Len(a) + 1)
         /\ \A i \in DOMAIN a : Append(a, e)[i] = a[i]
         /\ Append(a, e)[Len(a) + 1] = e
<1> DEFINE S == {a[i] : i \in DOMAIN a} \cup {e}
<1>1. a \in Seq(S) /\ e \in S
  BY DEF IsSeq
<1> HIDE DEF S
<1>2. /\ Append(a, e) \in Seq(S) /\ Len(a) \in Nat /\ DOMAIN a = 1 .. Len(a)
      /\ Len(Append(a, e)) = Len(a) + 1 /\ \A i \in DOMAIN a : Append(a, e)[i] = a[i]
      /\ Append(a, e)[Len(a) + 1] = e
  BY <1>1
<1>3. IsSeq(Append(a, e)) /\ DOMAIN Append(a, e) = 1 .. Len(Append(a, e))
  BY <1>2, OverAnySet
<1> QED
  BY <1>2, <1>3

(* A non-empty set of naturals has a least element.                        *)
LEMMA LeastOf ==
  ASSUME NEW T \in SUBSET Nat, T # {}
  PROVE  \E n \in T : \A m \in T : n <= m
<1> DEFINE R == {p \in Nat \X Nat : p[1] < p[2]}
<1>1. IsWellFoundedOn(R, Nat)
  BY NatLessThanWellFounded, Zenon DEF OpToRel
<1>2. PICK n \in T : \A m \in T : <<m, n>> \notin R
  <2> HIDE DEF R
  <2> QED
    BY <1>1, WFMin
<1>3. \A m \in T : ~ (m < n)
  BY <1>2
<1> QED
  BY <1>3

(* Times are bounded, so some record is the newest.                        *)
Timely == \A i \in DOMAIN log : log[i].ts \in Instants

(* The newest of some records is one of them and later than the others:    *)
(* at equal times the one that stands last in the log.                     *)
LEMMA NewestIs ==
  ASSUME IsSeq(log), Timely, NEW I \in SUBSET DOMAIN log, I # {}
  PROVE  Newest(I) \in I /\ \A i \in I \ {Newest(I)} : Later(Newest(I), i)
<1>1. DOMAIN log = 1 .. Len(log) /\ Len(log) \in Nat
  BY OverAnySet DEF IsSeq
<1> DEFINE age(i) == MaxTime - log[i].ts
           ages == {age(i) : i \in I}
<1>2. \A i \in I : i \in Nat /\ i <= Len(log) /\ log[i].ts \in Int /\ age(i) \in Nat
  BY <1>1, MaxTimeAssumption DEF Timely, Instants
<1>3. PICK k \in I : \A i \in I : age(k) <= age(i)
  <2>1. ages \in SUBSET Nat /\ ages # {}
    BY <1>2
  <2>2. PICK n \in ages : \A m \in ages : n <= m
    <3> HIDE DEF ages
    <3> QED
      BY <2>1, LeastOf
  <2> QED
    BY <2>2
<1> DEFINE last == {i \in I : log[i].ts = log[k].ts}
           depths == {Len(log) - i : i \in last}
<1>4. PICK l \in last : \A i \in last : i <= l
  <2>1. depths \in SUBSET Nat /\ depths # {}
    BY <1>1, <1>2
  <2>2. PICK n \in depths : \A m \in depths : n <= m
    <3> HIDE DEF depths
    <3> QED
      BY <2>1, LeastOf
  <2>3. PICK l \in last : n = Len(log) - l
    BY <2>2
  <2>4. \A i \in last : Len(log) - l <= Len(log) - i
    BY <2>2, <2>3
  <2>5. \A i \in last : i <= l
    <3> HIDE DEF last
    <3>1. \A i \in last : i \in Nat
      BY <1>2 DEF last
    <3> QED
      BY <1>1, <2>4, <3>1
  <2> QED
    BY <2>5
<1>5. l \in I /\ log[l].ts = log[k].ts
  BY <1>4
<1>6. ASSUME NEW i \in I \ {l} PROVE Later(l, i)
  <2>1. log[i].ts <= log[l].ts
    BY <1>2, <1>3, <1>5, MaxTimeAssumption
  <2>2. log[i].ts = log[l].ts => i < l
    BY <1>2, <1>4, <1>5
  <2> QED
    BY <1>2, <1>5, <2>1, <2>2 DEF Later
<1> QED
  BY <1>5, <1>6 DEF Newest

(* There is only one.                                                      *)
LEMMA NewestOnly ==
  ASSUME IsSeq(log), Timely, NEW I \in SUBSET DOMAIN log,
         NEW i \in I, \A j \in I \ {i} : Later(i, j),
         NEW k \in I, \A j \in I \ {k} : Later(k, j)
  PROVE  i = k
<1>1. /\ i \in Nat /\ k \in Nat /\ log[i].ts \in Int /\ log[k].ts \in Int
  BY OverAnySet, MaxTimeAssumption DEF IsSeq, Timely, Instants
<1> QED
  BY <1>1 DEF Later

(* As long as none is from before the clock started, one is the oldest.    *)
LEMMA OldestIs ==
  ASSUME IsSeq(log), NEW I \in SUBSET DOMAIN log, I # {}, \A i \in I : log[i].ts \in Nat
  PROVE  Oldest(I) \in I
<1>1. DOMAIN log = 1 .. Len(log) /\ Len(log) \in Nat
  BY OverAnySet DEF IsSeq
<1> DEFINE times == {log[i].ts : i \in I}
<1>2. PICK k \in I : \A i \in I : log[k].ts <= log[i].ts
  <2>1. times \in SUBSET Nat /\ times # {}
    OBVIOUS
  <2>2. PICK n \in times : \A m \in times : n <= m
    <3> HIDE DEF times
    <3> QED
      BY <2>1, LeastOf
  <2> QED
    BY <2>2
<1> DEFINE first == {i \in I : log[i].ts = log[k].ts}
<1>3. PICK l \in first : \A i \in first : l <= i
  <2>1. first \in SUBSET Nat /\ first # {}
    BY <1>1
  <2> HIDE DEF first
  <2> QED
    BY <2>1, LeastOf
<1>4. l \in I /\ \A i \in I \ {l} : Later(i, l)
  BY <1>1, <1>2, <1>3 DEF Later
<1> QED
  BY <1>4 DEF Oldest

-----------------------------------------------------------------------------
(* What is appended.                                                       *)

(* What a record is given is not what it says already.                     *)
LEMMA NormalizedIs ==
  ASSUME NEW r, NEW prior, NEW e, e = Normalized(r, prior)
  PROVE  /\ \A x \in DOMAIN r : x \in DOMAIN e /\ e[x] = r[x]
         /\ DOMAIN e \subseteq DOMAIN r \cup {"ts", "span"}
         /\ "ts" \in DOMAIN e
         /\ "ts" \notin DOMAIN r => e.ts = clock + 1
<1>1. PICK d : /\ e = Filled(r, d) /\ d.ts = clock + 1
               /\ "ts" \in DOMAIN d /\ DOMAIN d \subseteq {"ts", "span"}
  <2> DEFINE stem == <<r.slice, r.actor>>
             same == {i \in DOMAIN prior : "span" \in DOMAIN prior[i]
                                           /\ prior[i].span.of = stem}
             two == [ts |-> clock + 1, span |-> [of |-> stem, n |-> Cardinality(same) + 1]]
             one == [ts |-> clock + 1]
  <2>1. e = Filled(r, IF "actor" \in DOMAIN r THEN two ELSE one)
    BY DEF Normalized
  <2>2. two.ts = clock + 1 /\ DOMAIN two = {"ts", "span"}
    OBVIOUS
  <2>3. one.ts = clock + 1 /\ DOMAIN one = {"ts"}
    OBVIOUS
  <2> HIDE DEF one, two
  <2> QED
    BY <2>1, <2>2, <2>3
<1> QED
  BY <1>1 DEF Filled

(* A batch that is accepted follows the log, record by record.             *)
LEMMA Appended ==
  ASSUME IsSeq(log), NEW batch, IsSeq(batch), NEW allow, AppendRecords(batch, allow)
  PROVE  /\ IsSeq(log') /\ clock' = clock + 1
         /\ Len(log) \in Nat /\ Len(batch) \in Nat /\ Len(log') = Len(log) + Len(batch)
         /\ DOMAIN log = 1 .. Len(log) /\ DOMAIN batch = 1 .. Len(batch)
         /\ DOMAIN log' = 1 .. (Len(log) + Len(batch))
         /\ \A i \in DOMAIN log : log'[i] = log[i]
         /\ \A i \in DOMAIN log' \ DOMAIN log :
              \E n \in DOMAIN batch : \E prior :
                 /\ i = Len(log) + n /\ log'[i] = Normalized(batch[n], prior)
                 /\ Valid(log'[i]) /\ (log'[i].source = "derived" => allow)
<1> DEFINE records == NormalizedAll(batch)
           prior(n) == log \o SubSeq(batch, 1, n - 1)
<1>1. Len(batch) \in Nat /\ DOMAIN batch = 1 .. Len(batch)
  BY OverAnySet DEF IsSeq
<1>2. /\ DOMAIN records = 1 .. Len(batch)
      /\ \A n \in 1 .. Len(batch) : records[n] = Normalized(batch[n], prior(n))
  BY DEF NormalizedAll
<1>3. records = [n \in 1 .. Len(batch) |-> Normalized(batch[n], prior(n))]
  BY DEF NormalizedAll
<1>4. /\ clock' = clock + 1 /\ log' = log \o records
      /\ \A n \in DOMAIN records :
           (records[n].source = "derived" => allow) /\ Valid(records[n])
  BY DEF AppendRecords
<1> HIDE DEF records, prior
<1>5. IsSeq(records) /\ Len(records) = Len(batch)
  <2>1. records \in [1 .. Len(batch) -> {records[n] : n \in DOMAIN records}]
    BY <1>2, <1>3
  <2> QED
    BY <1>1, <2>1, Listed
<1>6. /\ IsSeq(log') /\ Len(log) \in Nat /\ Len(log') = Len(log) + Len(batch)
      /\ DOMAIN log = 1 .. Len(log) /\ DOMAIN log' = 1 .. (Len(log) + Len(batch))
      /\ \A i \in DOMAIN log : log'[i] = log[i]
      /\ \A n \in DOMAIN records : log'[Len(log) + n] = records[n]
  <2> DEFINE joined == log \o records
  <2>1. /\ IsSeq(joined) /\ Len(log) \in Nat /\ Len(joined) = Len(log) + Len(batch)
        /\ DOMAIN log = 1 .. Len(log) /\ DOMAIN joined = 1 .. (Len(log) + Len(batch))
        /\ \A i \in DOMAIN log : joined[i] = log[i]
        /\ \A n \in DOMAIN records : joined[Len(log) + n] = records[n]
    BY <1>5, Joined
  <2>2. log' = joined
    BY <1>4
  <2> HIDE DEF joined
  <2> QED
    BY <2>1, <2>2
<1>7. ASSUME NEW i \in DOMAIN log' \ DOMAIN log
      PROVE  \E n \in DOMAIN batch : \E p :
                /\ i = Len(log) + n /\ log'[i] = Normalized(batch[n], p)
                /\ Valid(log'[i]) /\ (log'[i].source = "derived" => allow)
  <2>1. i - Len(log) \in 1 .. Len(batch) /\ i = Len(log) + (i - Len(log))
    BY <1>1, <1>6
  <2>2. PICK n \in 1 .. Len(batch) : i = Len(log) + n
    BY <2>1
  <2>3. log'[i] = Normalized(batch[n], prior(n)) /\ Valid(records[n]) /\ log'[i] = records[n]
        /\ (records[n].source = "derived" => allow)
    BY <1>2, <1>4, <1>6, <2>2
  <2> QED
    BY <1>1, <2>2, <2>3
<1> QED
  BY <1>1, <1>4, <1>6, <1>7

-----------------------------------------------------------------------------
(* The inductive invariant.                                                *)

(* A commit's history leads back to the root, and every commit but the     *)
(* root has a parent.                                                      *)
Histories ==
  /\ IsSeq(commits) /\ {head, main} \subseteq DOMAIN commits
  /\ \A c \in DOMAIN commits : /\ {1, c} \subseteq Ancestors(c) /\ Ancestors(c) \subseteq 1 .. c
                               /\ c # 1 => commits[c].parent \in DOMAIN commits

(* An attempt of a run ended at a time of its own, and a run that has      *)
(* completed concluded what its jobs did, and what its last attempt did.   *)
Completed == {k \in DOMAIN runs : runs[k].status = "completed"}
IsAttemptOf(a, k) ==
  /\ a.run = k /\ a.commit = runs[k].commit
  /\ a.at = runs[k].updatedAt /\ a.conclusion = runs[k].conclusion
Runs ==
  /\ IsSeq(runs)
  /\ \A k \in DOMAIN runs : runs[k].commit \in DOMAIN commits
  /\ \A k \in Completed : /\ runs[k].conclusion = ConclusionOf(runs[k].jobs)
                          /\ \E a \in Attempts : IsAttemptOf(a, k)
  /\ \A a \in Attempts : a.at \in Nat /\ a.at <= clock
  /\ \A a, b \in Attempts : a.at = b.at => a = b

(* What a collector says of a CI run is true of the attempt it saw.        *)
SaysOf(e, a) ==
  /\ a.run = e.checks.run_id /\ a.at = e.ts /\ a.commit = e.checks.head_sha
  /\ (\E j \in DOMAIN e.checks.jobs : e.checks.jobs[j] = "FAIL") <=> a.conclusion # "success"
Vouched(e) ==
  e.event = "check_run" /\ e.source = "derived" /\ "run_id" \in DOMAIN e.checks =>
    /\ e.slice = Own /\ {"head_sha", "jobs"} \subseteq DOMAIN e.checks
    /\ \A j \in DOMAIN e.checks.jobs : e.checks.jobs[j] \in {"PASS", "FAIL"}
    /\ \E a \in Attempts : SaysOf(e, a)

(* What a hook says of an agent is true, and no more than its transcript   *)
(* does.                                                                   *)
Backed(e) ==
  e.event = "agent_finish" /\ e.source = "derived" =>
    /\ {"agent_id", "duration"} \subseteq DOMAIN e /\ e.agent_id \in DOMAIN agents
    /\ e.duration \in Int
    /\ e.duration <= agents[e.agent_id].end - agents[e.agent_id].start

Entry(e) == /\ Valid(e) /\ (e.source = "derived" => e.ts <= clock)
            /\ Vouched(e) /\ Backed(e)
Entries == IsSeq(log) /\ clock \in Nat /\ \A i \in DOMAIN log : Entry(log[i])

(* An agent works no longer than its transcript lasts, and one that is not *)
(* working has its record in the log.                                      *)
Recorded(a) ==
  \E i \in DOMAIN log : /\ log[i].event = "agent_finish" /\ log[i].actor = agents[a].role
                        /\ "agent_id" \in DOMAIN log[i] /\ log[i].agent_id = a
Transcript(t) ==
  /\ {"running", "since", "end"} \subseteq DOMAIN t
  /\ t.role \in Roles /\ t.start \in Nat /\ t.since \in Nat /\ t.end \in Nat
  /\ t.start <= t.since /\ t.start <= t.end /\ t.since <= clock /\ t.end <= clock
Transcripts ==
  /\ IsSeq(agents)
  /\ \A a \in DOMAIN agents :
       Transcript(agents[a]) /\ (~ agents[a].running => Recorded(a))

Scored == report \in [SrcFiles -> Int]

IInv == Histories /\ Runs /\ Entries /\ Transcripts /\ Scored

-----------------------------------------------------------------------------
(* What stays: attempts that ended, agents' transcripts, and so what the   *)
(* log says of them.                                                       *)

RunsKept == Attempts \subseteq Attempts'
AgentsKept ==
  \A a \in DOMAIN agents : /\ a \in DOMAIN agents' /\ agents'[a].start = agents[a].start
                           /\ agents[a].end <= agents'[a].end
                           /\ agents[a].start \in Int
                           /\ agents[a].end \in Int /\ agents'[a].end \in Int

(* A record stays as good as it was.                                       *)
LEMMA EntryStays ==
  ASSUME RunsKept, AgentsKept, clock' \in Int, clock \in Int, clock <= clock',
         NEW e, Entry(e)
  PROVE  Entry(e)'
<1>1. Valid(e)' /\ (e.source = "derived" => e.ts <= clock')
  <2>1. Valid(e)' <=> Valid(e)
    BY DEF Valid, Named, Instants
  <2>2. e.ts \in Int
    BY MaxTimeAssumption DEF Entry, Valid, Instants
  <2> QED
    BY <2>1, <2>2 DEF Entry
<1>2. Vouched(e)'
  BY DEF Entry, Vouched, SaysOf, RunsKept
<1>3. Backed(e)'
  <2> SUFFICES ASSUME e.event = "agent_finish", e.source = "derived"
               PROVE  /\ {"agent_id", "duration"} \subseteq DOMAIN e
                      /\ e.agent_id \in DOMAIN agents' /\ e.duration \in Int
                      /\ e.duration <= agents'[e.agent_id].end - agents'[e.agent_id].start
    BY DEF Backed
  <2> QED
    BY DEF Entry, Backed, AgentsKept
<1> QED
  BY <1>1, <1>2, <1>3 DEF Entry

(* So does the log, if nothing is appended.                                *)
LEMMA EntriesStay ==
  ASSUME Entries, RunsKept, AgentsKept, clock' \in Nat, clock <= clock', UNCHANGED log
  PROVE  Entries'
<1>1. IsSeq(log)'
  BY DEF Entries, IsSeq
<1>2. \A i \in DOMAIN log : Entry(log[i])
  BY DEF Entries
<1>3. ASSUME NEW i \in DOMAIN log PROVE Entry(log[i])'
  <2>1. PICK e : e = log[i]
    OBVIOUS
  <2>2. Entry(e)'
    BY <1>2, <2>1, EntryStays DEF Entries
  <2>3. e = log'[i]
    BY <2>1
  <2> QED
    BY <2>2, <2>3 DEF Entry, Vouched, SaysOf, Backed
<1> QED
  BY <1>1, <1>3 DEF Entries

(* And if something is, as long as it is as good.                          *)
LEMMA EntriesGrow ==
  ASSUME Entries, RunsKept, AgentsKept,
         NEW batch, IsSeq(batch), NEW allow, AppendRecords(batch, allow),
         \A n \in DOMAIN batch : \A prior, e :
            /\ e = Normalized(batch[n], prior) /\ Valid(e) /\ (e.source = "derived" => allow)
            => Entry(e)'
  PROVE  Entries'
<1>1. IsSeq(log) /\ clock \in Nat
  BY DEF Entries
<1>2. /\ IsSeq(log') /\ clock' = clock + 1
      /\ \A i \in DOMAIN log : log'[i] = log[i]
      /\ \A i \in DOMAIN log' \ DOMAIN log :
           \E n \in DOMAIN batch : \E prior :
              /\ log'[i] = Normalized(batch[n], prior)
              /\ Valid(log'[i]) /\ (log'[i].source = "derived" => allow)
  BY <1>1, Appended
<1>3. ASSUME NEW i \in DOMAIN log' PROVE Entry(log[i])'
  <2>1. PICK e : e = log'[i]
    OBVIOUS
  <2>2. Entry(e)'
    <3>1. CASE i \in DOMAIN log
      <4>1. Entry(e)
        BY <1>2, <2>1, <3>1 DEF Entries
      <4> QED
        BY <1>1, <1>2, <4>1, EntryStays
    <3>2. CASE i \notin DOMAIN log
      <4>1. PICK n \in DOMAIN batch :
              \E prior : /\ e = Normalized(batch[n], prior)
                         /\ Valid(e) /\ (e.source = "derived" => allow)
        BY <1>2, <2>1, <3>2
      <4> QED
        BY <4>1
    <3> QED
      BY <3>1, <3>2
  <2> QED
    BY <2>1, <2>2 DEF Entry, Vouched, SaysOf, Backed
<1>4. IsSeq(log)' /\ clock' \in Nat
  BY <1>1, <1>2 DEF IsSeq
<1> QED
  BY <1>3, <1>4 DEF Entries

(* The rest of the state, where nothing happens to it.                     *)
LogGrown == \A i \in DOMAIN log : i \in DOMAIN log' /\ log'[i] = log[i]

(* Histories hold of commits that stay.                                    *)
LEMMA HistoriesStay ==
  ASSUME Histories, UNCHANGED <<commits, head, main>>
  PROVE  Histories'
BY DEF Histories, IsSeq, Ancestors

(* What runs say holds as time passes and commits are added.               *)
LEMMA RunsStay ==
  ASSUME Runs, UNCHANGED runs, DOMAIN commits \subseteq DOMAIN commits',
         clock \in Nat, clock' \in Nat, clock <= clock'
  PROVE  Runs' /\ RunsKept
<1>1. Completed' = Completed /\ IsSeq(runs') /\ Attempts' = Attempts
  BY DEF Completed, Attempts, Runs, IsSeq
<1>2. \A a \in Attempts : a.at \in Nat /\ a.at <= clock'
  BY DEF Runs
<1>3. \A k \in Completed : \E a \in Attempts : IsAttemptOf(a, k)'
  BY DEF Runs, IsAttemptOf
<1>4. Runs'
  BY <1>1, <1>2, <1>3 DEF Runs, ConclusionOf, IsSeq
<1> QED
  BY <1>1, <1>4 DEF RunsKept

(* What transcripts say holds as time passes and the log grows.            *)
LEMMA TranscriptsStay ==
  ASSUME Transcripts, UNCHANGED agents, LogGrown, clock \in Nat, clock' \in Nat, clock <= clock'
  PROVE  Transcripts' /\ AgentsKept
<1>1. IsSeq(agents)'
  BY DEF Transcripts, IsSeq
<1>2. \A a \in DOMAIN agents : Recorded(a) => Recorded(a)'
  BY DEF Recorded, LogGrown
<1>3. \A a \in DOMAIN agents : Transcript(agents[a])'
  BY DEF Transcripts, Transcript
<1>4. Transcripts'
  BY <1>1, <1>2, <1>3 DEF Transcripts
<1>5. AgentsKept
  BY DEF Transcripts, Transcript, AgentsKept
<1> QED
  BY <1>4, <1>5

(* The log after records were appended.                                    *)
LEMMA LogGrows ==
  ASSUME Entries, NEW batch, IsSeq(batch), NEW allow, AppendRecords(batch, allow)
  PROVE  LogGrown /\ clock' = clock + 1 /\ clock \in Nat /\ clock' \in Nat /\ clock <= clock'
<1>1. IsSeq(log) /\ clock \in Nat
  BY DEF Entries
<1>2. /\ clock' = clock + 1 /\ Len(log) \in Nat /\ Len(batch) \in Nat
      /\ DOMAIN log = 1 .. Len(log) /\ DOMAIN log' = 1 .. (Len(log) + Len(batch))
      /\ \A i \in DOMAIN log : log'[i] = log[i]
  BY <1>1, Appended
<1> QED
  BY <1>1, <1>2 DEF LogGrown

-----------------------------------------------------------------------------
(* The team's steps.                                                       *)

(* Whoever appends by hand may say anything, but cannot sign as a tool.    *)
LEMMA AppendBatchKeeps ==
  ASSUME IInv, NEW batch \in Offered, AppendBatch(batch), UNCHANGED <<evidenceVars, agentVars>>
  PROVE  IInv'
<1> USE DEF IInv
<1>1. IsSeq(batch) /\ AppendRecords(batch, FALSE)
  BY OfferedAssumption DEF AppendBatch, IsSeq
<1>2. LogGrown /\ clock' = clock + 1 /\ clock \in Nat /\ clock' \in Nat /\ clock <= clock'
  BY <1>1, LogGrows
<1>3. /\ UNCHANGED <<commits, head, main, runs, report, agents>>
      /\ DOMAIN commits \subseteq DOMAIN commits'
  BY DEF evidenceVars, agentVars
<1>4. Histories' /\ Scored'
  BY <1>3, HistoriesStay DEF Scored
<1>5. Runs' /\ RunsKept
  BY <1>2, <1>3, RunsStay
<1>6. Transcripts' /\ AgentsKept
  BY <1>2, <1>3, TranscriptsStay
<1>7. ASSUME NEW n \in DOMAIN batch, NEW prior, NEW e, e = Normalized(batch[n], prior),
             Valid(e), e.source = "derived" => FALSE
      PROVE  Entry(e)'
  <2>1. Valid(e)'
    BY <1>7 DEF Valid, Named, Instants
  <2> QED
    BY <1>7, <2>1 DEF Entry, Vouched, Backed
<1>8. Entries'
  BY <1>1, <1>5, <1>6, <1>7, EntriesGrow
<1> QED
  BY <1>4, <1>5, <1>6, <1>8

(* Nothing but slice files is touched.                                     *)
LEMMA FilesKeep ==
  ASSUME IInv, UNCHANGED <<log, clock, evidenceVars, agents>>
  PROVE  IInv'
<1>1. /\ UNCHANGED <<commits, head, main, runs, report>> /\ clock \in Nat /\ clock' \in Nat
      /\ DOMAIN commits \subseteq DOMAIN commits' /\ clock <= clock' /\ LogGrown
  BY DEF evidenceVars, IInv, Entries, LogGrown
<1>2. Histories' /\ Scored'
  BY <1>1, HistoriesStay DEF IInv, Scored
<1>3. Runs' /\ RunsKept
  BY <1>1, RunsStay DEF IInv
<1>4. Transcripts' /\ AgentsKept
  BY <1>1, TranscriptsStay DEF IInv
<1> QED
  BY <1>1, <1>2, <1>3, <1>4, EntriesStay DEF IInv

(* Whoever writes to the log, or to the other files, keeps the invariant.  *)
LEMMA LogStepKeeps ==
  ASSUME IInv, LogStep
  PROVE  IInv'
<1>1. ASSUME NEW batch \in Offered, AppendBatch(batch)
      PROVE  IInv'
  BY <1>1, AppendBatchKeeps DEF LogStep
<1>2. ASSUME NEW s \in Slices, Edit(s) \/ Close(s) \/ (\E t \in Slices : Fold(s, t))
      PROVE  IInv'
  <2>1. UNCHANGED <<log, clock, evidenceVars, agents>>
    BY <1>2 DEF Edit, Close, Fold, LogStep, agentVars
  <2> QED
    BY <2>1, FilesKeep
<1> QED
  BY <1>1, <1>2 DEF LogStep, LogNext

-----------------------------------------------------------------------------
(* git, CI and the collectors.                                             *)

(* The root is common to all, so there is a merge base.                    *)
LEMMA MergeBaseIs ==
  ASSUME Histories
  PROVE  /\ MergeBase \in Ancestors(main) \cap Ancestors(head)
         /\ MergeBase \in DOMAIN commits /\ MergeBase \in Nat
         /\ \A c \in Ancestors(main) \cap Ancestors(head) : c <= MergeBase
<1> DEFINE C == Ancestors(main) \cap Ancestors(head)
           depths == {head - c : c \in C}
<1>1. DOMAIN commits = 1 .. Len(commits) /\ Len(commits) \in Nat
  BY OverAnySet DEF Histories, IsSeq
<1>2. 1 \in C /\ C \subseteq 1 .. head /\ head \in 1 .. Len(commits)
  BY <1>1 DEF Histories
<1>3. PICK k \in C : \A c \in C : c <= k
  <2>1. depths \in SUBSET Nat /\ depths # {}
    BY <1>2
  <2>2. PICK n \in depths : \A m \in depths : n <= m
    <3> HIDE DEF depths
    <3> QED
      BY <2>1, LeastOf
  <2>3. PICK k \in C : n = head - k
    BY <2>2
  <2>4. \A c \in C : head - k <= head - c
    BY <2>2, <2>3
  <2>5. \A c \in C : c <= k
    <3> HIDE DEF C
    <3> QED
      BY <1>2, <2>4
  <2> QED
    BY <2>5
<1>4. MergeBase \in C /\ \A c \in C : c <= MergeBase
  BY <1>3 DEF MergeBase, Youngest
<1> QED
  BY <1>1, <1>2, <1>4

(* A commit has the history of its parent and itself; others keep theirs.  *)
LEMMA Committed ==
  ASSUME Histories, NEW d, Commit(d)
  PROVE  /\ head' = Len(commits) + 1 /\ DOMAIN commits = 1 .. Len(commits) /\ Len(commits) \in Nat
         /\ IsSeq(commits') /\ DOMAIN commits' = 1 .. (Len(commits) + 1)
         /\ \A c \in DOMAIN commits : commits'[c] = commits[c] /\ Ancestors(c)' = Ancestors(c)
         /\ commits'[head'].parent = head
         /\ commits'[head'].history = Ancestors(head) \cup {head'}
<1> DEFINE new == Len(commits) + 1
           x == commits[head]
           e == [parent |-> head, history |-> x.history \cup {new}, own |-> d.own, red |-> d.red,
                 hand |-> Flip(x.hand, d.hand), generated |-> Flip(x.generated, d.generated),
                 src |-> Flip(x.src, d.src)]
<1>1. commits' = Append(commits, e) /\ head' = new
  BY DEF Commit
<1>2. e.parent = head /\ e.history = Ancestors(head) \cup {new}
  BY DEF Ancestors
<1> HIDE DEF e
<1> DEFINE cs == Append(commits, e)
<1>3. /\ IsSeq(cs) /\ Len(commits) \in Nat /\ DOMAIN commits = 1 .. Len(commits)
      /\ DOMAIN cs = 1 .. (Len(commits) + 1)
      /\ \A i \in DOMAIN commits : cs[i] = commits[i]
      /\ cs[Len(commits) + 1] = e
  BY Followed DEF Histories
<1> HIDE DEF cs
<1>4. commits' = cs
  BY <1>1 DEF cs
<1> QED
  BY <1>1, <1>2, <1>3, <1>4 DEF Ancestors

(* A commit has its parent's history and itself.                           *)
LEMMA CommitKeeps ==
  ASSUME Histories, NEW d, Commit(d)
  PROVE  Histories'
<1>1. /\ head' = Len(commits) + 1 /\ DOMAIN commits = 1 .. Len(commits) /\ Len(commits) \in Nat
      /\ IsSeq(commits') /\ DOMAIN commits' = 1 .. (Len(commits) + 1)
      /\ \A c \in DOMAIN commits : commits'[c] = commits[c]
      /\ commits'[head'].parent = head /\ commits'[head'].history = Ancestors(head) \cup {head'}
  BY Committed
<1>2. main' = main
  BY DEF Commit
<1>3. ASSUME NEW c \in DOMAIN commits'
      PROVE  /\ {1, c} \subseteq commits'[c].history /\ commits'[c].history \subseteq 1 .. c
             /\ c # 1 => commits'[c].parent \in DOMAIN commits'
  <2>1. CASE c \in DOMAIN commits
    BY <1>1, <2>1 DEF Histories, Ancestors
  <2>2. CASE c \notin DOMAIN commits
    <3>1. c = head' /\ head \in 1 .. Len(commits)
      BY <1>1, <2>2 DEF Histories
    <3>2. 1 \in Ancestors(head) /\ Ancestors(head) \subseteq 1 .. head
      BY DEF Histories
    <3> QED
      BY <1>1, <3>1, <3>2
  <2> QED
    BY <2>1, <2>2
<1>4. {head', main'} \subseteq DOMAIN commits'
  BY <1>1, <1>2 DEF Histories
<1> QED
  BY <1>1, <1>3, <1>4 DEF Histories, Ancestors, IsSeq

(* Work on the branch, and what CI starts of it, keep the invariant.       *)
LEMMA EvidenceMoves ==
  ASSUME IInv, UNCHANGED agentVars,
         (\E d \in Deltas : Commit(d)) \/ Rewind \/ Merge \/ Push \/ Stryker
  PROVE  IInv'
<1> USE DEF IInv
<1>1. UNCHANGED logVars
  BY DEF Commit, Rewind, Merge, Push, Stryker
<1>2. /\ UNCHANGED <<log, agents>> /\ clock \in Nat /\ clock' \in Nat /\ clock <= clock'
      /\ LogGrown
  BY <1>1 DEF logVars, agentVars, Entries, LogGrown
<1>3. Histories' /\ DOMAIN commits \subseteq DOMAIN commits'
  <2>1. ASSUME NEW d \in Deltas, Commit(d)
        PROVE  Histories' /\ DOMAIN commits \subseteq DOMAIN commits'
    <3>1. /\ DOMAIN commits = 1 .. Len(commits) /\ Len(commits) \in Nat
          /\ DOMAIN commits' = 1 .. (Len(commits) + 1)
      BY <2>1, Committed
    <3> QED
      BY <2>1, <3>1, CommitKeeps
  <2>2. CASE Rewind
    <3>1. MergeBase \in Ancestors(main) \cap Ancestors(head) /\ MergeBase # head
      BY <2>2, MergeBaseIs DEF Rewind
    <3>2. head # 1
      BY <3>1 DEF Histories
    <3>3. head' \in DOMAIN commits /\ UNCHANGED <<commits, main>>
      BY <2>2, <3>2 DEF Rewind, Histories
    <3> QED
      BY <3>3 DEF Histories, IsSeq, Ancestors
  <2>3. CASE Merge
    BY <2>3 DEF Merge, Histories, IsSeq, Ancestors
  <2>4. CASE Push \/ Stryker
    BY <2>4, HistoriesStay DEF Push, Stryker
  <2> QED
    BY <2>1, <2>2, <2>3, <2>4
<1>4. Runs' /\ RunsKept
  <2>1. CASE Push
    <3> DEFINE e == [commit |-> head, status |-> "in_progress", ended |-> {}]
               rs == Append(runs, e)
    <3>1. /\ IsSeq(rs) /\ Len(runs) \in Nat /\ DOMAIN runs = 1 .. Len(runs)
          /\ DOMAIN rs = 1 .. (Len(runs) + 1)
          /\ \A i \in DOMAIN runs : rs[i] = runs[i]
          /\ rs[Len(runs) + 1] = e
      BY Followed DEF Runs
    <3>2. runs' = rs /\ e.status # "completed" /\ e.commit = head /\ e.ended = {}
      BY <2>1 DEF Push
    <3> HIDE DEF rs, e
    <3>3. /\ IsSeq(runs') /\ Completed' = Completed /\ DOMAIN runs' = 1 .. (Len(runs) + 1)
          /\ \A i \in DOMAIN runs : runs'[i] = runs[i]
          /\ runs'[Len(runs) + 1].commit = head /\ runs'[Len(runs) + 1].ended = {}
      BY <3>1, <3>2 DEF Completed
    <3>4. \A k \in DOMAIN runs' : runs'[k].commit \in DOMAIN commits'
      BY <1>3, <3>1, <3>3 DEF Runs, Histories
    <3>5. Attempts' = Attempts
      <4>1. Attempts' = UNION {runs'[k].ended : k \in DOMAIN runs'}
        BY DEF Attempts
      <4>2. \A k \in DOMAIN runs' : k \in DOMAIN runs \/ runs'[k].ended = {}
        BY <3>1, <3>3
      <4>3. \A k \in DOMAIN runs : k \in DOMAIN runs' /\ runs'[k].ended = runs[k].ended
        BY <3>1, <3>3
      <4> QED
        BY <4>1, <4>2, <4>3 DEF Attempts
    <3>6. \A k \in Completed : /\ runs'[k].conclusion = ConclusionOf(runs'[k].jobs)
                               /\ \E a \in Attempts : IsAttemptOf(a, k)'
      BY <3>1, <3>3 DEF Runs, Completed, IsAttemptOf
    <3>7. \A a \in Attempts : a.at \in Nat /\ a.at <= clock'
      BY <1>2 DEF Runs
    <3>8. Runs'
      BY <3>3, <3>4, <3>5, <3>6, <3>7 DEF Runs, IsSeq, ConclusionOf
    <3> QED
      BY <3>5, <3>8 DEF RunsKept
  <2>2. CASE ~ Push
    <3>1. UNCHANGED runs
      BY <2>2 DEF Commit, Rewind, Merge, Stryker
    <3> QED
      BY <1>2, <1>3, <3>1, RunsStay
  <2> QED
    BY <2>1, <2>2
<1>5. Scored'
  BY ScoreAssumption DEF Scored, Commit, Rewind, Merge, Push, Stryker
<1>6. Transcripts' /\ AgentsKept
  BY <1>2, TranscriptsStay
<1> QED
  BY <1>2, <1>3, <1>4, <1>5, <1>6, EntriesStay

(* One run changes and keeps what its earlier attempts did.                *)
LEMMA OneRunChanges ==
  ASSUME Runs, NEW k \in DOMAIN runs, NEW e, runs' = [runs EXCEPT ![k] = e],
         runs[k].ended \subseteq e.ended
  PROVE  /\ IsSeq(runs') /\ DOMAIN runs' = DOMAIN runs /\ runs'[k] = e
         /\ \A l \in DOMAIN runs \ {k} : runs'[l] = runs[l]
         /\ Attempts' = Attempts \cup e.ended
<1>1. /\ DOMAIN runs' = DOMAIN runs /\ runs'[k] = e
      /\ \A l \in DOMAIN runs \ {k} : runs'[l] = runs[l]
  OBVIOUS
<1>2. IsSeq(runs')
  <2>1. Len(runs) \in Nat /\ DOMAIN runs = 1 .. Len(runs)
    BY OverAnySet DEF Runs, IsSeq
  <2> DEFINE R == {runs'[l] : l \in DOMAIN runs'}
  <2>2. runs' \in [1 .. Len(runs) -> R]
    BY <1>1, <2>1
  <2> HIDE DEF R
  <2> QED
    BY <2>1, <2>2, Listed
<1>3. Attempts' = Attempts \cup e.ended
  <2>1. Attempts' = UNION {runs'[l].ended : l \in DOMAIN runs'}
    BY DEF Attempts
  <2>2. \A l \in DOMAIN runs : runs'[l].ended = IF l = k THEN e.ended ELSE runs[l].ended
    BY <1>1
  <2> QED
    BY <1>1, <2>1, <2>2 DEF Attempts
<1> QED
  BY <1>1, <1>2, <1>3

(* An attempt ends at a new time.                                          *)
LEMMA FinishKeeps ==
  ASSUME IInv, UNCHANGED agentVars, NEW k \in DOMAIN runs, Finish(k)
  PROVE  IInv'
<1> USE DEF IInv
<1> DEFINE jobs(o) == Conclusions(o, runs[k].commit)
           attempt(o) == [run |-> k, commit |-> runs[k].commit, at |-> clock + 1,
                          conclusion |-> ConclusionOf(jobs(o))]
           ending(o) == [commit |-> runs[k].commit, status |-> "completed",
                         updatedAt |-> attempt(o).at, outcome |-> o, jobs |-> jobs(o),
                         conclusion |-> attempt(o).conclusion,
                         ended |-> runs[k].ended \cup {attempt(o)}]
<1>1. PICK o \in Outcomes : runs' = [runs EXCEPT ![k] = ending(o)]
  BY DEF Finish
<1>2. PICK b, e :
        /\ runs' = [runs EXCEPT ![k] = e]
        /\ b.run = k /\ b.commit = runs[k].commit /\ b.at = clock + 1
        /\ e.commit = runs[k].commit /\ e.status = "completed" /\ e.updatedAt = clock + 1
        /\ e.conclusion = ConclusionOf(e.jobs) /\ e.conclusion = b.conclusion
        /\ e.ended = runs[k].ended \cup {b}
  <2> DEFINE b == attempt(o)
             e == ending(o)
  <2>1. /\ b.run = k /\ b.commit = runs[k].commit /\ b.at = clock + 1
        /\ e.commit = runs[k].commit /\ e.status = "completed" /\ e.updatedAt = clock + 1
        /\ e.conclusion = ConclusionOf(e.jobs) /\ e.conclusion = b.conclusion
        /\ e.ended = runs[k].ended \cup {b}
    OBVIOUS
  <2>2. runs' = [runs EXCEPT ![k] = e]
    BY <1>1
  <2> HIDE DEF b, e
  <2> QED
    BY <2>1, <2>2
<1> HIDE DEF jobs, attempt, ending
<1>3. /\ UNCHANGED <<commits, head, main, report, log, agents>> /\ clock' = clock + 1
      /\ clock \in Nat /\ clock' \in Nat /\ clock <= clock' /\ LogGrown
      /\ runs[k].status # "completed"
  BY DEF Finish, agentVars, Entries, LogGrown
<1>4. /\ IsSeq(runs') /\ DOMAIN runs' = DOMAIN runs /\ runs'[k] = e
      /\ \A l \in DOMAIN runs \ {k} : runs'[l] = runs[l]
      /\ Attempts' = Attempts \cup {b}
  <2>1. runs[k].ended \subseteq Attempts
    BY DEF Attempts
  <2>2. runs[k].ended \subseteq e.ended
    BY <1>2
  <2>3. /\ IsSeq(runs') /\ DOMAIN runs' = DOMAIN runs /\ runs'[k] = e
        /\ \A l \in DOMAIN runs \ {k} : runs'[l] = runs[l]
        /\ Attempts' = Attempts \cup e.ended
    BY <1>2, <2>2, OneRunChanges
  <2> QED
    BY <1>2, <2>1, <2>3
<1>5. RunsKept
  BY <1>4 DEF RunsKept
<1>6. Runs'
  <2>1. \A l \in DOMAIN runs' : runs'[l].commit \in DOMAIN commits'
    BY <1>2, <1>3, <1>4 DEF Runs
  <2>2. ASSUME NEW l \in Completed'
        PROVE  /\ runs'[l].conclusion = ConclusionOf(runs'[l].jobs)
               /\ \E a \in Attempts' : IsAttemptOf(a, l)'
    <3>1. CASE l = k
      BY <1>2, <1>4, <3>1 DEF IsAttemptOf
    <3>2. CASE l # k
      <4>1. l \in Completed /\ runs'[l] = runs[l]
        BY <1>4, <3>2 DEF Completed
      <4> QED
        BY <1>4, <4>1 DEF Runs, IsAttemptOf
    <3> QED
      BY <3>1, <3>2
  <2>3. \A a \in Attempts' : a.at \in Nat /\ a.at <= clock'
    BY <1>2, <1>3, <1>4 DEF Runs
  <2>4. \A a, c \in Attempts' : a.at = c.at => a = c
    <3>1. \A a \in Attempts : a.at # b.at
      BY <1>2, <1>3 DEF Runs
    <3> QED
      BY <1>4, <3>1 DEF Runs
  <2> QED
    BY <1>4, <2>1, <2>2, <2>3, <2>4 DEF Runs, IsSeq, ConclusionOf
<1>7. Histories' /\ Scored'
  BY <1>3, HistoriesStay DEF Scored
<1>8. Transcripts' /\ AgentsKept
  BY <1>3, TranscriptsStay
<1> QED
  BY <1>3, <1>5, <1>6, <1>7, <1>8, EntriesStay

(* A run that is run again has not completed, but its attempts have ended. *)
LEMMA RerunKeeps ==
  ASSUME IInv, UNCHANGED agentVars, NEW k \in DOMAIN runs, Rerun(k)
  PROVE  IInv'
<1> USE DEF IInv
<1>1. PICK e : /\ runs' = [runs EXCEPT ![k] = e] /\ e.commit = runs[k].commit
               /\ e.status = "in_progress" /\ e.ended = runs[k].ended
  <2> DEFINE e == [commit |-> runs[k].commit, status |-> "in_progress",
                   ended |-> runs[k].ended]
  <2>1. /\ runs' = [runs EXCEPT ![k] = e] /\ e.commit = runs[k].commit
        /\ e.status = "in_progress" /\ e.ended = runs[k].ended
    BY DEF Rerun
  <2> HIDE DEF e
  <2> QED
    BY <2>1
<1>2. /\ UNCHANGED <<commits, head, main, report, log, clock, agents>>
      /\ clock \in Nat /\ clock' \in Nat /\ clock <= clock' /\ LogGrown
  BY DEF Rerun, logVars, agentVars, Entries, LogGrown
<1>3. /\ IsSeq(runs') /\ DOMAIN runs' = DOMAIN runs /\ runs'[k] = e
      /\ \A l \in DOMAIN runs \ {k} : runs'[l] = runs[l]
      /\ Attempts' = Attempts
  <2>1. e.ended \subseteq Attempts /\ runs[k].ended \subseteq e.ended
    BY <1>1 DEF Attempts
  <2>2. /\ IsSeq(runs') /\ DOMAIN runs' = DOMAIN runs /\ runs'[k] = e
        /\ \A l \in DOMAIN runs \ {k} : runs'[l] = runs[l]
        /\ Attempts' = Attempts \cup e.ended
    BY <1>1, <2>1, OneRunChanges
  <2> QED
    BY <2>1, <2>2
<1>4. \A l \in Completed' : l \in Completed /\ runs'[l] = runs[l]
  BY <1>1, <1>3 DEF Completed
<1>5. Runs' /\ RunsKept
  <2>1. \A l \in DOMAIN runs' : runs'[l].commit \in DOMAIN commits'
    BY <1>1, <1>2, <1>3 DEF Runs
  <2>2. \A l \in Completed' : /\ runs'[l].conclusion = ConclusionOf(runs'[l].jobs)
                              /\ \E a \in Attempts' : IsAttemptOf(a, l)'
    BY <1>3, <1>4 DEF Runs, IsAttemptOf
  <2> QED
    BY <1>2, <1>3, <2>1, <2>2 DEF Runs, RunsKept, IsSeq, ConclusionOf
<1>6. Histories' /\ Scored'
  BY <1>2, HistoriesStay DEF Scored
<1>7. Transcripts' /\ AgentsKept
  BY <1>2, TranscriptsStay
<1> QED
  BY <1>2, <1>5, <1>6, <1>7, EntriesStay

(* What the collector writes of a run that ended is true: where the run    *)
(* did not succeed, something says so.                                     *)
LEMMA RecordOfRun ==
  ASSUME Runs, NEW k \in Completed, NEW r, r = ToCheckRunRecord(k)
  PROVE  /\ DOMAIN r = {"ts", "slice", "event", "source", "checks"}
         /\ r.slice = Own /\ r.event = "check_run" /\ r.source = "derived"
         /\ r.ts = runs[k].updatedAt /\ r.checks.run_id = k
         /\ r.checks.head_sha = runs[k].commit
         /\ DOMAIN r.checks = {"run_id", "head_sha", "conclusion", "depcruise", "red_proof", "jobs"}
         /\ \A j \in DOMAIN r.checks.jobs : r.checks.jobs[j] \in {"PASS", "FAIL"}
         /\ (\E j \in DOMAIN r.checks.jobs : r.checks.jobs[j] = "FAIL")
              <=> runs[k].conclusion # "success"
<1> DEFINE run == runs[k]
           said == [j \in DOMAIN run.jobs |-> PassFail(run.jobs[j])]
           jobs == JobsOf(run)
<1>1. /\ DOMAIN r = {"ts", "slice", "event", "source", "checks"}
      /\ r.slice = Own /\ r.event = "check_run" /\ r.source = "derived"
      /\ r.ts = runs[k].updatedAt /\ r.checks.run_id = k
      /\ r.checks.head_sha = runs[k].commit /\ r.checks.jobs = jobs
      /\ DOMAIN r.checks = {"run_id", "head_sha", "conclusion", "depcruise", "red_proof", "jobs"}
  BY DEF ToCheckRunRecord
<1>2. run.conclusion = "success" => \A j \in DOMAIN run.jobs : run.jobs[j] = "success"
  BY DEF Runs, ConclusionOf
<1>3. run.conclusion = "success" => \A j \in DOMAIN jobs : jobs[j] # "FAIL"
  BY <1>2 DEF JobsOf, PassFail
<1>4. ASSUME run.conclusion # "success" PROVE \E j \in DOMAIN jobs : jobs[j] = "FAIL"
  <2>1. CASE \A j \in DOMAIN said : said[j] # "FAIL"
    <3> DEFINE own == [workflow |-> "FAIL"]
    <3>1. jobs = Filled(own, said)
      BY <1>4, <2>1 DEF JobsOf
    <3>2. DOMAIN own = {"workflow"} /\ own["workflow"] = "FAIL"
      OBVIOUS
    <3> HIDE DEF own, said, jobs
    <3>3. "workflow" \in DOMAIN jobs /\ jobs["workflow"] = "FAIL"
      BY <3>1, <3>2 DEF Filled
    <3> QED
      BY <3>3
  <2>2. CASE ~ \A j \in DOMAIN said : said[j] # "FAIL"
    <3>1. jobs = said
      BY <2>2 DEF JobsOf
    <3> QED
      BY <2>2, <3>1
  <2> QED
    BY <2>1, <2>2
<1>5. \A j \in DOMAIN jobs : jobs[j] \in {"PASS", "FAIL"}
  <2> DEFINE own == [workflow |-> "FAIL"]
  <2>1. \A j \in DOMAIN said : said[j] \in {"PASS", "FAIL"}
    BY DEF PassFail
  <2>2. jobs = said \/ jobs = Filled(own, said)
    BY DEF JobsOf
  <2>3. DOMAIN own = {"workflow"} /\ own["workflow"] = "FAIL"
    OBVIOUS
  <2> HIDE DEF own, said, jobs
  <2> QED
    BY <2>1, <2>2, <2>3 DEF Filled
<1> HIDE DEF jobs
<1> QED
  BY <1>1, <1>3, <1>4, <1>5

(* What it appends are such records.                                       *)
LEMMA CiBatch ==
  ASSUME Runs, NEW I \in SUBSET DOMAIN runs, CollectCi(I)
  PROVE  \E batch : /\ IsSeq(batch) /\ AppendRecords(batch, TRUE)
                    /\ \A n \in DOMAIN batch :
                         \E k \in Completed : batch[n] = ToCheckRunRecord(k)
<1>1. PICK q \in InOrder(Fresh(I)) :
        AppendRecords([n \in DOMAIN q |-> ToCheckRunRecord(q[n])], TRUE)
  BY DEF CollectCi
<1> DEFINE batch == [n \in DOMAIN q |-> ToCheckRunRecord(q[n])]
<1>2. /\ DOMAIN q = 1 .. Cardinality(Fresh(I)) /\ \A n \in DOMAIN q : q[n] \in Completed
  BY DEF InOrder, Fresh, Completed
<1>3. Cardinality(Fresh(I)) \in Nat
  <2>1. Len(runs) \in Nat /\ DOMAIN runs = 1 .. Len(runs)
    BY OverAnySet DEF Runs, IsSeq
  <2>2. IsFiniteSet(DOMAIN runs)
    BY <2>1, FS_Interval
  <2>3. Fresh(I) \subseteq DOMAIN runs
    BY DEF Fresh
  <2> QED
    BY <2>2, <2>3, FS_Subset, FS_CardinalityType
<1>4. IsSeq(batch)
  <2> DEFINE S == {ToCheckRunRecord(q[n]) : n \in DOMAIN q}
  <2>1. batch \in [1 .. Cardinality(Fresh(I)) -> S]
    BY <1>2
  <2> HIDE DEF batch, S
  <2> QED
    BY <1>3, <2>1, Listed
<1>5. AppendRecords(batch, TRUE)
  BY <1>1
<1>6. \A n \in DOMAIN batch : q[n] \in Completed /\ batch[n] = ToCheckRunRecord(q[n])
  BY <1>2
<1> HIDE DEF batch
<1> QED
  BY <1>4, <1>5, <1>6

(* collect-ci keeps the invariant: what it appends says of a run what its  *)
(* last attempt says.                                                      *)
LEMMA CollectCiKeeps ==
  ASSUME IInv, UNCHANGED agentVars, NEW I \in SUBSET DOMAIN runs, CollectCi(I)
  PROVE  IInv'
<1> USE DEF IInv
<1>1. PICK batch : /\ IsSeq(batch) /\ AppendRecords(batch, TRUE)
                   /\ \A n \in DOMAIN batch :
                        \E k \in Completed : batch[n] = ToCheckRunRecord(k)
  BY CiBatch
<1>2. AppendRecords(batch, TRUE) /\ UNCHANGED <<commits, head, main, runs, report, agents>>
  BY <1>1 DEF CollectCi, evidenceVars, agentVars
<1>3. LogGrown /\ clock' = clock + 1 /\ clock \in Nat /\ clock' \in Nat /\ clock <= clock'
  BY <1>1, <1>2, LogGrows
<1>4. Histories' /\ Scored' /\ DOMAIN commits \subseteq DOMAIN commits'
  BY <1>2, HistoriesStay DEF Scored
<1>5. Runs' /\ RunsKept
  BY <1>2, <1>3, <1>4, RunsStay
<1>6. Transcripts' /\ AgentsKept
  BY <1>2, <1>3, TranscriptsStay
<1>7. ASSUME NEW n \in DOMAIN batch, NEW prior, NEW e, e = Normalized(batch[n], prior), Valid(e)
      PROVE  Entry(e)'
  <2>1. \A x \in DOMAIN batch[n] : e[x] = batch[n][x]
    BY <1>7, NormalizedIs
  <2>2. PICK k \in Completed : batch[n] = ToCheckRunRecord(k)
    BY <1>1
  <2>3. PICK a \in Attempts : IsAttemptOf(a, k)
    BY DEF Runs
  <2>4. /\ e.slice = Own /\ e.event = "check_run"
        /\ e.ts = runs[k].updatedAt /\ e.checks = batch[n].checks
    BY <2>1, <2>2, RecordOfRun
  <2>5. /\ {"head_sha", "jobs"} \subseteq DOMAIN e.checks
        /\ \A j \in DOMAIN e.checks.jobs : e.checks.jobs[j] \in {"PASS", "FAIL"}
        /\ e.checks.run_id = k /\ e.checks.head_sha = runs[k].commit
        /\ (\E j \in DOMAIN e.checks.jobs : e.checks.jobs[j] = "FAIL")
              <=> runs[k].conclusion # "success"
    BY <2>2, <2>4, RecordOfRun
  <2>6. SaysOf(e, a) /\ a \in Attempts'
    BY <1>5, <2>3, <2>4, <2>5 DEF SaysOf, IsAttemptOf, RunsKept
  <2>7. Vouched(e)'
    <3>1. SaysOf(e, a)'
      BY <2>6 DEF SaysOf
    <3> QED
      BY <2>4, <2>5, <2>6, <3>1 DEF Vouched
  <2>8. e.ts \in Nat /\ e.ts <= clock'
    BY <1>3, <2>3, <2>4 DEF Runs, IsAttemptOf
  <2>9. Valid(e)'
    BY <1>7 DEF Valid, Named, Instants
  <2> QED
    BY <2>4, <2>7, <2>8, <2>9 DEF Entry, Backed
<1>8. Entries'
  BY <1>1, <1>2, <1>5, <1>6, <1>7, EntriesGrow
<1> QED
  BY <1>4, <1>5, <1>6, <1>8

(* A single record, and what it says.                                      *)
LEMMA SingleRecord ==
  ASSUME NEW r
  PROVE  IsSeq(<<r>>) /\ DOMAIN <<r>> = {1} /\ <<r>>[1] = r /\ Len(<<r>>) = 1
<1> DEFINE q == <<r>>
<1>1. q \in Seq({r}) /\ Len(q) = 1 /\ q[1] = r
  OBVIOUS
<1>2. IsSeq(q) /\ DOMAIN q = 1 .. Len(q)
  BY <1>1, OverAnySet
<1> QED
  BY <1>1, <1>2

(* The record of Stryker's report, by what it says and what not.           *)
ScoreRecord(r) ==
  /\ DOMAIN r = {"event", "slice", "source", "checks"}
  /\ r.event = "check_run" /\ r.slice = Own
  /\ \A x \in DOMAIN ToChecks : x \in DOMAIN r.checks /\ r.checks[x] = ToChecks[x]
  /\ DOMAIN r.checks \subseteq DOMAIN ToChecks \cup {"mutation_report_partial"}
  /\ Measured # ChangedFiles => "mutation_report_partial" \in DOMAIN r.checks

(* collect-mutation appends one record, of the report that lies there,     *)
(* marked partial when the report leaves out a changed file.               *)
LEMMA CollectedScores ==
  ASSUME NEW allow \in BOOLEAN, CollectMutation(allow)
  PROVE  \E r : ScoreRecord(r) /\ AppendRecords(<<r>>, TRUE)
<1> DEFINE partial == Measured # ChangedFiles /\ allow
           mark    == [mutation_report_partial |-> TRUE]
           checks  == IF partial THEN Filled(ToChecks, mark) ELSE ToChecks
           r       == [event |-> "check_run", slice |-> Own, source |-> "derived",
                       checks |-> checks]
<1>1. AppendRecords(<<r>>, TRUE) /\ (Measured # ChangedFiles => partial)
  BY DEF CollectMutation, Refused
<1>2. /\ DOMAIN r = {"event", "slice", "source", "checks"}
      /\ r.event = "check_run" /\ r.slice = Own /\ r.checks = checks
  OBVIOUS
<1>3. DOMAIN mark = {"mutation_report_partial"}
  OBVIOUS
<1>4. CASE partial
  <2>1. checks = Filled(ToChecks, mark)
    BY <1>4
  <2> HIDE DEF r, checks, mark, partial
  <2>2. ScoreRecord(r)
    BY <1>2, <1>3, <2>1 DEF ScoreRecord, Filled
  <2> QED
    BY <1>1, <2>2
<1>5. CASE ~ partial
  <2>1. checks = ToChecks
    BY <1>5
  <2> HIDE DEF r, checks, mark, partial
  <2>2. ScoreRecord(r)
    BY <1>1, <1>2, <1>5, <2>1 DEF ScoreRecord
  <2> QED
    BY <1>1, <2>2
<1> QED
  BY <1>4, <1>5

(* collect-mutation keeps the invariant.                                   *)
LEMMA CollectMutationKeeps ==
  ASSUME IInv, UNCHANGED agentVars, NEW allow \in BOOLEAN, CollectMutation(allow)
  PROVE  IInv'
<1> USE DEF IInv
<1>1. PICK r : ScoreRecord(r) /\ AppendRecords(<<r>>, TRUE)
  BY CollectedScores
<1>2. UNCHANGED <<commits, head, main, runs, report, agents>>
  BY DEF CollectMutation, evidenceVars, agentVars
<1>3. IsSeq(<<r>>) /\ DOMAIN <<r>> = {1} /\ <<r>>[1] = r
  BY SingleRecord
<1>4. LogGrown /\ clock' = clock + 1 /\ clock \in Nat /\ clock' \in Nat /\ clock <= clock'
  BY <1>1, <1>3, LogGrows
<1>5. Histories' /\ Scored' /\ DOMAIN commits \subseteq DOMAIN commits'
  BY <1>2, HistoriesStay DEF Scored
<1>6. Runs' /\ RunsKept
  BY <1>2, <1>4, <1>5, RunsStay
<1>7. Transcripts' /\ AgentsKept
  BY <1>2, <1>4, TranscriptsStay
<1>8. ASSUME NEW n \in DOMAIN <<r>>, NEW prior, NEW e, e = Normalized(<<r>>[n], prior), Valid(e)
      PROVE  Entry(e)'
  <2>1. e = Normalized(r, prior)
    BY <1>3, <1>8
  <2>2. /\ e.ts = clock + 1 /\ e.event = "check_run" /\ e.checks = r.checks
    BY <1>1, <2>1, NormalizedIs DEF ScoreRecord
  <2>3. "run_id" \notin DOMAIN e.checks
    BY <1>1, <2>2 DEF ScoreRecord, ToChecks
  <2>4. Valid(e)'
    BY <1>8 DEF Valid, Named, Instants
  <2> QED
    BY <1>4, <2>2, <2>3, <2>4 DEF Entry, Vouched, Backed
<1>9. Entries'
  BY <1>1, <1>3, <1>6, <1>7, <1>8, EntriesGrow
<1> QED
  BY <1>5, <1>6, <1>7, <1>9

(* So does every step on the evidence.                                     *)
LEMMA EvidenceStepKeeps ==
  ASSUME IInv, EvidenceStep
  PROVE  IInv'
BY EvidenceMoves, FinishKeeps, RerunKeeps, CollectCiKeeps, CollectMutationKeeps
   DEF EvidenceStep, EvidenceNext

-----------------------------------------------------------------------------
(* Agents.                                                                 *)

(* A step that leaves the log alone and takes a moment.                    *)
LEMMA MomentPasses ==
  ASSUME IInv, UNCHANGED <<log, evidenceVars>>, clock' = clock + 1, Transcripts', AgentsKept
  PROVE  IInv'
<1>1. /\ UNCHANGED <<commits, head, main, runs, report>> /\ clock \in Nat /\ clock' \in Nat
      /\ DOMAIN commits \subseteq DOMAIN commits' /\ clock <= clock'
  BY DEF evidenceVars, IInv, Entries
<1>2. Histories' /\ Scored'
  BY <1>1, HistoriesStay DEF IInv, Scored
<1>3. Runs' /\ RunsKept
  BY <1>1, RunsStay DEF IInv
<1> QED
  BY <1>1, <1>2, <1>3, EntriesStay DEF IInv

(* The dispatch of an agent keeps the invariant: its record is appended    *)
(* at the moment its transcript starts.                                    *)
LEMMA DispatchKeeps ==
  ASSUME IInv, NEW r \in Roles, Dispatch(r)
  PROVE  IInv'
<1> USE DEF IInv
<1> DEFINE e == [role |-> r, n |-> Cardinality(Captured(r)) + 1, running |-> TRUE,
                 start |-> clock + 1, since |-> clock + 1, end |-> clock + 1]
           as == Append(agents, e)
<1>1. /\ e.role = r /\ e.running = TRUE /\ {"running", "since", "end"} \subseteq DOMAIN e
      /\ e.start = clock + 1 /\ e.since = clock + 1 /\ e.end = clock + 1
  OBVIOUS
<1>2. agents' = as /\ clock' = clock + 1 /\ UNCHANGED <<log, evidenceVars>> /\ clock \in Nat
  BY DEF Dispatch, Entries
<1> HIDE DEF e
<1>3. /\ IsSeq(as) /\ Len(agents) \in Nat /\ DOMAIN agents = 1 .. Len(agents)
      /\ DOMAIN as = 1 .. (Len(agents) + 1)
      /\ \A a \in DOMAIN agents : as[a] = agents[a]
      /\ as[Len(agents) + 1] = e
  BY Followed DEF Transcripts
<1> HIDE DEF as
<1>4. /\ IsSeq(agents') /\ DOMAIN agents' = 1 .. (Len(agents) + 1)
      /\ \A a \in DOMAIN agents : a \in DOMAIN agents' /\ agents'[a] = agents[a]
      /\ agents'[Len(agents) + 1] = e
  <2>1. agents' = as
    BY <1>2
  <2>2. \A a \in DOMAIN agents : a \in 1 .. (Len(agents) + 1)
    BY <1>3
  <2>3. \A a \in DOMAIN agents : a \in DOMAIN agents' /\ agents'[a] = agents[a]
    BY <1>3, <2>1, <2>2
  <2> QED
    BY <1>3, <2>1, <2>3
<1>5. \A a \in DOMAIN agents' : a \in DOMAIN agents \/ agents'[a] = e
  BY <1>3, <1>4
<1>6. AgentsKept
  BY <1>4 DEF AgentsKept, Transcripts, Transcript
<1>7. Transcripts'
  <2>1. IsSeq(agents)'
    BY <1>4 DEF IsSeq
  <2>2. ASSUME NEW a \in DOMAIN agents'
        PROVE  Transcript(agents[a])' /\ (~ agents'[a].running => Recorded(a)')
    <3>1. CASE a \in DOMAIN agents
      <4>1. agents'[a] = agents[a] /\ Transcript(agents[a])
        BY <1>4, <3>1 DEF Transcripts
      <4>2. Transcript(agents[a])'
        BY <1>2, <4>1 DEF Transcript
      <4>3. Recorded(a) => Recorded(a)'
        BY <1>2, <4>1 DEF Recorded
      <4> QED
        BY <3>1, <4>1, <4>2, <4>3 DEF Transcripts
    <3>2. CASE agents'[a] = e
      BY <1>1, <1>2, <3>2 DEF Transcript
    <3> QED
      BY <1>5, <3>1, <3>2
  <2> QED
    BY <2>1, <2>2 DEF Transcripts
<1> QED
  BY <1>2, <1>6, <1>7, MomentPasses

(* One transcript changes: what is left to show of the others.             *)
LEMMA OneChanges ==
  ASSUME IInv, LogGrown, clock' = clock + 1, NEW a \in DOMAIN agents, NEW t,
         agents' = [agents EXCEPT ![a] = t],
         DOMAIN t = DOMAIN agents[a], t.role = agents[a].role, t.start = agents[a].start,
         t.end = clock + 1, t.since = agents[a].since \/ t.since = clock + 1,
         ~ t.running => Recorded(a)'
  PROVE  Transcripts' /\ AgentsKept
<1>1. /\ DOMAIN agents' = DOMAIN agents /\ agents'[a] = t
      /\ \A b \in DOMAIN agents \ {a} : agents'[b] = agents[b]
  OBVIOUS
<1>2. clock \in Nat /\ IsSeq(agents) /\ \A b \in DOMAIN agents : Transcript(agents[b])
  BY DEF IInv, Entries, Transcripts
<1>3. IsSeq(agents')
  <2>1. Len(agents) \in Nat /\ DOMAIN agents = 1 .. Len(agents)
    BY <1>2, OverAnySet DEF IsSeq
  <2> DEFINE S == {agents'[b] : b \in DOMAIN agents'}
  <2>2. agents' \in [1 .. Len(agents) -> S]
    BY <1>1, <2>1
  <2> HIDE DEF S
  <2> QED
    BY <2>1, <2>2, Listed
<1>4. t.start \in Nat /\ t.end \in Nat /\ t.start <= t.end /\ agents[a].end <= t.end
  BY <1>2 DEF Transcript
<1>5. Transcript(t)'
  BY <1>2, <1>4 DEF Transcript
<1>6. AgentsKept
  BY <1>1, <1>2, <1>4 DEF AgentsKept, Transcript
<1>7. ASSUME NEW b \in DOMAIN agents'
      PROVE  Transcript(agents[b])' /\ (~ agents'[b].running => Recorded(b)')
  <2>1. CASE b = a
    <3>1. Transcript(agents[b])'
      BY <1>1, <1>5, <2>1 DEF Transcript
    <3> QED
      BY <1>1, <2>1, <3>1
  <2>2. CASE b # a
    <3>1. b \in DOMAIN agents /\ agents'[b] = agents[b]
      BY <1>1, <2>2
    <3>2. Transcript(agents[b])'
      BY <1>2, <3>1 DEF Transcript
    <3>3. Recorded(b) => Recorded(b)'
      BY <3>1 DEF Recorded, LogGrown
    <3> QED
      BY <3>1, <3>2, <3>3 DEF IInv, Transcripts
  <2> QED
    BY <2>1, <2>2
<1> QED
  BY <1>3, <1>6, <1>7 DEF Transcripts, IsSeq

(* An agent that is resumed was recorded before and is still.              *)
LEMMA ResumeKeeps ==
  ASSUME IInv, NEW a \in DOMAIN agents, Resume(a)
  PROVE  IInv'
<1>1. PICK t : /\ agents' = [agents EXCEPT ![a] = t] /\ t.running = TRUE
               /\ DOMAIN t = DOMAIN agents[a]
               /\ t.role = agents[a].role /\ t.start = agents[a].start
               /\ t.since = clock + 1 /\ t.end = clock + 1
  <2> DEFINE t == [agents[a] EXCEPT !.running = TRUE, !.since = clock + 1, !.end = clock + 1]
  <2>1. agents' = [agents EXCEPT ![a] = t]
    BY DEF Resume
  <2>2. {"running", "since", "end"} \subseteq DOMAIN agents[a]
    BY DEF IInv, Transcripts, Transcript
  <2>3. /\ t.role = agents[a].role /\ t.start = agents[a].start /\ DOMAIN t = DOMAIN agents[a]
        /\ t.running = TRUE /\ t.since = clock + 1 /\ t.end = clock + 1
    BY <2>2
  <2> HIDE DEF t
  <2> QED
    BY <2>1, <2>3
<1>2. clock' = clock + 1 /\ UNCHANGED <<log, evidenceVars>> /\ LogGrown
  BY DEF Resume, LogGrown
<1>3. Transcripts' /\ AgentsKept
  BY <1>1, <1>2, OneChanges
<1> QED
  BY <1>2, <1>3, MomentPasses

(* The record of an agent's end carries its role and its number, and is    *)
(* appended at the moment its transcript ends.                             *)
LEMMA StopKeeps ==
  ASSUME IInv, NEW a \in DOMAIN agents, Stop(a)
  PROVE  IInv'
<1> DEFINE r == [event |-> "agent_finish", slice |-> Own, source |-> "derived",
                 actor |-> agents[a].role, agent_id |-> a,
                 duration |-> clock + 1 - agents[a].since]
<1>1. /\ DOMAIN r = {"event", "slice", "source", "actor", "agent_id", "duration"}
      /\ r.event = "agent_finish" /\ r.actor = agents[a].role /\ r.agent_id = a
      /\ r.duration = clock + 1 - agents[a].since
  OBVIOUS
<1>2. AppendRecords(<<r>>, TRUE)
  BY DEF Stop
<1> HIDE DEF r
<1>3. IsSeq(<<r>>) /\ DOMAIN <<r>> = {1} /\ <<r>>[1] = r
  BY SingleRecord
<1>4. LogGrown /\ clock' = clock + 1 /\ clock \in Nat /\ clock' \in Nat /\ clock <= clock'
  BY <1>2, <1>3, LogGrows DEF IInv
<1>5. UNCHANGED <<commits, head, main, runs, report>> /\ DOMAIN commits \subseteq DOMAIN commits'
  BY DEF Stop, evidenceVars
<1>6. PICK t : /\ agents' = [agents EXCEPT ![a] = t]
               /\ DOMAIN t = DOMAIN agents[a]
               /\ t.role = agents[a].role /\ t.start = agents[a].start
               /\ t.since = agents[a].since /\ t.end = clock + 1
  <2> DEFINE t == [agents[a] EXCEPT !.running = FALSE, !.end = clock + 1]
  <2>1. agents' = [agents EXCEPT ![a] = t]
    BY DEF Stop
  <2>2. {"running", "since", "end"} \subseteq DOMAIN agents[a]
    BY DEF IInv, Transcripts, Transcript
  <2>3. /\ t.role = agents[a].role /\ t.start = agents[a].start /\ DOMAIN t = DOMAIN agents[a]
        /\ t.since = agents[a].since /\ t.end = clock + 1
    BY <2>2
  <2> HIDE DEF t
  <2> QED
    BY <2>1, <2>3
<1>7. agents'[a] = t
  BY <1>6
<1>8. Recorded(a)'
  <2>1. PICK q, allow : q = <<r>> /\ AppendRecords(q, allow)
    BY <1>2
  <2>2. IsSeq(log) /\ IsSeq(q) /\ AppendRecords(q, allow)
    BY <2>1, SingleRecord DEF IInv, Entries
  <2>3. /\ Len(log) \in Nat /\ DOMAIN log = 1 .. Len(log)
        /\ DOMAIN log' = 1 .. (Len(log) + Len(q))
        /\ \A i \in DOMAIN log' \ DOMAIN log :
              \E n \in DOMAIN q : \E prior :
                 /\ i = Len(log) + n /\ log'[i] = Normalized(q[n], prior)
                 /\ Valid(log'[i]) /\ (log'[i].source = "derived" => allow)
    BY <2>2, Appended
  <2>4. DOMAIN q = {1} /\ q[1] = r /\ Len(log) + 1 \in DOMAIN log' \ DOMAIN log
    BY <2>1, <2>3, SingleRecord
  <2>5. PICK e, prior : /\ e = Normalized(r, prior)
                        /\ \E i \in DOMAIN log' : e = log'[i]
    BY <2>3, <2>4
  <2>6. e.event = "agent_finish" /\ e.actor = agents[a].role
        /\ "agent_id" \in DOMAIN e /\ e.agent_id = a
    BY <1>1, <2>5, NormalizedIs
  <2> QED
    BY <1>6, <1>7, <2>5, <2>6 DEF Recorded
<1>9. Transcripts' /\ AgentsKept
  BY <1>4, <1>6, <1>8, OneChanges
<1>10. Histories' /\ Scored'
  BY <1>5, HistoriesStay DEF IInv, Scored
<1>11. Runs' /\ RunsKept
  BY <1>4, <1>5, RunsStay DEF IInv
<1>12. ASSUME NEW n \in DOMAIN <<r>>, NEW prior, NEW e, e = Normalized(<<r>>[n], prior), Valid(e)
       PROVE  Entry(e)'
  <2>1. e = Normalized(r, prior)
    BY <1>3, <1>12
  <2>2. /\ e.ts = clock + 1 /\ e.event = "agent_finish"
        /\ {"agent_id", "duration"} \subseteq DOMAIN e /\ e.agent_id = a
        /\ e.duration = clock + 1 - agents[a].since
    BY <1>1, <2>1, NormalizedIs
  <2>3. Valid(e)'
    BY <1>12 DEF Valid, Named, Instants
  <2>4. /\ a \in DOMAIN agents' /\ e.duration \in Int
        /\ e.duration <= agents'[a].end - agents'[a].start
    <3>1. Transcript(agents[a])
      BY DEF IInv, Transcripts
    <3>2. a \in DOMAIN agents' /\ agents'[a].end = clock + 1
          /\ agents'[a].start = agents[a].start
      BY <1>6, <1>7
    <3> QED
      BY <1>4, <2>2, <3>1, <3>2 DEF Transcript
  <2>5. Vouched(e)' /\ Backed(e)'
    BY <2>2, <2>4 DEF Vouched, Backed
  <2> QED
    BY <1>4, <2>2, <2>3, <2>5 DEF Entry
<1>13. Entries'
  BY <1>2, <1>3, <1>9, <1>11, <1>12, EntriesGrow DEF IInv
<1> QED
  BY <1>9, <1>10, <1>11, <1>13 DEF IInv

(* So every step of the agents keeps the invariant.                        *)
LEMMA AgentsStepKeeps ==
  ASSUME IInv, AgentsStep
  PROVE  IInv'
<1>1. ASSUME NEW r \in Roles, Comment(r)
      PROVE  IInv'
  BY <1>1, FilesKeep DEF Comment, logVars
<1> QED
  BY <1>1, DispatchKeeps, StopKeeps, ResumeKeeps DEF AgentsStep, AgentsNext

-----------------------------------------------------------------------------
(* The invariant is one.                                                   *)

(* It holds of the first commit and an empty log.                          *)
LEMMA InitIInv == Init => IInv
<1> SUFFICES ASSUME Init PROVE IInv
  OBVIOUS
<1> DEFINE root == [parent |-> 0, history |-> {1}, own |-> FALSE, red |-> FALSE,
                    hand |-> [f \in ArcFiles |-> 0], generated |-> [f \in ArcFiles |-> 0],
                    src |-> [f \in SrcFiles |-> 0]]
<1>1. commits = <<root>> /\ root.history = {1}
  BY DEF Init, EvidenceInit
<1> HIDE DEF root
<1>2. IsSeq(commits) /\ DOMAIN commits = {1} /\ commits[1].history = {1}
  BY <1>1, SingleRecord
<1>3. Histories
  BY <1>2 DEF Init, EvidenceInit, Histories, Ancestors
<1>4. IsSeq(<<>>) /\ DOMAIN <<>> = {}
  <2>1. DOMAIN <<>> = {}
    OBVIOUS
  <2> QED
    BY <2>1 DEF IsSeq
<1>5. Runs
  <2>1. runs = <<>> /\ Attempts = {}
    BY <1>4 DEF Init, EvidenceInit, Attempts
  <2> QED
    BY <1>4, <2>1 DEF Runs, Completed
<1>6. Entries /\ Transcripts
  BY <1>4 DEF Init, LogInit, AgentsInit, Entries, Transcripts
<1>7. Scored
  BY DEF Init, EvidenceInit, Scored, NoScore
<1> QED
  BY <1>3, <1>5, <1>6, <1>7 DEF IInv

(* Every step keeps it.                                                    *)
LEMMA NextIInv == IInv /\ [Next]_vars => IInv'
<1>1. ASSUME IInv, UNCHANGED vars PROVE IInv'
  BY <1>1, FilesKeep DEF vars, logVars, evidenceVars, agentVars
<1> QED
  BY <1>1, LogStepKeeps, EvidenceStepKeeps, AgentsStepKeeps DEF Next

(* So it always holds.                                                     *)
LEMMA AlwaysIInv == Spec => []IInv
BY InitIInv, NextIInv, PTL DEF Spec

(* The log is well-formed under the dated schema, whoever wrote it: every  *)
(* record is valid, and none that a tool wrote is from the future; and no  *)
(* reference to a commit dangles, whatever is rewound (schema.mjs,         *)
(* write.mjs).                                                             *)
THEOREM Types == Spec => []TypeOK
<1>1. IInv => TypeOK
  BY DEF IInv, Histories, Runs, Entries, Entry, Transcripts, Transcript, TypeOK
<1> QED
  BY <1>1, AlwaysIInv, PTL

-----------------------------------------------------------------------------
(* The audit.                                                              *)

(* Once the hooks wrote everything, a finish belongs to the agent it names.*)
LEMMA PairOfFinish ==
  ASSUME IInv, NEW i \in Finishes, log[i].source = "derived"
  PROVE  /\ "agent_id" \in DOMAIN log[i] /\ log[i].agent_id \in DOMAIN agents
         /\ PairOf(i) = log[i].agent_id
<1>1. "agent_id" \in DOMAIN log[i] /\ log[i].agent_id \in DOMAIN agents
  BY DEF IInv, Entries, Entry, Backed, Finishes
<1>2. \A a : Paired(i, a) <=> a = log[i].agent_id
  BY <1>1 DEF Paired
<1>3. DOMAIN agents \subseteq Int
  BY OverAnySet DEF IInv, Transcripts, IsSeq
<1>4. PairOf(i) \in DOMAIN agents /\ Paired(i, PairOf(i))
  <2> DEFINE P(a) == Paired(i, a) /\ \A b \in DOMAIN agents : Paired(i, b) => a <= b
  <2>1. \E a \in DOMAIN agents : P(a)
    BY <1>1, <1>2, <1>3
  <2>2. PairOf(i) = CHOOSE a \in DOMAIN agents : P(a)
    BY DEF PairOf
  <2>3. PairOf(i) \in DOMAIN agents /\ P(PairOf(i))
    <3> HIDE DEF P
    <3> QED
      BY <2>1, <2>2
  <2> QED
    BY <2>3
<1> QED
  BY <1>1, <1>2, <1>4

(* HonestLogIsClean, for any agents and any slack: the audit does not cry  *)
(* wolf, however often agents were resumed, and whoever worked in between  *)
(* (audit.mjs pairs by the agent's id, and lets a record claim less).      *)
THEOREM AuditDoesNotCryWolf == Spec => []HonestLogIsClean
<1>1. ASSUME IInv PROVE HonestLogIsClean
  <2> SUFFICES ASSUME \A a \in DOMAIN agents : ~ agents[a].running,
                      \A i \in Finishes : log[i].source = "derived"
               PROVE  Omissions = {} /\ Unsupported = {} /\ Mismatches = {}
    BY DEF HonestLogIsClean
  <2>1. ASSUME NEW a \in DOMAIN agents
        PROVE  \E i \in Finishes : Paired(i, a)
    <3>1. Recorded(a) /\ agents[a].role \in Roles
      BY <1>1 DEF IInv, Transcripts, Transcript
    <3> QED
      BY <3>1 DEF Recorded, Finishes, Paired
  <2>2. \A i \in Finishes : Paired(i, PairOf(i)) /\ PairOf(i) \in DOMAIN agents
    BY <1>1, PairOfFinish DEF Paired
  <2>3. ASSUME NEW i \in Finishes
        PROVE  ~ Overclaims(i, PairOf(i))
    <3>1. /\ PairOf(i) \in DOMAIN agents /\ log[i].duration \in Int
          /\ log[i].duration <= agents[PairOf(i)].end - agents[PairOf(i)].start
      <4>1. Backed(log[i]) /\ log[i].event = "agent_finish" /\ log[i].source = "derived"
        BY <1>1 DEF IInv, Entries, Entry, Finishes
      <4> QED
        BY <1>1, <4>1, PairOfFinish DEF Backed
    <3>2. agents[PairOf(i)].end \in Int /\ agents[PairOf(i)].start \in Int
      BY <1>1, <3>1 DEF IInv, Transcripts, Transcript
    <3> QED
      BY <3>1, <3>2, SlackAssumption DEF Overclaims
  <2> QED
    BY <2>1, <2>2, <2>3 DEF Omissions, Unsupported, Mismatches
<1> QED
  BY <1>1, AlwaysIInv, PTL

-----------------------------------------------------------------------------
(* The rows about CI.                                                      *)

(* A record of a CI run that a collector wrote says of an attempt what     *)
(* that attempt did: it says FAIL exactly if the attempt did not succeed.  *)
LEMMA CiRunsAreRuns ==
  ASSUME IInv, NEW i \in CiRuns, log[i].source = "derived"
  PROVE  \E a \in Collected :
            /\ log[i].ts = a.at /\ log[i].ts \in Nat
            /\ Has(i, "head_sha") /\ log[i].checks.head_sha = a.commit
            /\ SaysFail(i) <=> a.conclusion # "success"
            /\ SaysRed(i) <=> a.conclusion # "success"
<1>1. i \in DOMAIN log /\ SaysRun(i) /\ Vouched(log[i])
  BY DEF CiRuns, Span, IInv, Entries, Entry
<1>2. /\ Has(i, "head_sha") /\ Has(i, "jobs")
      /\ \A j \in DOMAIN log[i].checks.jobs : log[i].checks.jobs[j] \in {"PASS", "FAIL"}
  BY <1>1 DEF SaysRun, Has, Vouched
<1>3. PICK a \in Attempts : SaysOf(log[i], a)
  BY <1>1 DEF SaysRun, Has, Vouched
<1>4. Said(i) = {log[i].checks.jobs[j] : j \in DOMAIN log[i].checks.jobs}
  BY <1>2 DEF Said
<1>5. SaysFail(i) <=> a.conclusion # "success"
  BY <1>3, <1>4 DEF SaysFail, SaysOf
<1>6. SaysRed(i) <=> SaysFail(i)
  BY <1>2, <1>4 DEF SaysRed, SaysFail
<1>7. a \in Collected /\ log[i].ts = a.at /\ log[i].checks.head_sha = a.commit
  BY <1>1, <1>3 DEF Collected, SaysOf
<1>8. log[i].ts \in Nat
  BY <1>3, <1>7 DEF IInv, Runs
<1> QED
  BY <1>2, <1>5, <1>6, <1>7, <1>8

(* And there is one for every attempt that was collected.                  *)
LEMMA CollectedAreCiRuns ==
  ASSUME IInv, NEW a \in Collected
  PROVE  \E i \in CiRuns : log[i].source = "derived" /\ log[i].ts = a.at
<1>1. PICK i \in DOMAIN log : SaysRun(i) /\ log[i].source = "derived" /\ log[i].ts = a.at
  BY DEF Collected
<1>2. Vouched(log[i])
  BY DEF IInv, Entries, Entry
<1>3. log[i].slice = Own /\ log[i].event = "check_run"
  BY <1>1, <1>2 DEF Vouched, SaysRun, Has
<1> QED
  BY <1>1, <1>3 DEF CiRuns, Span

(* In whatever order runs were collected, the newest record, if a          *)
(* collector wrote it, is of the attempt that ended last of those.         *)
LEMMA NewestIsLast ==
  ASSUME IInv, CiRuns # {}, log[Newest(CiRuns)].source = "derived"
  PROVE  /\ Newest(CiRuns) \in CiRuns /\ LastCollected \in Collected
         /\ log[Newest(CiRuns)].ts = LastCollected.at
<1> DEFINE n == Newest(CiRuns)
<1>1. IsSeq(log) /\ Timely /\ CiRuns \subseteq DOMAIN log
  BY DEF IInv, Entries, Entry, Valid, Timely, CiRuns, Span
<1>2. n \in CiRuns /\ \A i \in CiRuns \ {n} : Later(n, i)
  BY <1>1, NewestIs
<1>3. log[n].source = "derived"
  OBVIOUS
<1> HIDE DEF n
<1>4. PICK k \in Collected : log[n].ts = k.at /\ log[n].ts \in Nat
  BY <1>2, <1>3, CiRunsAreRuns
<1>5. ASSUME NEW b \in Collected
      PROVE  b.at <= k.at /\ b.at \in Nat
  <2>1. PICK i \in CiRuns : log[i].source = "derived" /\ log[i].ts = b.at
    BY CollectedAreCiRuns
  <2>2. log[i].ts \in Nat
    BY <2>1, CiRunsAreRuns
  <2>3. log[i].ts <= log[n].ts
    BY <1>2, <1>4, <2>2 DEF Later
  <2> QED
    BY <1>4, <2>1, <2>2, <2>3
<1>6. LastCollected \in Collected /\ \A b \in Collected : b.at <= LastCollected.at
  <2> DEFINE P(a) == \A b \in Collected : b.at <= a.at
  <2>1. \E a \in Collected : P(a)
    BY <1>5
  <2>2. LastCollected = CHOOSE a \in Collected : P(a)
    BY DEF LastCollected
  <2>3. LastCollected \in Collected /\ P(LastCollected)
    <3> HIDE DEF P
    <3> QED
      BY <2>1, <2>2
  <2> QED
    BY <2>3
<1>7. LastCollected.at = k.at
  BY <1>5, <1>6
<1> QED
  BY <1>2, <1>4, <1>6, <1>7 DEF n

(* Where "tests green" passes on a record of the collector, the attempt it *)
(* speaks of succeeded on a commit that has the last commit of the slice   *)
(* in its history.                                                         *)
LEMMA GreenCovers ==
  ASSUME IInv, TestsGreenRow = "PASS", log[Newest(CiRuns)].source = "derived"
  PROVE  /\ LastCollected.conclusion = "success"
         /\ IsAncestor(SliceHead, LastCollected.commit)
<1> DEFINE last   == Newest(CiRuns)
           covers == CoversHead(IF Has(last, "head_sha") THEN log[last].checks.head_sha ELSE None)
<1>1. CiRuns # {} /\ ~ SaysFail(last) /\ covers \notin {"no", "unknown"}
  BY DEF TestsGreenRow
<1>2. last \in CiRuns /\ LastCollected \in Collected /\ log[last].ts = LastCollected.at
  BY <1>1, NewestIsLast
<1>3. log[last].source = "derived"
  OBVIOUS
<1> HIDE DEF last
<1>4. PICK a \in Collected :
        /\ log[last].ts = a.at /\ Has(last, "head_sha")
        /\ log[last].checks.head_sha = a.commit
        /\ SaysFail(last) <=> a.conclusion # "success"
  BY <1>2, <1>3, CiRunsAreRuns
<1>5. a = LastCollected
  BY <1>2, <1>4 DEF IInv, Runs, Collected
<1>6. IsAncestor(SliceHead, a.commit)
  BY <1>1, <1>4 DEF CoversHead
<1> QED
  BY <1>1, <1>4, <1>5, <1>6

(* Where "tests first" passes and a collector wrote all the runs, one      *)
(* ended without success before another succeeded.                         *)
LEMMA RedThenGreen ==
  ASSUME IInv, TestFirstRow = "PASS", AllCollected
  PROVE  \E a, b \in Collected : /\ a.conclusion # "success" /\ b.conclusion = "success"
                                 /\ a.at < b.at
<1> DEFINE failing == {i \in CiRuns : SaysRed(i)}
           first   == Oldest(failing)
<1>1. failing # {} /\ \E i \in CiRuns : ~ SaysRed(i) /\ log[i].ts > log[first].ts
  BY DEF TestFirstRow, Judged
<1>2. first \in failing
  <2>1. IsSeq(log) /\ failing \subseteq DOMAIN log /\ \A i \in failing : log[i].ts \in Nat
    BY CiRunsAreRuns DEF IInv, Entries, CiRuns, Span, AllCollected
  <2> HIDE DEF failing
  <2> QED
    BY <1>1, <2>1, OldestIs
<1>3. first \in CiRuns /\ SaysRed(first)
  BY <1>2
<1> HIDE DEF first, failing
<1>4. PICK i \in CiRuns : ~ SaysRed(i) /\ log[i].ts > log[first].ts
  BY <1>1
<1>5. PICK a \in Collected :
        a.conclusion # "success" /\ a.at = log[first].ts /\ log[first].ts \in Nat
  BY <1>3, CiRunsAreRuns DEF AllCollected
<1>6. PICK b \in Collected :
        b.conclusion = "success" /\ b.at = log[i].ts /\ log[i].ts \in Nat
  BY <1>4, CiRunsAreRuns DEF AllCollected
<1>7. a.at < b.at
  BY <1>4, <1>5, <1>6
<1> QED
  BY <1>5, <1>6, <1>7

(* GreenCoversTheWork, for any history, any runs, run again or not, in any *)
(* order, any collections and anything written by hand: "tests green",     *)
(* where it goes by a record of the collector, is said of the attempt that *)
(* ended last of those collected, which succeeded, and ran on the slice's  *)
(* last commit.  Of a newest record written by hand it says nothing.       *)
THEOREM GreenIsOfTheWork == Spec => []GreenCoversTheWork
<1>1. IInv => GreenCoversTheWork
  BY GreenCovers DEF GreenCoversTheWork
<1> QED
  BY <1>1, AlwaysIInv, PTL

(* RedCameFirst, for the same: where the collector wrote all run records   *)
(* of the slice, "red before green" is said only if an attempt that ended  *)
(* without success, cancelled ones included, ended before one that         *)
(* succeeded, whenever each was collected.                                 *)
THEOREM RedBeforeGreen == Spec => []RedCameFirst
<1>1. IInv => RedCameFirst
  BY RedThenGreen DEF RedCameFirst
<1> QED
  BY <1>1, AlwaysIInv, PTL

-----------------------------------------------------------------------------
(* What is owed.                                                           *)

(* A ruling that is the newest of all is the newest of those that defer.   *)
LEMMA NewestRulingSends ==
  ASSUME IInv, NEW r,
         NEW ruled, ruled = {i \in DOMAIN log : log[i].event = "finding_ruled" /\ log[i].ref = r},
         ruled # {}, log[Newest(ruled)].verdict = "deferred",
         Destinations(log[Newest(ruled)]) # {}
  PROVE  Went(r) = Destinations(log[Newest(ruled)])
<1> DEFINE sent == Sending(r, "finding_ruled")
           n    == Newest(ruled)
<1>1. IsSeq(log) /\ Timely
  BY DEF IInv, Entries, Entry, Valid, Timely
<1>2. sent \subseteq ruled /\ ruled \subseteq DOMAIN log
  BY DEF Sending
<1>3. n \in ruled /\ \A i \in ruled \ {n} : Later(n, i)
  BY <1>1, <1>2, NewestIs
<1>4. n \in sent
  BY <1>3 DEF Sending
<1>5. "deferred_to" \in DOMAIN log[n] /\ Destinations(log[n]) = log[n].deferred_to
  BY DEF Destinations
<1> HIDE DEF n, sent
<1>6. Newest(sent) \in sent /\ \A i \in sent \ {Newest(sent)} : Later(Newest(sent), i)
  BY <1>1, <1>2, <1>4, NewestIs
<1>7. \A i \in sent \ {n} : Later(n, i)
  BY <1>2, <1>3
<1>8. Newest(sent) = n
  BY <1>1, <1>2, <1>4, <1>6, <1>7, NewestOnly
<1>9. Went(r) = log[Newest(sent)].deferred_to
  BY <1>4 DEF Went, sent
<1> QED
  BY <1>5, <1>8, <1>9 DEF n

(* A slice that passes what it owes speaks of all it owes.                 *)
LEMMA OwedIsSpokenOf ==
  ASSUME NEW s, ObligationsRow(s) = "PASS", DischargedRow(s) # "FAIL"
  PROVE  RefsDeferredTo(s)
           \subseteq RefsOf(Span(s, {"finding_ruled", "finding_resolved", "finding_routed"}))
<1>1. RefsDeferredTo(s) \subseteq file[s].text.inherits
  BY DEF ObligationsRow, Judged
<1>2. file[s].text.inherits # {} =>
        file[s].text.inherits
          \subseteq RefsOf(Span(s, {"finding_ruled", "finding_resolved", "finding_routed"}))
  BY DEF DischargedRow, Judged
<1> QED
  BY <1>1, <1>2

(* SentIsSpokenOf, for any slices, any findings and any log: a slice that  *)
(* passes the row of what it owes, and does not fail that of what it       *)
(* discharged, speaks of every finding whose newest ruling of any kind is  *)
(* a deferral to it (check.mjs, rows A-05-5 and R-05-2).                   *)
THEOREM NothingSentIsDropped == Spec => []SentIsSpokenOf
<1>1. ASSUME IInv PROVE SentIsSpokenOf
  <2> SUFFICES ASSUME NEW s \in Slices, NEW r \in Refs, NEW ruled,
                      ruled = {i \in DOMAIN log : log[i].event = "finding_ruled" /\ log[i].ref = r},
                      ruled # {}, log[Newest(ruled)].verdict = "deferred",
                      s \in Destinations(log[Newest(ruled)]),
                      ObligationsRow(s) = "PASS", DischargedRow(s) # "FAIL"
               PROVE  r \in RefsOf(Span(s, {"finding_ruled", "finding_resolved", "finding_routed"}))
    BY DEF SentIsSpokenOf
  <2>1. s \in Went(r)
    BY <1>1, NewestRulingSends
  <2>2. r \in RefsDeferredTo(s)
    BY <2>1 DEF RefsDeferredTo
  <2> QED
    BY <2>2, OwedIsSpokenOf
<1> QED
  BY <1>1, AlwaysIInv, PTL

-----------------------------------------------------------------------------
(* All the rows at once.                                                   *)

(* LightGateIsEarned, for any log, history and runs: what passes without   *)
(* anybody having approved it leaves no serious finding open and none it   *)
(* was sent unspoken of; and, as far as the records that say so are the    *)
(* collector's, it was red, then green on its last commit.                 *)
THEOREM LightGateEarned == Spec => []LightGateIsEarned
<1>1. ASSUME IInv, AllChecksPass, Span(Own, {"gate_decided"}) = {}
      PROVE  /\ file[Own].text.light
             /\ AllCollected => \E a \in Collected : a.conclusion # "success"
             /\ log[Newest(CiRuns)].source = "derived" =>
                  /\ LastCollected.conclusion = "success"
                  /\ IsAncestor(SliceHead, LastCollected.commit)
             /\ RefsDeferredTo(Own) \subseteq RefsOf(Span(Own, FindingEvents))
             /\ \A i \in DOMAIN log :
                  /\ log[i].event = "finding_raised" /\ log[i].slice = Own
                  /\ log[i].severity # "MINOR"
                  => \E j \in DOMAIN log :
                       /\ log[j].slice = Own /\ log[j].event # "finding_raised"
                       /\ "ref" \in DOMAIN log[j] /\ log[j].ref = log[i].ref
  <2>1. /\ Met(ObligationsRow(Own)) /\ Met(DischargedRow(Own)) /\ Met(FindingsRow(Own))
        /\ Met(TestFirstRow) /\ Met(TestsGreenRow) /\ Met(ApprovedRow(Own))
    BY <1>1 DEF AllChecksPass
  <2>2. file[Own].text.light
    BY <1>1, <2>1 DEF ApprovedRow, Span, Met, Judged
  <2>3. AllCollected => \E a \in Collected : a.conclusion # "success"
    <3>1. TestFirstRow = "PASS"
      BY <2>1 DEF TestFirstRow, Met, Judged
    <3> QED
      BY <1>1, <3>1, RedThenGreen
  <2>4. log[Newest(CiRuns)].source = "derived" =>
          /\ LastCollected.conclusion = "success"
          /\ IsAncestor(SliceHead, LastCollected.commit)
    <3>1. TestsGreenRow = "PASS"
      BY <2>1 DEF TestsGreenRow, Met
    <3> QED
      BY <1>1, <3>1, GreenCovers
  <2>5. RefsDeferredTo(Own) \subseteq RefsOf(Span(Own, FindingEvents))
    <3>1. ObligationsRow(Own) = "PASS" /\ DischargedRow(Own) # "FAIL"
      BY <2>1 DEF ObligationsRow, Met, Judged
    <3>2. RefsOf(Span(Own, {"finding_ruled", "finding_resolved", "finding_routed"}))
            \subseteq RefsOf(Span(Own, FindingEvents))
      BY DEF RefsOf, Span, FindingEvents
    <3> QED
      BY <3>1, <3>2, OwedIsSpokenOf
  <2>6. ASSUME NEW i \in DOMAIN log, log[i].event = "finding_raised", log[i].slice = Own,
               log[i].severity # "MINOR"
        PROVE  \E j \in DOMAIN log :
                 /\ log[j].slice = Own /\ log[j].event # "finding_raised"
                 /\ "ref" \in DOMAIN log[j] /\ log[j].ref = log[i].ref
    <3>1. OpenSerious(Own) = {}
      BY <2>1 DEF FindingsRow, Met, Judged
    <3>2. log[i].severity \in {"MAJOR", "BLOCKING"}
      BY <1>1, <2>6 DEF IInv, Entries, Entry, Valid
    <3>3. log[i].ref \in Closed(Own)
      BY <2>6, <3>1, <3>2 DEF OpenSerious, Span
    <3>4. PICK j \in DOMAIN log :
            /\ log[j].slice = Own /\ log[j].ref = log[i].ref
            /\ log[j].event \in {"finding_ruled", "finding_resolved", "review_response"}
      BY <3>3 DEF Closed, RefsOf, Span
    <3>5. "ref" \in DOMAIN log[j]
      BY <1>1, <3>4 DEF IInv, Entries, Entry, Valid, Events
    <3> QED
      BY <3>4, <3>5
  <2> QED
    BY <2>2, <2>3, <2>4, <2>5, <2>6
<1>2. IInv => LightGateIsEarned
  BY <1>1 DEF LightGateIsEarned
<1> QED
  BY <1>2, AlwaysIInv, PTL

-----------------------------------------------------------------------------
(* Hand edits of arc42.                                                    *)

(* A commit on a branch leaves the merge base where it is, and what it was *)
(* governing before it governs still.                                      *)
LEMMA GovernedGrows ==
  ASSUME Histories, NEW d, Commit(d), UNCHANGED sees, OnBranch
  PROVE  OnBranch' /\ Governed \subseteq Governed'
         /\ \A c \in Governed : /\ c \in DOMAIN commits /\ commits[c].parent \in DOMAIN commits
                                /\ commits'[c] = commits[c]
                                /\ commits'[commits[c].parent] = commits[commits[c].parent]
<1>1. /\ head' = Len(commits) + 1 /\ DOMAIN commits = 1 .. Len(commits) /\ Len(commits) \in Nat
      /\ \A c \in DOMAIN commits : commits'[c] = commits[c] /\ Ancestors(c)' = Ancestors(c)
      /\ commits'[head'].history = Ancestors(head) \cup {head'}
  BY Committed
<1>2. main' = main /\ main \in DOMAIN commits /\ head \in DOMAIN commits
  BY DEF Commit, Histories
<1>3. Ancestors(main) \subseteq DOMAIN commits /\ Ancestors(head) \subseteq DOMAIN commits
  BY <1>1, <1>2 DEF Histories
<1> DEFINE mains == commits'[main'].history
           heads == commits'[head'].history
<1>4. mains = Ancestors(main) /\ heads = Ancestors(head) \cup {head'}
  BY <1>1, <1>2 DEF Ancestors
<1>5. mains \cap heads = Ancestors(main) \cap Ancestors(head)
  BY <1>1, <1>3, <1>4
<1>6. MergeBase' = MergeBase
  BY <1>5 DEF MergeBase, Ancestors, Youngest
<1>7. /\ MergeBase \in DOMAIN commits /\ MergeBase # head' /\ 1 \in Ancestors(MergeBase)
  BY <1>1, MergeBaseIs DEF Histories
<1>8. OnBranch'
  BY <1>6, <1>7 DEF OnBranch
<1>9. Governed = Ancestors(head) \ Ancestors(MergeBase)
  BY DEF Governed
<1>10. Ancestors(MergeBase)' = Ancestors(MergeBase)
  BY <1>1, <1>6, <1>7 DEF Ancestors
<1>11. Governed' = heads \ Ancestors(MergeBase)'
  BY <1>8 DEF Governed, Ancestors
<1>12. Governed \subseteq Governed'
  BY <1>4, <1>9, <1>10, <1>11
<1>13. ASSUME NEW c \in Governed
       PROVE  c \in DOMAIN commits /\ commits[c].parent \in DOMAIN commits
  <2>1. c \in DOMAIN commits /\ c # 1
    BY <1>3, <1>7, <1>9
  <2> QED
    BY <2>1 DEF Histories
<1> QED
  BY <1>1, <1>8, <1>12, <1>13

(* UndeclaredEditStays, for any branch: an undeclared hand edit of arc42   *)
(* is not undone by a further commit, be it its exact revert.              *)
THEOREM UndeclaredEditIsKept == Spec => UndeclaredEditStays
<1>1. ASSUME IInv, Next, Len(commits') > Len(commits), OnBranch, CorrespondenceRow = "FAIL"
      PROVE  CorrespondenceRow' = "FAIL"
  <2>1. Len(commits) \in Nat
    BY <1>1, OverAnySet DEF IInv, Histories, IsSeq
  <2>2. PICK d \in Deltas : Commit(d) /\ UNCHANGED <<sees, file>>
    <3>1. CASE LogStep
      BY <1>1, <2>1, <3>1 DEF LogStep, evidenceVars
    <3>2. CASE AgentsStep
      <4>1. \A r \in Roles : Dispatch(r) \/ Comment(r) => UNCHANGED commits
        BY DEF Dispatch, Comment, evidenceVars
      <4>2. \A a \in DOMAIN agents : Stop(a) => UNCHANGED commits
        BY DEF Stop, evidenceVars
      <4>3. \A a \in DOMAIN agents : Resume(a) => UNCHANGED commits
        BY DEF Resume, evidenceVars
      <4> QED
        BY <1>1, <2>1, <3>2, <4>1, <4>2, <4>3 DEF AgentsStep, AgentsNext
    <3>3. CASE EvidenceStep
      <4>1. ASSUME UNCHANGED commits PROVE FALSE
        BY <1>1, <2>1, <4>1
      <4> QED
        BY <3>3, <4>1 DEF EvidenceStep, EvidenceNext, Commit, logVars, Rewind, Merge, Push, Finish,
           Rerun, CollectCi, Stryker, CollectMutation, evidenceVars
    <3> QED
      BY <1>1, <3>1, <3>2, <3>3 DEF Next
  <2>3. /\ OnBranch' /\ Governed \subseteq Governed'
        /\ \A c \in Governed : /\ commits'[c] = commits[c]
                               /\ commits'[commits[c].parent] = commits[commits[c].parent]
    BY <1>1, <2>2, GovernedGrows DEF IInv
  <2>4. /\ file[Own].text.declared # {} /\ Governed # {}
        /\ \E f \in ArcFiles : HandEdited(f) /\ f \notin file[Own].text.declared
    BY <1>1 DEF CorrespondenceRow, Judged
  <2>5. \A f : HandEdited(f) => HandEdited(f)'
    BY <2>3 DEF HandEdited
  <2>6. /\ file'[Own].text.declared # {} /\ Governed' # {}
        /\ \E f \in ArcFiles : HandEdited(f)' /\ f \notin file'[Own].text.declared
    BY <2>2, <2>3, <2>4, <2>5
  <2> QED
    BY <2>6 DEF CorrespondenceRow, Judged
<1>2. ASSUME IInv, UNCHANGED vars, Len(commits') > Len(commits) PROVE FALSE
  <2>1. Len(commits) \in Nat /\ commits' = commits
    BY <1>2, OverAnySet DEF IInv, Histories, IsSeq, vars, evidenceVars
  <2> QED
    BY <1>2, <2>1
<1>3. IInv /\ [Next]_vars =>
        [Len(commits') > Len(commits) /\ OnBranch /\ CorrespondenceRow = "FAIL"
           => CorrespondenceRow' = "FAIL"]_vars
  BY <1>1, <1>2
<1> QED
  BY <1>3, AlwaysIInv, PTL DEF Spec, UndeclaredEditStays

-----------------------------------------------------------------------------
(* Mutation scores.                                                        *)

(* The premise of the property: a collector's record with a score, and not *)
(* marked partial, was just appended.                                      *)
WholeScores(e) ==
  /\ e.source = "derived"
  /\ "checks" \in DOMAIN e /\ "mutation_score" \in DOMAIN e.checks
  /\ "mutation_report_partial" \notin DOMAIN e.checks

(* Only the collector of mutation scores appends such a record.            *)
LEMMA OnlyCollected ==
  ASSUME IInv, Next, Len(log') > Len(log), WholeScores(log'[Len(log')])
  PROVE  \E allow \in BOOLEAN : CollectMutation(allow)
<1>1. IsSeq(log) /\ Len(log) \in Nat
  BY OverAnySet DEF IInv, Entries, IsSeq
<1>2. ASSUME UNCHANGED log PROVE FALSE
  BY <1>1, <1>2
<1>3. ASSUME NEW batch, IsSeq(batch), NEW allow, AppendRecords(batch, allow),
             allow => \A n \in DOMAIN batch : "checks" \in DOMAIN batch[n] =>
                        "mutation_score" \notin DOMAIN batch[n].checks
      PROVE  FALSE
  <2>1. /\ Len(log) \in Nat /\ Len(batch) \in Nat /\ Len(log') = Len(log) + Len(batch)
        /\ DOMAIN log = 1 .. Len(log) /\ DOMAIN log' = 1 .. (Len(log) + Len(batch))
    BY <1>1, <1>3, Appended
  <2>2. \A i \in DOMAIN log' \ DOMAIN log :
          \E n \in DOMAIN batch : \E prior :
             /\ i = Len(log) + n /\ log'[i] = Normalized(batch[n], prior)
             /\ Valid(log'[i]) /\ (log'[i].source = "derived" => allow)
    BY <1>1, <1>3, Appended
  <2>3. Len(log') \in DOMAIN log' \ DOMAIN log
    BY <2>1
  <2>4. PICK n \in DOMAIN batch, e \in {log'[Len(log')]} :
          /\ e.source = "derived" => allow
          /\ \E prior : e = Normalized(batch[n], prior)
    BY <2>2, <2>3
  <2>5. /\ \A x \in DOMAIN batch[n] : e[x] = batch[n][x]
        /\ DOMAIN e \subseteq DOMAIN batch[n] \cup {"ts", "span"}
    BY <2>4, NormalizedIs
  <2>6. WholeScores(e) /\ allow
    BY <2>4 DEF WholeScores
  <2>7. "checks" \in DOMAIN batch[n] /\ e.checks = batch[n].checks
    BY <2>5, <2>6 DEF WholeScores
  <2> QED
    BY <1>3, <2>6, <2>7 DEF WholeScores
<1>4. CASE LogStep
  <2>1. ASSUME NEW batch \in Offered, AppendBatch(batch) PROVE FALSE
    <3>1. IsSeq(batch) /\ AppendRecords(batch, FALSE)
      BY <2>1, OfferedAssumption DEF AppendBatch, IsSeq
    <3> QED
      BY <1>3, <3>1
  <2>2. ASSUME NEW s \in Slices, Edit(s) \/ Close(s) \/ (\E t \in Slices : Fold(s, t)) PROVE FALSE
    BY <1>2, <2>2 DEF Edit, Close, Fold
  <2> QED
    BY <1>4, <2>1, <2>2 DEF LogStep, LogNext
<1>5. CASE AgentsStep
  <2>1. ASSUME NEW r \in Roles, Dispatch(r) \/ Comment(r) PROVE FALSE
    BY <1>2, <2>1 DEF Dispatch, Comment, logVars
  <2>2. ASSUME NEW a \in DOMAIN agents, Resume(a) PROVE FALSE
    BY <1>2, <2>2 DEF Resume
  <2>3. ASSUME NEW a \in DOMAIN agents, Stop(a) PROVE FALSE
    <3> DEFINE r == [event |-> "agent_finish", slice |-> Own, source |-> "derived",
                     actor |-> agents[a].role, agent_id |-> a,
                     duration |-> clock + 1 - agents[a].since]
    <3>1. AppendRecords(<<r>>, TRUE) /\ "checks" \notin DOMAIN r
      BY <2>3 DEF Stop
    <3> HIDE DEF r
    <3>2. IsSeq(<<r>>) /\ DOMAIN <<r>> = {1} /\ <<r>>[1] = r
      BY SingleRecord
    <3> QED
      BY <1>3, <3>1, <3>2
  <2> QED
    BY <1>5, <2>1, <2>2, <2>3 DEF AgentsStep, AgentsNext
<1>6. CASE EvidenceStep
  <2>1. ASSUME (\E d \in Deltas : Commit(d)) \/ Rewind \/ Merge \/ Push \/ Stryker
               \/ (\E k \in DOMAIN runs : Finish(k) \/ Rerun(k))
        PROVE  FALSE
    BY <1>2, <2>1 DEF Commit, Rewind, Merge, Push, Stryker, Finish, Rerun, logVars
  <2>2. ASSUME NEW I \in SUBSET DOMAIN runs, CollectCi(I) PROVE FALSE
    <3>1. PICK batch : /\ IsSeq(batch) /\ AppendRecords(batch, TRUE)
                       /\ \A n \in DOMAIN batch :
                            \E k \in Completed : batch[n] = ToCheckRunRecord(k)
      BY <1>1, <2>2, CiBatch DEF IInv
    <3>2. \A n \in DOMAIN batch : "mutation_score" \notin DOMAIN batch[n].checks
      BY <3>1, RecordOfRun DEF IInv
    <3> QED
      BY <1>3, <3>1, <3>2
  <2> QED
    BY <1>6, <2>1, <2>2 DEF EvidenceStep, EvidenceNext
<1> QED
  BY <1>4, <1>5, <1>6 DEF Next

(* MutationPassIsWhole, for any report, any changes and any log: a record  *)
(* of the collector that decides the row as it comes and passes, and is    *)
(* not marked partial, measured every file the branch had changed, each at *)
(* the threshold (collect-mutation.mjs refuses what does not).             *)
THEOREM PassingScoresAreWhole == Spec => MutationPassIsWhole
<1>1. ASSUME IInv, Next, Len(log') > Len(log), WholeScores(log'[Len(log')]),
             Len(log') = Newest(Scores)', MutationRow' = "PASS", Scores' # {}
      PROVE  \A f \in ChangedFiles : report[f] >= Threshold
  <2>1. PICK allow \in BOOLEAN : CollectMutation(allow)
    BY <1>1, OnlyCollected
  <2>2. PICK r : ScoreRecord(r) /\ AppendRecords(<<r>>, TRUE)
    BY <2>1, CollectedScores
  <2>3. PICK q, derived : q = <<r>> /\ AppendRecords(q, derived)
    BY <2>2
  <2>4. IsSeq(q) /\ DOMAIN q = {1} /\ q[1] = r /\ Len(q) = 1
    BY <2>3, SingleRecord
  <2>5. IsSeq(log) /\ IsSeq(q) /\ AppendRecords(q, derived)
    BY <1>1, <2>3, <2>4 DEF IInv, Entries
  <2>6. /\ Len(log) \in Nat /\ Len(log') = Len(log) + Len(q)
        /\ DOMAIN log = 1 .. Len(log) /\ DOMAIN log' = 1 .. (Len(log) + Len(q))
        /\ \A i \in DOMAIN log' \ DOMAIN log :
              \E n \in DOMAIN q : \E prior :
                 /\ i = Len(log) + n /\ log'[i] = Normalized(q[n], prior)
                 /\ Valid(log'[i]) /\ (log'[i].source = "derived" => derived)
    BY <2>5, Appended
  <2>7. Len(log') \in DOMAIN log' \ DOMAIN log
    BY <2>4, <2>6
  <2>8. PICK e, prior : e = log'[Len(log')] /\ e = Normalized(r, prior)
    BY <2>4, <2>6, <2>7
  <2>9. e.checks = r.checks
    BY <2>2, <2>8, NormalizedIs DEF ScoreRecord
  <2>10. /\ \A x \in DOMAIN ToChecks : x \in DOMAIN e.checks /\ e.checks[x] = ToChecks[x]
         /\ Measured = ChangedFiles
    BY <1>1, <2>2, <2>8, <2>9 DEF ScoreRecord, WholeScores
  <2>11. "mutation_below_threshold" \in DOMAIN ToChecks
         /\ ToChecks.mutation_below_threshold = {f \in Measured : report[f] < Threshold}
    BY DEF ToChecks
  <2>12. e.checks = log'[Newest(Scores)'].checks
    BY <1>1, <2>8
  <2>13. e.checks.mutation_below_threshold = {}
    BY <1>1, <2>10, <2>11, <2>12 DEF MutationRow, Judged
  <2>14. \A f \in ChangedFiles : ~ (report[f] < Threshold) /\ report[f] \in Int
    BY <1>1, <2>10, <2>11, <2>13 DEF IInv, Scored, ChangedFiles
  <2> QED
    BY <2>14, ScoreAssumption
<1>2. ASSUME IInv, UNCHANGED vars, Len(log') > Len(log) PROVE FALSE
  <2>1. Len(log) \in Nat /\ log' = log
    BY <1>2, OverAnySet DEF IInv, Entries, IsSeq, vars, logVars
  <2> QED
    BY <1>2, <2>1
<1>3. IInv /\ [Next]_vars =>
        [LET n == Len(log')
         IN  /\ n > Len(log) /\ log'[n].source = "derived"
             /\ n \in Scores' /\ n = Newest(Scores)'
             /\ "mutation_report_partial" \notin DOMAIN log'[n].checks
             /\ MutationRow' = "PASS"
             => \A f \in ChangedFiles : report[f] >= Threshold]_vars
  BY <1>1, <1>2 DEF WholeScores, Scores, Has
<1> QED
  BY <1>3, AlwaysIInv, PTL DEF Spec, MutationPassIsWhole
=============================================================================
