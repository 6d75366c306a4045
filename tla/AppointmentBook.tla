--------------------------- MODULE AppointmentBook ---------------------------
(***************************************************************************)
(* What the scheduler promises its clients, with no transactions, locks or *)
(* retries: each request takes effect at most once, in one step, between   *)
(* its arrival and its answer, and an effect never double-books a resource.*)
(***************************************************************************)
EXTENDS Schedule

VARIABLES
  table,    \* the committed appointment rows
  cmd,      \* the command of each request that has arrived
  verdict   \* what each request has been told

bookVars == <<table, cmd, verdict>>

Verdicts == {"open", "applied", "absent", "not-confirmed", "refused", "unknown"}

Init ==
  /\ table \in InitialTables
  /\ cmd \in [Requests -> {None}]
  /\ verdict = [r \in Requests |-> "open"]

(* No other occupying row clashes with version v of appointment id.        *)
Fits(v, id) ==
  \A a \in Ids \ {id} : \A k \in Kinds : Occupies(table[a]) => ~ Clash(table[a], v, k)

Pending(r) == cmd[r] # None /\ verdict[r] = "open"

Tell(r, what) == verdict' = [verdict EXCEPT ![r] = what]

Arrive(r) ==
  /\ cmd[r] = None
  /\ \E c \in Commands :
       /\ c.op = "book" => c.id = r
       /\ cmd' = [cmd EXCEPT ![r] = c]
  /\ UNCHANGED <<table, verdict>>

(* A write's effect, acknowledged or (a lost connection) not.              *)
Store(r, v) ==
  /\ table' = [table EXCEPT ![cmd[r].id] = v]
  /\ \E what \in {"applied", "unknown"} : Tell(r, what)
  /\ UNCHANGED cmd

Book(r) ==
  /\ Pending(r) /\ cmd[r].op = "book" /\ cmd[r].owned
  /\ table[cmd[r].id] = None
  /\ \E p \in Places :
       LET v == [at |-> p, slot |-> cmd[r].slot, service |-> cmd[r].service,
                 status |-> "confirmed", rev |-> 0]
       IN  /\ p["technician"] \in Qualified[cmd[r].service]
           /\ Fits(v, cmd[r].id)
           /\ Store(r, v)

Move(r) ==
  /\ Pending(r) /\ cmd[r].op = "move"
  /\ table[cmd[r].id] # None /\ table[cmd[r].id].status = "confirmed"
  /\ \E p \in Places :
       LET old == table[cmd[r].id]
           v   == [old EXCEPT !.at = p, !.slot = cmd[r].slot, !.rev = @ + 1]
       IN  /\ p["technician"] \in Qualified[old.service]
           /\ Fits(v, cmd[r].id)
           /\ Store(r, v)

(* Cancelling is idempotent: a replay leaves the row as it is.             *)
Cancel(r) ==
  /\ Pending(r) /\ cmd[r].op = "cancel"
  /\ table[cmd[r].id] # None
  /\ LET old == table[cmd[r].id]
     IN  Store(r, IF old.status = "cancelled" THEN old
                  ELSE [old EXCEPT !.status = "cancelled", !.rev = @ + 1])

(* Answers that change nothing.                                            *)
Decline(r) ==
  /\ Pending(r)
  /\ \E what \in {"absent", "not-confirmed", "refused", "unknown"} :
       /\ what = "absent" => table[cmd[r].id] = None
       /\ what = "not-confirmed" =>
            table[cmd[r].id] # None /\ table[cmd[r].id].status = "cancelled"
       /\ Tell(r, what)
  /\ UNCHANGED <<table, cmd>>

Next == \E r \in Requests : Arrive(r) \/ Book(r) \/ Move(r) \/ Cancel(r) \/ Decline(r)

Spec == Init /\ [][Next]_bookVars
==============================================================================
