------------------------------ MODULE Service ------------------------------
(***************************************************************************)
(* The HTTP service as its clients see it: Scheduler's write paths behind  *)
(* statuses, the availability query, and clients that look before they     *)
(* book and repeat a command that was answered 500.  Every step of the     *)
(* write paths is one of Scheduler's.                                      *)
(*                                                                         *)
(* Bounds: a command is repeated as often as Previous has links.           *)
(***************************************************************************)
EXTENDS Scheduler

CONSTANT Previous  \* Previous[r]: the request that r repeats, or None

ASSUME PreviousAssumption == Previous \in [Requests -> Requests \cup {None}]

VARIABLES
  ask,    \* the booking each client has queried availability for
  offer,  \* what that query was answered
  view    \* the table when the client last learned of it: its query, or its arrival

clientVars  == <<ask, offer, view>>
serviceVars == <<vars, clientVars>>

ServiceInit ==
  /\ Init
  /\ ask = [r \in Requests |-> None]
  /\ offer = [r \in Requests |-> Nothing]
  /\ view = [r \in Requests |-> table]

(* The three routes: the status each outcome is rendered with.  A start    *)
(* that derives no interval stands for an unusable or out-of-hours one.    *)
BookStatus(outcome) ==
  CASE outcome = "confirmed"                        -> 201
    [] outcome = "rejected"                         -> 400
    [] outcome \in {"exhausted", "capped"}          -> 409
    [] outcome \in {"aborted", "unknown-service"}   -> 422
    [] outcome \in {"no-bays", "no-verdict"}        -> 500

CancelStatus(outcome) ==
  CASE outcome = "cancelled" -> 200
    [] outcome = "not-found" -> 404

MoveStatus(outcome) ==
  CASE outcome = "moved"                                    -> 200
    [] outcome = "rejected"                                 -> 400
    [] outcome = "not-found"                                -> 404
    [] outcome \in {"not-confirmed", "exhausted", "capped"} -> 409
    [] outcome = "no-verdict"                               -> 500

(* What a use case throws reaches setErrorHandler, which answers 500.      *)
Thrown == {"overrun", "error"}

Status(r) ==
  CASE answer[r] = "none"     -> 0
    [] answer[r] \in Thrown   -> 500
    [] OTHER -> CASE cmd[r].op = "book"   -> BookStatus(answer[r])
                  [] cmd[r].op = "move"   -> MoveStatus(answer[r])
                  [] cmd[r].op = "cancel" -> CancelStatus(answer[r])

(* Mutant: the candidates, occupied or not.                                *)
FreeOrNot(c) == Candidates(c.service)

(* queryAvailability: the candidates, less what the occupancy read over    *)
(* the derived interval reports busy.                                      *)
Free(c) == [k \in Kinds |-> Candidates(c.service)[k] \ Busy(table, c.slot)[k]]

(* GET /availability for a booking the client means to make.               *)
Look(r) ==
  /\ pc[r] = "idle" /\ Previous[r] = None /\ ask[r] = None
  /\ \E c \in Commands :
       /\ c.op = "book" /\ c.id = r /\ c.derives
       /\ ask' = [ask EXCEPT ![r] = c]
       /\ offer' = [offer EXCEPT ![r] = Free(c)]
  /\ view' = [view EXCEPT ![r] = table]
  /\ UNCHANGED vars

(* A first command: any, or the booking that was asked about.              *)
Send(r) ==
  /\ Previous[r] = None /\ Arrive(r)
  /\ ask[r] # None => cmd'[r] = ask[r]
  /\ view' = IF ask[r] = None THEN [view EXCEPT ![r] = table] ELSE view
  /\ UNCHANGED <<ask, offer>>

(* The command of a request answered 500, once more.  A booking carries    *)
(* nothing that tells it from a new one: it is given an id of its own.     *)
Resend(r) ==
  /\ Previous[r] # None /\ pc[Previous[r]] = "done" /\ Status(Previous[r]) = 500
  /\ Arrive(r)
  /\ LET c == cmd[Previous[r]]
     IN  cmd'[r] = [c EXCEPT !.id = IF c.op = "book" THEN r ELSE c.id]
  /\ view' = [view EXCEPT ![r] = table]
  /\ UNCHANGED <<ask, offer>>

(* Everything sent is answered, and nothing is left to send.               *)
AllQuiet ==
  /\ \A r \in Requests :
       \/ pc[r] = "done"
       \/ pc[r] = "idle" /\ Previous[r] # None /\ pc[Previous[r]] = "done"
            /\ Status(Previous[r]) # 500
  /\ UNCHANGED serviceVars

ServiceNext ==
  \/ \E r \in Requests :
       \/ Look(r) \/ Send(r) \/ Resend(r)
       \/ (Step(r) \/ Fail(r) \/ LoseCommit(r)) /\ UNCHANGED clientVars
  \/ AllQuiet

ServiceSpec == ServiceInit /\ [][ServiceNext]_serviceVars

-----------------------------------------------------------------------------
(* Properties.                                                             *)

(* This step decides r's request, other than by a failure.                 *)
Decides(r) == answer[r] = "none" /\ answer'[r] \notin {"none", "error"}

(* What a booking is answered on table t by whoever looks at all of it.    *)
BookingOn(t, c) ==
  CASE ~ c.derives -> "rejected"
    [] c.derives /\ Bays = {} -> "no-bays"
    [] c.derives /\ Bays # {} /\ Qualified[c.service] = {} -> "unknown-service"
    [] c.derives /\ Bays # {} /\ Qualified[c.service] # {} ->
         IF ~ FreePair(t, c.service, c.slot) THEN "exhausted"
         ELSE IF c.owned THEN "confirmed" ELSE "aborted"

(* The same of a move; its own row is in nobody's way.                     *)
MoveOn(t, c) ==
  CASE t[c.id] = None -> "not-found"
    [] t[c.id] # None /\ ~ c.derives -> "rejected"
    [] t[c.id] # None /\ c.derives ->
         IF t[c.id].status = "cancelled" THEN "not-confirmed"
         ELSE IF FreePair([t EXCEPT ![c.id] = None], t[c.id].service, c.slot)
              THEN "moved" ELSE "exhausted"

CancelOn(t, c) == IF t[c.id] = None THEN "not-found" ELSE "cancelled"

(* A request during which no appointment changed is decided as a search of *)
(* every pair would decide it: candidate order, free-first partition,      *)
(* incumbent first, pruning and other requests' aborted attempts, waits    *)
(* and locks change nothing (runAttemptLoop below its cap).                *)
DecidesAsAlone ==
  [][\A r \in Requests : Decides(r) /\ answer'[r] # "capped" /\ view[r] = table =>
       answer'[r] = CASE cmd[r].op = "book"   -> BookingOn(table, cmd[r])
                      [] cmd[r].op = "move"   -> MoveOn(table, cmd[r])
                      [] cmd[r].op = "cancel" -> CancelOn(table, cmd[r])]_serviceVars

(* Availability and booking agree: while no appointment changes after the  *)
(* query, a booking offered a bay and a technician gets them from those    *)
(* offered at its first attempt, and one offered none of a kind is refused *)
(* (queryAvailability and bookAppointment, ADR-0039).                      *)
OfferHolds ==
  [][\A r \in Requests :
       Decides(r) /\ ask[r] # None /\ ask[r].owned /\ view[r] = table =>
         IF Exhausted(offer[r])
         THEN answer'[r] \in {"exhausted", "capped", "unknown-service", "no-bays"}
         ELSE /\ answer'[r] = "confirmed" /\ attempts[r] = 1
              /\ \A k \in Kinds : table'[r].at[k] \in offer[r][k]]_serviceVars

(* A move to the interval its row already has (one repeated after a lost   *)
(* acknowledgement) succeeds in place whatever other requests do to other  *)
(* rows meanwhile: it never conflicts with itself, never lets go of its    *)
(* pair, and tries that pair first (rescheduleAppointment, QS-5, ADR-0027).*)
RepeatedMoveStays ==
  [][\A r \in Requests :
       Decides(r) /\ cmd[r].op = "move" /\ cmd[r].derives =>
         LET id == Target(r)
         IN  table[id] # None /\ table[id] = view[r][id] /\ table[id].status = "confirmed"
               /\ table[id].slot = cmd[r].slot
             => answer'[r] = "moved" /\ table'[id].at = table[id].at]_serviceVars

(* A 500 reports a failed statement or a dealership without bays: never    *)
(* contention, however requests race (the internal row of the taxonomy;    *)
(* QS-5: "no move answers 500").                                           *)
ContentionIsNever500 ==
  UseLocks /\ Bays # {} /\ faults = 0 => \A r \in Requests : Status(r) # 500
=============================================================================
