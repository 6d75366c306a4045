------------------------------ MODULE Vacancy ------------------------------
(***************************************************************************)
(* Scheduler with a history variable: for each request, whether some       *)
(* candidate pair has been free at every instant since its first attempt.  *)
(***************************************************************************)
EXTENDS Scheduler

VARIABLE vacant

(* A pair is free for r when no committed row other than its own needs it. *)
FreeFor(r) ==
  attempts[r] > 0 =>
    FreePair([table EXCEPT ![Target(r)] = None], ServiceOf(r), cmd[r].slot)

VacancyInit == Init /\ vacant = [r \in Requests |-> TRUE]

VacancyNext ==
  Next /\ vacant' = [r \in Requests |-> vacant[r] /\ (Live(r) => FreeFor(r)')]

VacancySpec == VacancyInit /\ [][VacancyNext]_<<vars, vacant>>

(* "Only the capped arm can be spurious" (docs/arc42/11, R-4): a request   *)
(* refused as exhausted faced an instant at which no pair was free.        *)
OnlyCappedIsSpurious ==
  \A r \in Requests : answer[r] = "exhausted" => ~ vacant[r]
=============================================================================
