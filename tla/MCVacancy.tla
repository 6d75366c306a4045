----------------------------- MODULE MCVacancy -----------------------------
(* The instances of MCScheduler, for the history of vacancies.             *)
EXTENDS MCScheduler, Vacancy
=============================================================================
