------------------------------ MODULE MCProcess ------------------------------
(***************************************************************************)
(* An instance of Process for TLC: a booking and a move or a cancellation  *)
(* that contend, beside reads, over pools of one and two clients.          *)
(***************************************************************************)
EXTENDS Process

CONSTANTS r1, r2, r3

Usual(clients) ==
  [name \in {"DATABASE_URL", "LOG_LEVEL", "PORT", "BOOKING_ATTEMPT_CAP", "BOOKING_SEED",
             "DB_POOL_MAX"} |->
     CASE name = "DATABASE_URL" -> Word("url")
       [] name = "PORT"         -> Number(3000)
       [] name = "DB_POOL_MAX"  -> clients
       [] OTHER                 -> Absent]

(* Pools of one and two; no room, a stray word, a missing port.            *)
MCEnvironments ==
  {Usual(Number(1)), Usual(Number(2)), Usual(Number(0)),
   [Usual(Number(1)) EXCEPT !["LOG_LEVEL"] = Word("verbose")],
   [Usual(Number(1)) EXCEPT !["PORT"] = Absent]}

MCInputs ==
  [r \in Requests |->
     CASE r = r1 -> {[use |-> "book", body |-> "valid"]}
       [] r = r2 -> {[use |-> "cancel", body |-> "empty"]}
       [] r = r3 -> {[use |-> "health", body |-> "empty"],
                     [use |-> "unrouted", body |-> "unparsable"],
                     [use |-> "move", body |-> "empty"]}]
=============================================================================
