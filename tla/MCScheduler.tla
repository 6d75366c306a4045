---------------------------- MODULE MCScheduler ----------------------------
(***************************************************************************)
(* Instances of Scheduler for TLC.                                         *)
(***************************************************************************)
EXTENDS Scheduler, TLC

CONSTANTS r1, r2, r3, a1, a2

MCBays  == {"b1", "b2"}
MCTechs == {"t1", "t2"}
MCServices  == {"service", "special", "unstaffed"}
MCQualified == [s \in MCServices |->
                  CASE s = "service"   -> MCTechs
                    [] s = "special"   -> {"t1"}
                    [] s = "unstaffed" -> {}]

(* early and late overlap; early and next touch without overlapping.       *)
Early == [from |-> 1, to |-> 3]
Late  == [from |-> 2, to |-> 4]
After == [from |-> 3, to |-> 5]
MCSlots == {Early, Late, After}

(* Distinct hashes, in an order that disagrees with the names.             *)
MCHash == [x \in MCBays \cup MCTechs |->
             CASE x = "b1" -> 7 [] x = "b2" -> 3 [] x = "t1" -> 9 [] x = "t2" -> 5]
(* Both bays and both technicians collide: a move takes two keys, not four.*)
MCCollidingHash == [x \in MCBays \cup MCTechs |-> 4]

Booking(id, slot) == [op |-> "book", id |-> id, slot |-> slot, service |-> "service",
                      derives |-> TRUE, owned |-> TRUE]
Moving(id, slot)  == [Booking(id, slot) EXCEPT !.op = "move"]
Cancelling(id)    == [Booking(id, Early) EXCEPT !.op = "cancel"]

Stored(bay, tech, slot) ==
  [at |-> [k \in Kinds |-> IF k = "bay" THEN bay ELSE tech], slot |-> slot,
   service |-> "service", status |-> "confirmed", rev |-> 0]

(* Two appointments side by side over the early slot.                      *)
SideBySide ==
  [a \in Ids |-> CASE a = a1 -> Stored("b1", "t1", Early)
                   [] a = a2 -> Stored("b2", "t2", Early)
                   [] OTHER  -> None]
(* Two appointments one after the other in one pair.                       *)
BackToBack ==
  [a \in Ids |-> CASE a = a1 -> Stored("b1", "t1", Early)
                   [] a = a2 -> Stored("b1", "t1", After)
                   [] OTHER  -> None]

MCTables   == {SideBySide, BackToBack}
MCOrNoRows == MCTables \cup {[a \in Ids |-> None]}

(* Moves of the stored rows across each other, with bookings and           *)
(* cancellations.                                                          *)
MoveCommands ==
  {Moving(a, s) : a \in {a1, a2}, s \in {Early, Late}} \cup {Cancelling(a1)}
    \cup {Booking(r, Late) : r \in Requests}

(* The same with bookings of the interval that overlaps, too.              *)
MoveAndBookCommands == MoveCommands \cup {Booking(r, Early) : r \in Requests}

(* Every kind of command, with the ones refused for their own data.        *)
AllCommands ==
  {Moving(a1, Late), Moving(a2, Late), Cancelling(a1)}
    \cup UNION {{Booking(r, Late),
                 [Booking(r, Late) EXCEPT !.owned = FALSE],
                 [Booking(r, Late) EXCEPT !.derives = FALSE],
                 [Booking(r, Late) EXCEPT !.service = "unstaffed"],
                 [Booking(r, Late) EXCEPT !.service = "special"],
                 Moving(r, Early), Cancelling(r)} : r \in Requests}
    \cup {[Moving(a1, Late) EXCEPT !.derives = FALSE]}

Symmetry == Permutations(Requests)
=============================================================================
