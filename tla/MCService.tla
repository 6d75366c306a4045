----------------------------- MODULE MCService -----------------------------
(***************************************************************************)
(* Instances of Service for TLC: r2 repeats r1, r3 is another client's.    *)
(***************************************************************************)
EXTENDS MCScheduler, Service

MCPrevious == [r \in Requests |-> IF r = r2 THEN r1 ELSE None]
=============================================================================
