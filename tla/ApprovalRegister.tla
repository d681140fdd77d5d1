--------------------------- MODULE ApprovalRegister ---------------------------
(***************************************************************************)
(* What monthly approval promises, with no polls, chains or transactions:  *)
(* an account says one thing about an entity in a month, and what it said  *)
(* stands.                                                                 *)
(***************************************************************************)
CONSTANTS
  Users,       (* accounts                                                 *)
  Entities,    (* people, parties and coalitions                           *)
  Months,      (* the first days of months                                 *)
  Positions,   (* approve, disapprove, no opinion                          *)
  None

VARIABLE said   (* per account, entity and month: a position or None       *)

Init == said = [u \in Users |-> [k \in Entities \X Months |-> None]]

(* The account says one of the positions.                                  *)
Say(u, k) ==
  /\ said[u][k] = None
  /\ said'[u][k] \in Positions
  /\ said' = [said EXCEPT ![u][k] = said'[u][k]]

Next == \E u \in Users, k \in Entities \X Months : Say(u, k)

Spec == Init /\ [][Next]_said
==============================================================================
