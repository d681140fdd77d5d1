------------------------------ MODULE BallotBox ------------------------------
(***************************************************************************)
(* What anonymous voting promises a poll, with no keys, requests or        *)
(* database: an account is given at most one ticket for a poll, a ticket   *)
(* is dropped into that poll's box at most once, and nothing ever leaves   *)
(* the box or moves inside it.                                             *)
(***************************************************************************)
EXTENDS Naturals, Sequences

CONSTANTS
  Polls,       (* polls                                                   *)
  Users,       (* accounts                                                *)
  Tokens,      (* the random values voters mint                           *)
  OptionIds    (* rows of poll_options                                    *)

VARIABLES
  tickets,     (* [poll, user, token] ever given out                      *)
  box          (* per poll, the [token, choice] dropped so far, in order  *)

vars == <<tickets, box>>

Init ==
  /\ tickets = {}
  /\ box = [p \in Polls |-> <<>>]

HasTicket(p, u) == \E t \in tickets : t.poll = p /\ t.user = u

Dropped(p, t) == \E i \in DOMAIN box[p] : box[p][i].token = t

(* An account without a ticket for the poll gets one.                      *)
GiveTicket(p, u, t) ==
  /\ ~HasTicket(p, u)
  /\ tickets' = tickets \union {[poll |-> p, user |-> u, token |-> t]}
  /\ UNCHANGED box

(* Whoever holds a ticket not yet used drops it with a choice.             *)
Drop(p, t, c) ==
  /\ \E k \in tickets : k.poll = p /\ k.token = t
  /\ ~Dropped(p, t)
  /\ box' = [box EXCEPT ![p] = Append(@, [token |-> t, choice |-> c])]
  /\ UNCHANGED tickets

Next ==
  \/ \E p \in Polls, u \in Users, t \in Tokens : GiveTicket(p, u, t)
  \/ \E p \in Polls, t \in Tokens, c \in (SUBSET OptionIds) \ {{}} : Drop(p, t, c)

Spec == Init /\ [][Next]_vars
==============================================================================
