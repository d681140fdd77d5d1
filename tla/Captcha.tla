-------------------------------- MODULE Captcha --------------------------------
(***************************************************************************)
(* The proof of work: crates/server/src/captcha.rs over mark_used of       *)
(* crates/db/src/captcha.rs.                                               *)
(*                                                                         *)
(* Time is counted in ticks, a few to the second, because the deadline of  *)
(* a challenge is in whole seconds and the memory of a solution is not.    *)
(* A solution is its challenge's signature; one that is not signed or does *)
(* not solve its challenge is refused before anything here.                *)
(*                                                                         *)
(* A definition named after another with a suffix (InsertUnlocked, ...) is *)
(* a mistake one could make there; a property must tell it from the code.  *)
(***************************************************************************)
EXTENDS Naturals, Sequences, FiniteSets

CONSTANTS
  Challenges,      (* signatures                                           *)
  Requests,        (* slots for requests in flight                         *)
  TicksPerSecond,
  TTLSeconds,      (* TTL_SECONDS                                          *)
  Lag,             (* the ticks a request takes at most                    *)
  LastTick,        (* bound: when the model's time ends                    *)
  None

ASSUME CaptchaAssumption ==
  /\ TicksPerSecond \in Nat \ {0} /\ TTLSeconds \in Nat \ {0} /\ LastTick \in Nat
  /\ Lag \in 0 .. TTLSeconds * TicksPerSecond
  /\ None \notin Challenges \union Nat

VARIABLES
  now,         (* the clock, in ticks                                      *)
  deadline,    (* the second in a challenge's salt, None before it is made *)
  used,        (* rows of captcha_used: the tick a row expires at          *)
  accepted,    (* per challenge, its accepted submissions in order         *)
  step, proof  (* what each request does next, and its local values        *)

captchaVars == <<now, deadline, used, accepted, step, proof>>

Accepted == [at: Nat, expires: Nat]
Proof == [solution: Challenges \union {None}, since: Nat, at: Nat, expires: Nat,
          pruned: SUBSET Challenges, first: BOOLEAN]
NoProof == [solution |-> None, since |-> 0, at |-> 0, expires |-> 0, pruned |-> {}, first |-> FALSE]

Seconds(t) == t \div TicksPerSecond
TTL == TTLSeconds * TicksPerSecond

Goto(r, next, j) ==
  /\ step' = [step EXCEPT ![r] = next]
  /\ proof' = [proof EXCEPT ![r] = j]

(* Rows an open transaction has deleted or inserted.                       *)
Holds(r) == proof[r].pruned \union (IF step[r] = "commit" THEN {proof[r].solution} ELSE {})
HeldByOther(r, c) == \E q \in Requests \ {r} : c \in Holds(q)

------------------------------------------------------------------------------
Challenge(c) ==
  /\ deadline[c] = None
  /\ deadline' = [deadline EXCEPT ![c] = Seconds(now + TTL)]
  /\ UNCHANGED <<now, used, accepted, step, proof>>

(* verify: the deadline, and how long the solution will be remembered.     *)
Verify(r, c) ==
  /\ step[r] = "idle"
  /\ deadline[c] # None /\ Seconds(now) <= deadline[c]
  /\ Goto(r, "prune", [NoProof EXCEPT !.solution = c, !.since = now, !.expires = now + TTL])
  /\ UNCHANGED <<now, deadline, used, accepted>>

Expired(t) == {c \in Challenges : used[c] # None /\ used[c] < t}

(* delete ... where expires_at < now(): the time the transaction began.    *)
Prune(r) ==
  /\ step[r] = "prune"
  /\ \A c \in Expired(now) : ~HeldByOther(r, c)
  /\ Goto(r, "insert", [proof[r] EXCEPT !.at = now, !.pruned = Expired(now)])
  /\ UNCHANGED <<now, deadline, used, accepted>>

InsertUnlocked(r) ==
  LET c == proof[r].solution
  IN /\ step[r] = "insert"
     /\ Goto(r, "commit", [proof[r] EXCEPT !.first = used[c] = None \/ c \in proof[r].pruned])
     /\ UNCHANGED <<now, deadline, used, accepted>>

(* insert ... on conflict do nothing: it waits for another transaction     *)
(* that has inserted or deleted the row.                                   *)
InsertSolution(r) ==
  LET c == proof[r].solution
  IN /\ step[r] = "insert"
     /\ ~HeldByOther(r, c)
     /\ Goto(r, "commit", [proof[r] EXCEPT !.first = used[c] = None \/ c \in proof[r].pruned])
     /\ UNCHANGED <<now, deadline, used, accepted>>

CommitSolution(r) ==
  LET j == proof[r]
      kept == [c \in Challenges |-> IF c \in j.pruned THEN None ELSE used[c]]
  IN /\ step[r] = "commit"
     /\ IF j.first
        THEN /\ used' = [kept EXCEPT ![j.solution] = j.expires]
             /\ accepted' = [accepted EXCEPT ![j.solution] =
                               Append(@, [at |-> now, expires |-> j.expires])]
        ELSE used' = kept /\ UNCHANGED accepted
     /\ Goto(r, "idle", NoProof)
     /\ UNCHANGED <<now, deadline>>

(* The request is dropped; its transaction rolls back.                     *)
Abort(r) ==
  /\ step[r] # "idle"
  /\ Goto(r, "idle", NoProof)
  /\ UNCHANGED <<now, deadline, used, accepted>>

Tick ==
  /\ now < LastTick
  /\ \A r \in Requests : step[r] # "idle" => now < proof[r].since + Lag
  /\ now' = now + 1
  /\ UNCHANGED <<deadline, used, accepted, step, proof>>

CaptchaInit ==
  /\ now = 0
  /\ deadline = [c \in Challenges |-> None]
  /\ used = [c \in Challenges |-> None]
  /\ accepted = [c \in Challenges |-> <<>>]
  /\ step = [r \in Requests |-> "idle"]
  /\ proof = [r \in Requests |-> NoProof]

CaptchaNext ==
  \/ \E c \in Challenges : Challenge(c) \/ \E r \in Requests : Verify(r, c)
  \/ \E r \in Requests : Prune(r) \/ InsertSolution(r) \/ CommitSolution(r) \/ Abort(r)
  \/ Tick

CaptchaSpec == CaptchaInit /\ [][CaptchaNext]_captchaVars

------------------------------------------------------------------------------
(* Properties.                                                             *)

CaptchaTypeOK ==
  /\ now \in 0 .. LastTick
  /\ deadline \in [Challenges -> Nat \union {None}]
  /\ used \in [Challenges -> Nat \union {None}]
  /\ accepted \in [Challenges -> Seq(Accepted)]
  /\ step \in [Requests -> {"idle", "prune", "insert", "commit"}]
  /\ proof \in [Requests -> Proof]

(* "A captcha solution is valid once": while it is remembered it is not    *)
(* accepted again, whatever submissions of it are in flight and whoever    *)
(* prunes the table.                                                       *)
OnceWhileRemembered ==
  \A c \in Challenges : \A i, j \in DOMAIN accepted[c] :
    i < j => accepted[c][i].expires < accepted[c][j].at
==============================================================================
