------------------------------- MODULE Approvals -------------------------------
(***************************************************************************)
(* Monthly approval: crates/db/src/approvals.rs and the handler and panel  *)
(* of crates/server/src/pages/approve.rs, over the tables of migrations    *)
(* 0004, 0010 and 0037 and the trigger poll_votes_chain.                   *)
(*                                                                         *)
(* Each statement of a request is a step.  The transaction of cast works   *)
(* at READ COMMITTED: a statement sees what is committed and what its own  *)
(* transaction wrote (job), and its writes appear to others in Commit.     *)
(*                                                                         *)
(* A hash is the content it binds.  A definition named after another with  *)
(* a suffix (ChainUnchecked, ...) is a mistake one could make there; a     *)
(* property must tell it from the code.                                    *)
(***************************************************************************)
EXTENDS Naturals, Sequences, FiniteSets

CONSTANTS
  Users,       (* verified accounts, signed in                             *)
  Entities,    (* people, parties and coalitions that exist                *)
  Positions,   (* approve, disapprove, no opinion: 1, 2, 3                 *)
  LastMonth,   (* bound: the months there are, from 1                      *)
  Ids,         (* ids of polls                                             *)
  Requests,    (* slots for requests in flight                             *)
  MaxFaults,   (* bound: requests dropped                                  *)
  MaxOthers,   (* bound: slugs of approval polls that other polls take     *)
  None

Months == 1 .. LastMonth
Keys == Entities \X Months
Link == [seq: Nat, option: Positions, index: Nat]
Vote == [user: Users, option: Positions, seq: Nat, index: Nat, hash: Seq(Link)]

ASSUME ApprovalsAssumption ==
  /\ IsFiniteSet(Users) /\ Positions # {} /\ Positions \subseteq Nat
  /\ LastMonth \in Nat \ {0} /\ MaxFaults \in Nat /\ MaxOthers \in Nat
  /\ None \notin Users \union Ids \union Keys \union Positions \union Vote

VARIABLES
  month,       (* the current period                                       *)
  polls,       (* polls of kind approval: their entity and period          *)
  others,      (* entities and periods whose slug a poll of another kind   *)
               (* has: of the admin's form, a submission or the dataset    *)
  options,     (* poll_options: the positions a poll has                   *)
  votes,       (* poll_votes of a poll, in seq order                       *)
  chain,       (* its row of poll_chains                                   *)
  pc, job,     (* what each request does next, and its local values        *)
  faults       (* requests dropped so far                                  *)

tables == <<polls, others, options, votes, chain>>
requests == <<pc, job>>
vars == <<month, tables, requests, faults>>

HeadRow == [seq: Nat, hash: Seq(Link), next: Nat]
Tally == [Positions -> Nat]
Job == [user: Users \union {None}, key: Keys \union {None}, choice: Positions,
        poll: Ids \union {None}, creates: BOOLEAN, adds: SUBSET Positions,
        vote: Vote \union {None}, tally: Tally, mine: Positions \union {None}]
InTransaction == {"find_poll", "add_options", "find_option", "lock_chain", "chain", "commit"}
Steps == {"idle", "insert_poll", "insert_slug", "tally", "my_choice", "answer", "slug_taken",
          "failed"} \union InTransaction

Genesis == [seq |-> 0, hash |-> <<>>, next |-> 1]
Zero == [c \in Positions |-> 0]

------------------------------------------------------------------------------
At(r, step) == pc[r] = step

NoJob == [user |-> None, key |-> None, choice |-> CHOOSE c \in Positions : TRUE,
          poll |-> None, creates |-> FALSE, adds |-> {}, vote |-> None, tally |-> Zero, mine |-> None]

Start(r, step, j) ==
  /\ At(r, "idle")
  /\ pc' = [pc EXCEPT ![r] = step]
  /\ job' = [job EXCEPT ![r] = j]

Goto(r, step, j) ==
  /\ pc' = [pc EXCEPT ![r] = step]
  /\ job' = [job EXCEPT ![r] = j]

Committed(k) == {i \in Ids : polls[i] = k}

(* The unique keys and row locks of open transactions.                     *)
CreatesPoll(r, k) == pc[r] \in InTransaction /\ job[r].creates /\ job[r].key = k
LocksChain(r, i) == pc[r] \in {"chain", "commit"} /\ job[r].poll = i
FreshId(i) == polls[i] = None /\ \A r \in Requests : job[r].creates => job[r].poll # i

------------------------------------------------------------------------------
(* The handler: exists and the choice are checked, the period is read.     *)

CastStart(r, u, e, c) ==
  /\ Start(r, "insert_poll", [NoJob EXCEPT !.user = u, !.key = <<e, month>>, !.choice = c])
  /\ UNCHANGED <<month, tables, faults>>

(* insert into polls ... on conflict do nothing, first half: the arbiter,   *)
(* (entity, period), is looked up, waiting for a transaction that is        *)
(* creating the poll.                                                       *)
InsertPoll(r) ==
  LET k == job[r].key
  IN /\ At(r, "insert_poll")
     /\ \A q \in Requests \ {r} : ~CreatesPoll(q, k)
     /\ Goto(r, IF Committed(k) # {} THEN "find_poll" ELSE "insert_slug", job[r])
     /\ UNCHANGED <<month, tables, faults>>

(* An entity and a period make one slug.                                    *)
SlugTaken(k) == Committed(k) # {} \/ k \in others

InsertSlugUnchecked(r) ==
  /\ At(r, "insert_slug")
  /\ \E i \in Ids :
       FreshId(i) /\ Goto(r, "find_poll", [job[r] EXCEPT !.poll = i, !.creates = TRUE])
  /\ UNCHANGED <<month, tables, faults>>

(* ... second half: the row enters the indexes.  polls.slug is unique too   *)
(* and no arbiter: a slug that another poll has, or a transaction brings     *)
(* that was waited for, is a unique_violation, not a conflict.              *)
InsertSlug(r) ==
  LET k == job[r].key
  IN /\ At(r, "insert_slug")
     /\ \A q \in Requests \ {r} : ~CreatesPoll(q, k)
     /\ IF SlugTaken(k)
        THEN Goto(r, "slug_taken", job[r])
        ELSE \E i \in Ids :
               FreshId(i) /\ Goto(r, "find_poll", [job[r] EXCEPT !.poll = i, !.creates = TRUE])
     /\ UNCHANGED <<month, tables, faults>>

(* The transaction sees the poll it created itself.                        *)
FindPoll(r) ==
  /\ At(r, "find_poll")
  /\ \E i \in Committed(job[r].key) \union (IF job[r].creates THEN {job[r].poll} ELSE {}) :
       Goto(r, "add_options", [job[r] EXCEPT !.poll = i])
  /\ UNCHANGED <<month, tables, faults>>

(* on conflict (poll_id, position) do nothing.                             *)
AddOptions(r) ==
  /\ At(r, "add_options")
  /\ Goto(r, "find_option", [job[r] EXCEPT !.adds = Positions \ options[job[r].poll]])
  /\ UNCHANGED <<month, tables, faults>>

FindOption(r) ==
  /\ At(r, "find_option")
  /\ IF job[r].choice \in options[job[r].poll] \union job[r].adds
     THEN Goto(r, "lock_chain", job[r])
     ELSE Goto(r, "failed", job[r])
  /\ UNCHANGED <<month, tables, faults>>

(* The trigger: select ... from poll_chains ... for update.                *)
LockChain(r) ==
  /\ At(r, "lock_chain")
  /\ \A q \in Requests \ {r} : ~LocksChain(q, job[r].poll)
  /\ Goto(r, "chain", job[r])
  /\ UNCHANGED <<month, tables, faults>>

HasVoted(u, i) == \E n \in DOMAIN votes[i] : votes[i][n].user = u

NextVote(r) ==
  LET h == chain[job[r].poll]
      link == [seq |-> h.seq + 1, option |-> job[r].choice, index |-> h.next]
  IN [user |-> job[r].user, option |-> job[r].choice, seq |-> h.seq + 1, index |-> h.next,
      hash |-> Append(h.hash, link)]

ChainUnchecked(r) ==
  /\ At(r, "chain")
  /\ Goto(r, "commit", [job[r] EXCEPT !.vote = NextVote(r)])
  /\ UNCHANGED <<month, tables, faults>>

(* ... the rest of the trigger, under the lock: a repeat returns null.     *)
Chain(r) ==
  /\ At(r, "chain")
  /\ Goto(r, "commit", IF HasVoted(job[r].user, job[r].poll)
                       THEN job[r] ELSE [job[r] EXCEPT !.vote = NextVote(r)])
  /\ UNCHANGED <<month, tables, faults>>

SeqTaken(i, n) == \E m \in DOMAIN votes[i] : votes[i][m].seq = n

Written(j) == [j EXCEPT !.creates = FALSE, !.adds = {}, !.vote = None]

(* The transaction's writes appear together, unless unique (poll_id, seq)  *)
(* refuses the vote.  A skipped vote leaves the head alone.                *)
Commit(r) ==
  LET j == job[r]
      i == j.poll
  IN /\ At(r, "commit")
     /\ IF j.vote # None /\ SeqTaken(i, j.vote.seq)
        THEN Goto(r, "failed", Written(j)) /\ UNCHANGED tables
        ELSE /\ polls' = [polls EXCEPT ![i] = j.key]
             /\ options' = [options EXCEPT ![i] = @ \union j.adds]
             /\ IF j.vote = None
                THEN UNCHANGED <<votes, chain>>
                ELSE /\ votes' = [votes EXCEPT ![i] = Append(@, j.vote)]
                     /\ chain' = [chain EXCEPT ![i] = [seq |-> j.vote.seq, hash |-> j.vote.hash,
                                                       next |-> j.vote.index + 1]]
             /\ Goto(r, "tally", Written(j)) /\ UNCHANGED others
     /\ UNCHANGED <<month, faults>>

------------------------------------------------------------------------------
(* The panel that answers a cast, in the same request (htmx).              *)

Count(k, c) ==
  Cardinality({x \in Committed(k) \X (1 .. Cardinality(Users)) :
                 x[2] \in DOMAIN votes[x[1]] /\ votes[x[1]][x[2]].option = c})

ReadTallyNow(r) ==
  /\ At(r, "tally")
  /\ Goto(r, "my_choice",
          [job[r] EXCEPT !.tally = [c \in Positions |-> Count(<<job[r].key[1], month>>, c)]])
  /\ UNCHANGED <<month, tables, faults>>

(* Of the period the request read at its start.                            *)
ReadTally(r) ==
  /\ At(r, "tally")
  /\ Goto(r, "my_choice", [job[r] EXCEPT !.tally = [c \in Positions |-> Count(job[r].key, c)]])
  /\ UNCHANGED <<month, tables, faults>>

Said(u, k) ==
  {c \in Positions : \E i \in Committed(k) : \E n \in DOMAIN votes[i] :
                       votes[i][n].user = u /\ votes[i][n].option = c}

(* limit 1, so any of them.                                                *)
ReadMyChoice(r) ==
  LET said == Said(job[r].user, job[r].key)
  IN /\ At(r, "my_choice")
     /\ \E c \in IF said = {} THEN {None} ELSE said : Goto(r, "answer", [job[r] EXCEPT !.mine = c])
     /\ UNCHANGED <<month, tables, faults>>

(* The panel, or the error of a cast that failed: its transaction is gone.  *)
Answer(r) ==
  /\ At(r, "answer") \/ At(r, "slug_taken") \/ At(r, "failed")
  /\ Goto(r, "idle", NoJob)
  /\ UNCHANGED <<month, tables, faults>>

------------------------------------------------------------------------------
(* A poll of another kind gets the slug of an approval poll, if it is free. *)
WriteOther(k) ==
  /\ Cardinality(others) < MaxOthers
  /\ ~SlugTaken(k) /\ \A r \in Requests : ~CreatesPoll(r, k)
  /\ others' = others \union {k}
  /\ UNCHANGED <<month, polls, options, votes, chain, requests, faults>>

NewMonth ==
  /\ month < LastMonth
  /\ month' = month + 1
  /\ UNCHANGED <<tables, requests, faults>>

(* The request is dropped; an open transaction rolls back.                 *)
Abort(r) ==
  /\ ~At(r, "idle")
  /\ faults < MaxFaults
  /\ faults' = faults + 1
  /\ Goto(r, "idle", NoJob)
  /\ UNCHANGED <<month, tables>>

Init ==
  /\ month = 1
  /\ polls = [i \in Ids |-> None]
  /\ others = {}
  /\ options = [i \in Ids |-> {}]
  /\ votes = [i \in Ids |-> <<>>]
  /\ chain = [i \in Ids |-> Genesis]
  /\ pc = [r \in Requests |-> "idle"]
  /\ job = [r \in Requests |-> NoJob]
  /\ faults = 0

Transaction(r) ==
  \/ InsertPoll(r) \/ InsertSlug(r) \/ FindPoll(r) \/ AddOptions(r) \/ FindOption(r)
  \/ LockChain(r) \/ Chain(r) \/ Commit(r)

Panel(r) == ReadTally(r) \/ ReadMyChoice(r) \/ Answer(r)

Next ==
  \/ \E r \in Requests :
       \/ \E u \in Users, e \in Entities, c \in Positions : CastStart(r, u, e, c)
       \/ Transaction(r) \/ Panel(r) \/ Abort(r)
  \/ \E k \in Keys : WriteOther(k)
  \/ NewMonth

Spec == Init /\ [][Next]_vars

------------------------------------------------------------------------------
(* Properties.                                                             *)

TypeOK ==
  /\ month \in Months
  /\ polls \in [Ids -> Keys \union {None}] /\ others \subseteq Keys
  /\ options \in [Ids -> SUBSET Positions]
  /\ votes \in [Ids -> Seq(Vote)]
  /\ chain \in [Ids -> HeadRow]
  /\ pc \in [Requests -> Steps]
  /\ job \in [Requests -> Job]
  /\ faults \in 0 .. MaxFaults

(* "One approval poll per entity per month", however many first votes race *)
(* to create it, and in it one approval per account.                       *)
OneApproval ==
  \A i, j \in Ids : \A m \in DOMAIN votes[i], n \in DOMAIN votes[j] :
    polls[i] = polls[j] /\ votes[i][m].user = votes[j][n].user => i = j /\ m = n

(* The published chain is linear: no gaps, each row covers exactly the     *)
(* rows up to it, and the head is the last row.                            *)
Links(i) == [n \in DOMAIN votes[i] |->
               [seq |-> n, option |-> votes[i][n].option, index |-> votes[i][n].index]]

ChainLinear ==
  \A i \in Ids :
    /\ \A n \in DOMAIN votes[i] : votes[i][n].seq = n /\ votes[i][n].hash = SubSeq(Links(i), 1, n)
    /\ chain[i].seq = Len(votes[i]) /\ chain[i].hash = Links(i)

(* voter_index tells the voters of a poll apart and nothing else: it       *)
(* numbers them from 1 without a gap.                                      *)
IndexesNumberVoters ==
  \A i \in Ids : {votes[i][n].index : n \in DOMAIN votes[i]}
                   = 1 .. Cardinality({votes[i][n].user : n \in DOMAIN votes[i]})

(* No two polls share a slug, of whatever kind, and a cast runs into no     *)
(* other constraint: one that fails has met a poll that stands, so that the  *)
(* next one of the account finds the month's poll unless another poll has    *)
(* its slug for good.                                                       *)
OnlySlugsCollide ==
  /\ \A i \in Ids : polls[i] \notin others
  /\ \A r \in Requests : ~At(r, "failed") /\ (At(r, "slug_taken") => SlugTaken(job[r].key))

(* However first votes and repeats race, the month has one poll and a        *)
(* linear chain of one vote an account, and a cast fails over a slug only.   *)
ApprovalsSound ==
  TypeOK /\ OneApproval /\ ChainLinear /\ IndexesNumberVoters /\ OnlySlugsCollide

(* "The month's poll is created on demand (idempotently, safe under a race)" *)
(* (cast): no race makes a cast fail, only a poll of another kind that has   *)
(* the slug already.                                                        *)
SafeUnderRace ==
  \A r \in Requests : At(r, "slug_taken") => job[r].key \in others

(* The panel that answers a cast shows the account a choice, and counts    *)
(* it: the transaction is committed before the tally is read.              *)
PanelCountsMine ==
  \A r \in Requests : At(r, "answer") =>
    job[r].mine # None /\ job[r].tally[job[r].mine] > 0

(* What each account has said about each entity in each month.             *)
One(S) == IF S = {} THEN None ELSE CHOOSE c \in S : TRUE

Told == [u \in Users |-> [k \in Keys |-> One(Said(u, k))]]

Register == INSTANCE ApprovalRegister WITH said <- Told

(* The polls, chains and transactions keep what the register promises.     *)
ImplementsRegister == Register!Spec
==============================================================================
