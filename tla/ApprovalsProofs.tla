---------------------------- MODULE ApprovalsProofs ----------------------------
(***************************************************************************)
(* Proofs about Approvals for any number of accounts, entities, requests   *)
(* and months: the month has one poll with one vote an account in a linear *)
(* chain, a cast fails over a slug that is taken and over nothing else, the *)
(* panel counts the vote it answers, and the polls, chains and transactions *)
(* implement the register.                                                 *)
(*                                                                         *)
(* The tables of an approval poll change in Commit alone.  What a           *)
(* transaction has read by then still stands: the poll of its month is its  *)
(* own or there for good, no other poll has its slug, and the chain it      *)
(* extends is locked (Fits).                                               *)
(***************************************************************************)
EXTENDS Approvals, FiniteSetTheorems, SequenceTheorems, TLAPS

(* A transaction knows its poll from the second statement on.              *)
HasPoll == {"add_options", "find_option", "lock_chain", "chain", "commit"}

Fits(r) ==
  LET j == job[r]
  IN /\ pc[r] # "failed"
     /\ pc[r] # "idle" => j.user \in Users /\ j.key \in Keys
     /\ pc[r] = "slug_taken" => SlugTaken(j.key)
     /\ j.creates => /\ pc[r] \in InTransaction /\ j.poll \in Ids
                     /\ polls[j.poll] = None /\ Committed(j.key) = {} /\ j.key \notin others
     /\ pc[r] = "find_poll" => j.creates \/ Committed(j.key) # {}
     /\ pc[r] \in HasPoll => j.poll \in Ids /\ (j.creates \/ polls[j.poll] = j.key)
     /\ pc[r] \in HasPoll \ {"add_options"} => options[j.poll] \union j.adds = Positions
     /\ pc[r] # "commit" => j.vote = None
     /\ pc[r] = "commit" =>
          j.vote = IF HasVoted(j.user, j.poll) THEN None ELSE NextVote(r)
     /\ pc[r] \in {"tally", "my_choice", "answer"} => Said(j.user, j.key) # {}
     /\ pc[r] = "my_choice" => \A c \in Said(j.user, j.key) : j.tally[c] > 0
     /\ pc[r] = "answer" => j.mine # None /\ j.tally[j.mine] > 0

JobsFit == \A r \in Requests : Fits(r)

(* The unique keys and the row locks keep open transactions apart.         *)
CreatorsApart ==
  \A p, q \in Requests : p # q /\ job[p].creates /\ job[q].creates =>
    job[p].key # job[q].key /\ job[p].poll # job[q].poll
ChainsLocked ==
  \A p, q \in Requests : \A i \in Ids : p # q => ~(LocksChain(p, i) /\ LocksChain(q, i))

(* The tables.                                                             *)
SlugsApart == \A i \in Ids : polls[i] \notin others
OnePoll == \A i, j \in Ids : polls[i] = polls[j] /\ polls[i] # None => i = j
Unborn == \A i \in Ids : polls[i] = None => votes[i] = <<>>
OneVoteEach ==
  \A i \in Ids : \A m, n \in DOMAIN votes[i] : votes[i][m].user = votes[i][n].user => m = n
Numbered ==
  \A i \in Ids : /\ chain[i].next = Len(votes[i]) + 1
                 /\ \A n \in DOMAIN votes[i] : votes[i][n].index = n

IInv ==
  /\ TypeOK /\ JobsFit /\ CreatorsApart /\ ChainsLocked
  /\ SlugsApart /\ OnePoll /\ Unborn /\ OneVoteEach /\ Numbered /\ ChainLinear

------------------------------------------------------------------------------
(* Slots and statements that write nothing.                                *)

LEMMA NoJobFits ==
  /\ NoJob \in Job /\ ~NoJob.creates /\ NoJob.vote = None /\ NoJob.user = None
BY ApprovalsAssumption DEF NoJob, Job, Tally, Zero

LEMMA GotoSlot ==
  ASSUME TypeOK, NEW r \in Requests, NEW step \in Steps, NEW j \in Job, Goto(r, step, j)
  PROVE  /\ pc' \in [Requests -> Steps] /\ job' \in [Requests -> Job]
         /\ pc'[r] = step /\ job'[r] = j
         /\ \A q \in Requests : q # r => pc'[q] = pc[q] /\ job'[q] = job[q]
BY DEF TypeOK, Goto

LEMMA TablesKept ==
  ASSUME UNCHANGED tables
  PROVE  /\ \A k : Committed(k)' = Committed(k)
         /\ \A u, k : Said(u, k)' = Said(u, k)
         /\ \A u, i : HasVoted(u, i)' = HasVoted(u, i)
BY DEF tables, Committed, Said, HasVoted

(* A request keeps what it relies on while the tables and its slot stand.   *)
LEMMA FitsKept ==
  ASSUME NEW q \in Requests, Fits(q), pc'[q] = pc[q], job'[q] = job[q], UNCHANGED tables
  PROVE  Fits(q)'
<1>1. /\ polls' = polls /\ options' = options /\ votes' = votes /\ chain' = chain
      /\ others' = others
  BY DEF tables
<1>2. Committed(job[q].key)' = Committed(job[q].key)
  BY <1>1 DEF Committed
<1>3. Said(job[q].user, job[q].key)' = Said(job[q].user, job[q].key)
  BY <1>1 DEF Said, Committed
<1>4. HasVoted(job[q].user, job[q].poll)' = HasVoted(job[q].user, job[q].poll)
  BY <1>1 DEF HasVoted
<1>5. NextVote(q)' = NextVote(q)
  BY <1>1 DEF NextVote
<1> QED
  BY <1>1, <1>2, <1>3, <1>4, <1>5 DEF Fits, SlugTaken

LEMMA Quiet ==
  ASSUME IInv, NEW r \in Requests, NEW step \in Steps, NEW j \in Job, Goto(r, step, j),
         UNCHANGED tables, month' \in Months, faults' \in 0 .. MaxFaults, Fits(r)',
         j.creates =>
           \/ job[r].creates /\ j.key = job[r].key /\ j.poll = job[r].poll
           \/ \A q \in Requests \ {r} : job[q].creates => job[q].key # j.key /\ job[q].poll # j.poll,
         step \in {"chain", "commit"} =>
           \/ pc[r] \in {"chain", "commit"} /\ j.poll = job[r].poll
           \/ \A q \in Requests \ {r} : ~LocksChain(q, j.poll)
  PROVE  IInv'
<1>1. /\ pc' \in [Requests -> Steps] /\ job' \in [Requests -> Job]
      /\ pc'[r] = step /\ job'[r] = j
      /\ \A q \in Requests : q # r => pc'[q] = pc[q] /\ job'[q] = job[q]
  BY GotoSlot DEF IInv
<1>2. TypeOK'
  BY <1>1 DEF IInv, TypeOK, tables
<1>3. ASSUME NEW q \in Requests, q # r PROVE Fits(q)'
  <2>1. Fits(q) /\ pc'[q] = pc[q] /\ job'[q] = job[q]
    BY <1>1, <1>3 DEF IInv, JobsFit
  <2> QED
    BY <2>1, FitsKept
<1>4. JobsFit'
  BY <1>3 DEF JobsFit
<1>5. CreatorsApart'
  <2> SUFFICES ASSUME NEW p \in Requests, NEW q \in Requests, p # q,
                      job'[p].creates, job'[q].creates
               PROVE  job'[p].key # job'[q].key /\ job'[p].poll # job'[q].poll
    BY DEF CreatorsApart
  <2>1. CASE p # r /\ q # r
    BY <1>1, <2>1 DEF IInv, CreatorsApart
  <2>2. CASE p = r
    BY <1>1, <2>2 DEF IInv, CreatorsApart
  <2>3. CASE q = r
    BY <1>1, <2>3 DEF IInv, CreatorsApart
  <2> QED
    BY <2>1, <2>2, <2>3
<1>6. ChainsLocked'
  <2> SUFFICES ASSUME NEW p \in Requests, NEW q \in Requests, NEW i \in Ids, p # q,
                      LocksChain(p, i)', LocksChain(q, i)'
               PROVE  FALSE
    BY DEF ChainsLocked
  <2>1. CASE p # r /\ q # r
    BY <1>1, <2>1 DEF IInv, ChainsLocked, LocksChain
  <2>2. CASE p = r
    BY <1>1, <2>2 DEF IInv, ChainsLocked, LocksChain
  <2>3. CASE q = r
    BY <1>1, <2>3 DEF IInv, ChainsLocked, LocksChain
  <2> QED
    BY <2>1, <2>2, <2>3
<1>7. SlugsApart' /\ OnePoll' /\ Unborn' /\ OneVoteEach' /\ Numbered' /\ ChainLinear'
  <2>1. polls' = polls /\ votes' = votes /\ chain' = chain /\ others' = others
    BY DEF tables
  <2>2. \A i : Links(i)' = Links(i)
    BY <2>1 DEF Links
  <2>3. ChainLinear'
    BY <2>1, <2>2 DEF IInv, ChainLinear
  <2> QED
    BY <2>1, <2>3 DEF IInv, SlugsApart, OnePoll, Unborn, OneVoteEach, Numbered
<1> QED
  BY <1>2, <1>4, <1>5, <1>6, <1>7 DEF IInv

LEMMA CastStartStep ==
  ASSUME IInv, NEW r \in Requests, NEW u \in Users, NEW e \in Entities, NEW c \in Positions,
         CastStart(r, u, e, c)
  PROVE  IInv'
<1> DEFINE j == [NoJob EXCEPT !.user = u, !.key = <<e, month>>, !.choice = c]
<1>1. /\ j \in Job /\ j.user = u /\ j.key = <<e, month>> /\ j.choice = c
      /\ ~j.creates /\ j.vote = None /\ <<e, month>> \in Keys
  BY NoJobFits DEF Job, IInv, TypeOK, Keys
<1>2. Goto(r, "insert_poll", j) /\ UNCHANGED <<month, tables, faults>>
  BY DEF CastStart, Start, Goto
<1> HIDE DEF j
<1>3. pc'[r] = "insert_poll" /\ job'[r] = j
  BY <1>1, <1>2, GotoSlot DEF IInv, Steps
<1>4. Fits(r)'
  BY <1>1, <1>3 DEF Fits, HasPoll
<1>5. month' \in Months /\ faults' \in 0 .. MaxFaults
  BY <1>2 DEF IInv, TypeOK
<1> QED
  BY <1>1, <1>2, <1>4, <1>5, Quiet DEF Steps

LEMMA InsertPollStep ==
  ASSUME IInv, NEW r \in Requests, InsertPoll(r)
  PROVE  IInv'
<1> DEFINE step == IF Committed(job[r].key) # {} THEN "find_poll" ELSE "insert_slug"
<1>0. /\ TypeOK /\ Fits(r) /\ job[r] \in Job /\ pc[r] = "insert_poll" /\ Goto(r, step, job[r])
      /\ UNCHANGED <<month, tables, faults>> /\ month' \in Months /\ faults' \in 0 .. MaxFaults
  BY DEF IInv, JobsFit, TypeOK, InsertPoll, At
<1>1. job[r].user \in Users /\ job[r].key \in Keys /\ ~job[r].creates /\ job[r].vote = None
  BY <1>0 DEF Fits, InTransaction
<1>2. step \in Steps \ {"chain", "commit"}
  BY DEF Steps, InTransaction
<1>3. pc'[r] = step /\ job'[r] = job[r]
  BY <1>0, <1>2, GotoSlot
<1>4. Fits(r)'
  BY <1>0, <1>1, <1>3 DEF Fits, HasPoll, tables, Committed
<1> HIDE DEF step
<1> QED
  BY <1>0, <1>1, <1>2, <1>4, Quiet

(* The poll enters the indexes: unique (entity, period) and polls.slug.     *)
LEMMA InsertSlugStep ==
  ASSUME IInv, NEW r \in Requests, InsertSlug(r)
  PROVE  IInv'
<1>0. /\ TypeOK /\ Fits(r) /\ job[r] \in Job /\ pc[r] = "insert_slug"
      /\ UNCHANGED <<month, tables, faults>> /\ month' \in Months /\ faults' \in 0 .. MaxFaults
  BY DEF IInv, JobsFit, TypeOK, InsertSlug, At
<1>1. job[r].user \in Users /\ job[r].key \in Keys /\ ~job[r].creates /\ job[r].vote = None
  BY <1>0 DEF Fits, InTransaction
<1>2. CASE SlugTaken(job[r].key)
  <2>1. Goto(r, "slug_taken", job[r])
    BY <1>2 DEF InsertSlug
  <2>2. pc'[r] = "slug_taken" /\ job'[r] = job[r]
    BY <1>0, <2>1, GotoSlot DEF Steps, InTransaction
  <2>3. Fits(r)'
    BY <1>0, <1>1, <1>2, <2>2 DEF Fits, HasPoll, tables, Committed, SlugTaken
  <2> QED
    BY <1>0, <1>1, <2>1, <2>3, Quiet DEF Steps, InTransaction
<1>3. CASE ~SlugTaken(job[r].key)
  <2>1. PICK i \in Ids :
          FreshId(i) /\ Goto(r, "find_poll", [job[r] EXCEPT !.poll = i, !.creates = TRUE])
    BY <1>3 DEF InsertSlug
  <2> DEFINE j == [job[r] EXCEPT !.poll = i, !.creates = TRUE]
  <2>2. /\ j \in Job /\ j.user = job[r].user /\ j.key = job[r].key /\ j.vote = None
        /\ j.creates /\ j.poll = i
    BY <1>0, <1>1 DEF Job
  <2>3. Goto(r, "find_poll", j)
    BY <2>1
  <2> HIDE DEF j
  <2>4. pc'[r] = "find_poll" /\ job'[r] = j
    BY <1>0, <2>2, <2>3, GotoSlot DEF Steps, InTransaction
  <2>5. polls[i] = None /\ \A q \in Requests : job[q].creates => job[q].poll # i
    BY <2>1 DEF FreshId
  <2>6. Fits(r)'
    BY <1>0, <1>1, <1>3, <2>2, <2>4, <2>5
       DEF Fits, HasPoll, InTransaction, tables, Committed, SlugTaken
  <2>7. \A q \in Requests \ {r} : job[q].creates => job[q].key # j.key /\ job[q].poll # j.poll
    <3>1. \A q \in Requests \ {r} : ~CreatesPoll(q, job[r].key)
      BY DEF InsertSlug
    <3>2. \A q \in Requests : job[q].creates => pc[q] \in InTransaction
      BY DEF IInv, JobsFit, Fits
    <3> QED
      BY <2>2, <2>5, <3>1, <3>2 DEF CreatesPoll
  <2> QED
    BY <1>0, <2>2, <2>3, <2>6, <2>7, Quiet DEF Steps, InTransaction
<1> QED
  BY <1>2, <1>3

LEMMA FindPollStep ==
  ASSUME IInv, NEW r \in Requests, FindPoll(r)
  PROVE  IInv'
<1>0. /\ TypeOK /\ Fits(r) /\ job[r] \in Job /\ pc[r] = "find_poll"
      /\ UNCHANGED <<month, tables, faults>> /\ month' \in Months /\ faults' \in 0 .. MaxFaults
  BY DEF IInv, JobsFit, TypeOK, FindPoll, At
<1>1. PICK i \in Committed(job[r].key) \union (IF job[r].creates THEN {job[r].poll} ELSE {}) :
        Goto(r, "add_options", [job[r] EXCEPT !.poll = i])
  BY DEF FindPoll
<1> DEFINE j == [job[r] EXCEPT !.poll = i]
<1>2. /\ i \in Ids /\ (job[r].creates \/ polls[i] = job[r].key)
      /\ (job[r].creates => i = job[r].poll)
  BY <1>0, <1>1 DEF Fits, Committed
<1>3. /\ j \in Job /\ j.user = job[r].user /\ j.key = job[r].key /\ j.vote = job[r].vote
      /\ j.creates = job[r].creates /\ j.poll = i
  BY <1>0, <1>2 DEF Job
<1>4. Goto(r, "add_options", j)
  BY <1>1
<1> HIDE DEF j
<1>5. pc'[r] = "add_options" /\ job'[r] = j
  BY <1>0, <1>3, <1>4, GotoSlot DEF Steps, InTransaction
<1>6. Fits(r)'
  BY <1>0, <1>2, <1>3, <1>5 DEF Fits, HasPoll, InTransaction, tables, Committed
<1> QED
  BY <1>0, <1>2, <1>3, <1>4, <1>6, Quiet DEF Steps, InTransaction

LEMMA AddOptionsStep ==
  ASSUME IInv, NEW r \in Requests, AddOptions(r)
  PROVE  IInv'
<1> DEFINE j == [job[r] EXCEPT !.adds = Positions \ options[job[r].poll]]
<1>0. /\ TypeOK /\ Fits(r) /\ job[r] \in Job /\ pc[r] = "add_options"
      /\ UNCHANGED <<month, tables, faults>> /\ month' \in Months /\ faults' \in 0 .. MaxFaults
  BY DEF IInv, JobsFit, TypeOK, AddOptions, At
<1>1. /\ j \in Job /\ j.user = job[r].user /\ j.key = job[r].key /\ j.vote = job[r].vote
      /\ j.creates = job[r].creates /\ j.poll = job[r].poll
      /\ j.adds = Positions \ options[job[r].poll]
  BY <1>0 DEF Job
<1>2. Goto(r, "find_option", j)
  BY DEF AddOptions
<1> HIDE DEF j
<1>3. pc'[r] = "find_option" /\ job'[r] = j
  BY <1>0, <1>1, <1>2, GotoSlot DEF Steps, InTransaction
<1>4. job[r].poll \in Ids /\ options[job[r].poll] \subseteq Positions
  BY <1>0 DEF Fits, HasPoll, TypeOK
<1>5. options[job[r].poll] \union j.adds = Positions
  BY <1>1, <1>4
<1>6. Fits(r)'
  BY <1>0, <1>1, <1>3, <1>5 DEF Fits, HasPoll, InTransaction, tables, Committed
<1> QED
  BY <1>0, <1>1, <1>2, <1>6, Quiet DEF Steps, InTransaction

(* Every position has an option by now: no cast fails for want of one.     *)
LEMMA FindOptionStep ==
  ASSUME IInv, NEW r \in Requests, FindOption(r)
  PROVE  IInv'
<1>0. /\ TypeOK /\ Fits(r) /\ job[r] \in Job /\ pc[r] = "find_option"
      /\ UNCHANGED <<month, tables, faults>> /\ month' \in Months /\ faults' \in 0 .. MaxFaults
  BY DEF IInv, JobsFit, TypeOK, FindOption, At
<1>1. job[r].choice \in options[job[r].poll] \union job[r].adds
  BY <1>0 DEF Fits, HasPoll, Job
<1>2. Goto(r, "lock_chain", job[r])
  BY <1>1 DEF FindOption
<1>3. pc'[r] = "lock_chain" /\ job'[r] = job[r]
  BY <1>0, <1>2, GotoSlot DEF Steps, InTransaction
<1>4. Fits(r)'
  BY <1>0, <1>3 DEF Fits, HasPoll, InTransaction, tables, Committed
<1> QED
  BY <1>0, <1>2, <1>4, Quiet DEF Steps, InTransaction

LEMMA LockChainStep ==
  ASSUME IInv, NEW r \in Requests, LockChain(r)
  PROVE  IInv'
<1>0. /\ TypeOK /\ Fits(r) /\ job[r] \in Job /\ pc[r] = "lock_chain"
      /\ UNCHANGED <<month, tables, faults>> /\ month' \in Months /\ faults' \in 0 .. MaxFaults
      /\ Goto(r, "chain", job[r]) /\ \A q \in Requests \ {r} : ~LocksChain(q, job[r].poll)
  BY DEF IInv, JobsFit, TypeOK, LockChain, At
<1>1. pc'[r] = "chain" /\ job'[r] = job[r]
  BY <1>0, GotoSlot DEF Steps, InTransaction
<1>2. Fits(r)'
  BY <1>0, <1>1 DEF Fits, HasPoll, InTransaction, tables, Committed
<1> QED
  BY <1>0, <1>2, Quiet DEF Steps, InTransaction

LEMMA NextVoteType ==
  ASSUME TypeOK, NEW r \in Requests, job[r].user \in Users, job[r].poll \in Ids
  PROVE  /\ NextVote(r) \in Vote /\ NextVote(r).user = job[r].user
         /\ NextVote(r).option = job[r].choice
         /\ NextVote(r).seq = chain[job[r].poll].seq + 1
         /\ NextVote(r).index = chain[job[r].poll].next
         /\ NextVote(r).hash = Append(chain[job[r].poll].hash,
              [seq |-> chain[job[r].poll].seq + 1, option |-> job[r].choice,
               index |-> chain[job[r].poll].next])
<1> DEFINE h == chain[job[r].poll]
           link == [seq |-> h.seq + 1, option |-> job[r].choice, index |-> h.next]
<1>1. h \in HeadRow /\ job[r].choice \in Positions
  BY DEF TypeOK, Job
<1>2. h.seq \in Nat /\ h.next \in Nat /\ h.hash \in Seq(Link)
  BY <1>1 DEF HeadRow
<1>3. link \in Link
  BY <1>1, <1>2 DEF Link
<1>4. Append(h.hash, link) \in Seq(Link)
  BY <1>2, <1>3
<1>5. NextVote(r) = [user |-> job[r].user, option |-> job[r].choice, seq |-> h.seq + 1,
                     index |-> h.next, hash |-> Append(h.hash, link)]
  BY DEF NextVote
<1>6. h.seq + 1 \in Nat /\ h.next \in Nat
  BY <1>2
<1> HIDE DEF h, link
<1>7. NextVote(r) \in Vote
  BY <1>1, <1>4, <1>5, <1>6 DEF Vote
<1>8. /\ NextVote(r).user = job[r].user /\ NextVote(r).option = job[r].choice
      /\ NextVote(r).seq = h.seq + 1 /\ NextVote(r).index = h.next
      /\ NextVote(r).hash = Append(h.hash, link)
  BY <1>5
<1> QED
  BY <1>7, <1>8 DEF h, link

LEMMA ChainStep ==
  ASSUME IInv, NEW r \in Requests, Chain(r)
  PROVE  IInv'
<1> DEFINE v == IF HasVoted(job[r].user, job[r].poll) THEN None ELSE NextVote(r)
           j == [job[r] EXCEPT !.vote = v]
<1>0. /\ TypeOK /\ Fits(r) /\ job[r] \in Job /\ pc[r] = "chain"
      /\ UNCHANGED <<month, tables, faults>> /\ month' \in Months /\ faults' \in 0 .. MaxFaults
      /\ job[r].user \in Users /\ job[r].poll \in Ids /\ job[r].vote = None
  BY DEF IInv, JobsFit, TypeOK, Chain, At, Fits, HasPoll
<1>1. v \in Vote \union {None}
  BY <1>0, NextVoteType
<1>2. Goto(r, "commit", j)
  <2>1. HasVoted(job[r].user, job[r].poll) => j = job[r]
    BY <1>0 DEF Job
  <2> QED
    BY <2>1 DEF Chain
<1> HIDE DEF v
<1>3. /\ j \in Job /\ j.user = job[r].user /\ j.key = job[r].key /\ j.vote = v
      /\ j.creates = job[r].creates /\ j.poll = job[r].poll /\ j.choice = job[r].choice
      /\ j.adds = job[r].adds
  BY <1>0, <1>1 DEF Job
<1> HIDE DEF j
<1>4. pc'[r] = "commit" /\ job'[r] = j
  BY <1>0, <1>2, <1>3, GotoSlot DEF Steps, InTransaction
<1>5. NextVote(r)' = NextVote(r)
  <2>1. /\ job'[r].poll = job[r].poll /\ job'[r].user = job[r].user /\ job'[r].choice = job[r].choice
        /\ chain' = chain
    BY <1>0, <1>3, <1>4 DEF tables
  <2> QED
    BY <2>1 DEF NextVote
<1>6. job'[r].vote = IF HasVoted(job[r].user, job[r].poll)' THEN None ELSE NextVote(r)'
  <2>1. /\ job'[r].user = job[r].user /\ job'[r].poll = job[r].poll /\ votes' = votes
        /\ job'[r].vote = v
    BY <1>0, <1>3, <1>4 DEF tables
  <2>2. HasVoted(job[r].user, job[r].poll)' = HasVoted(job[r].user, job[r].poll)
    BY <2>1 DEF HasVoted
  <2> QED
    BY <1>5, <2>1, <2>2 DEF v
<1>7. Fits(r)'
  BY <1>0, <1>3, <1>4, <1>6 DEF Fits, HasPoll, InTransaction, tables, Committed
<1> QED
  BY <1>0, <1>2, <1>3, <1>7, Quiet DEF Steps, InTransaction

------------------------------------------------------------------------------
(* Chains that grow.                                                       *)

LinksOf(s) == [n \in DOMAIN s |-> [seq |-> n, option |-> s[n].option, index |-> s[n].index]]

LEMMA LinksOfType ==
  ASSUME NEW s \in Seq(Vote)
  PROVE  /\ LinksOf(s) \in Seq(Link) /\ Len(LinksOf(s)) = Len(s)
         /\ \A n \in 1 .. Len(s) :
              LinksOf(s)[n] = [seq |-> n, option |-> s[n].option, index |-> s[n].index]
<1> DEFINE n == Len(s)
<1>1. n \in Nat /\ DOMAIN s = 1 .. n /\ \A k \in 1 .. n : s[k] \in Vote
  OBVIOUS
<1>2. \A k \in 1 .. n : [seq |-> k, option |-> s[k].option, index |-> s[k].index] \in Link
  BY <1>1 DEF Vote, Link
<1>3. LinksOf(s) = [k \in 1 .. n |-> [seq |-> k, option |-> s[k].option, index |-> s[k].index]]
  BY <1>1 DEF LinksOf
<1> HIDE DEF n
<1>4. LinksOf(s) \in [1 .. n -> Link]
  BY <1>2, <1>3
<1>5. LinksOf(s) \in Seq(Link) /\ Len(LinksOf(s)) = n
  BY <1>1, <1>4, <1>3
<1> QED
  BY <1>3, <1>5 DEF n

LEMMA LinksOfAppend ==
  ASSUME NEW s \in Seq(Vote), NEW v \in Vote
  PROVE  /\ LinksOf(Append(s, v)) =
              Append(LinksOf(s), [seq |-> Len(s) + 1, option |-> v.option, index |-> v.index])
         /\ \A n \in 1 .. Len(s) : SubSeq(LinksOf(Append(s, v)), 1, n) = SubSeq(LinksOf(s), 1, n)
<1> DEFINE t == Append(s, v)
           e == [seq |-> Len(s) + 1, option |-> v.option, index |-> v.index]
           a == LinksOf(t)
           b == Append(LinksOf(s), e)
<1>1. Len(s) \in Nat /\ e \in Link
  BY DEF Vote, Link
<1>2. /\ t \in Seq(Vote) /\ Len(t) = Len(s) + 1 /\ t[Len(s) + 1] = v
      /\ \A n \in 1 .. Len(s) : t[n] = s[n]
  BY AppendProperties
<1>3. /\ LinksOf(s) \in Seq(Link) /\ Len(LinksOf(s)) = Len(s)
      /\ \A n \in 1 .. Len(s) :
           LinksOf(s)[n] = [seq |-> n, option |-> s[n].option, index |-> s[n].index]
  BY LinksOfType
<1> HIDE DEF t
<1>4. /\ a \in Seq(Link) /\ Len(a) = Len(s) + 1
      /\ \A n \in 1 .. Len(s) + 1 : a[n] = [seq |-> n, option |-> t[n].option, index |-> t[n].index]
  BY <1>2, LinksOfType
<1>5. /\ b \in Seq(Link) /\ Len(b) = Len(s) + 1 /\ b[Len(s) + 1] = e
      /\ \A n \in 1 .. Len(s) : b[n] = LinksOf(s)[n]
  <2> HIDE DEF e
  <2> QED
    BY <1>1, <1>3, AppendProperties
<1>6. \A n \in 1 .. Len(s) : a[n] = LinksOf(s)[n]
  BY <1>1, <1>2, <1>3, <1>4, SMTT(30)
<1>7. a[Len(s) + 1] = e
  BY <1>1, <1>2, <1>4
<1> HIDE DEF a, b, e
<1>8. a = b
  <2>1. \A n \in 1 .. Len(s) + 1 : a[n] = b[n]
    BY <1>1, <1>5, <1>6, <1>7
  <2> QED
    BY <1>4, <1>5, <2>1, SeqEqual
<1>9. ASSUME NEW n \in 1 .. Len(s) PROVE SubSeq(a, 1, n) = SubSeq(LinksOf(s), 1, n)
  <2>1. SubSeq(a, 1, n) = Restrict(a, 1 .. n)
    BY <1>1, <1>4, SubSeqRestrict
  <2>2. SubSeq(LinksOf(s), 1, n) = Restrict(LinksOf(s), 1 .. n)
    BY <1>1, <1>3, SubSeqRestrict
  <2>3. \A k \in 1 .. n : a[k] = LinksOf(s)[k]
    BY <1>1, <1>6
  <2> QED
    BY <2>1, <2>2, <2>3 DEF Restrict
<1> QED
  BY <1>8, <1>9 DEF a, b, e, t

(* What a commit writes: nothing to the chain for a repeat, and otherwise  *)
(* the next row of it.                                                     *)
LEMMA CommitDoes ==
  ASSUME IInv, NEW r \in Requests, Commit(r), NEW i, i = job[r].poll, NEW v, v = NextVote(r)
  PROVE  /\ pc[r] = "commit" /\ i \in Ids /\ job[r].user \in Users /\ job[r].key \in Keys
         /\ polls[i] = job[r].key \/ (polls[i] = None /\ job[r].creates /\ Committed(job[r].key) = {})
         /\ polls' = [polls EXCEPT ![i] = job[r].key]
         /\ options' = [options EXCEPT ![i] = options[i] \union job[r].adds]
         /\ Goto(r, "tally", Written(job[r])) /\ UNCHANGED <<month, others, faults>>
         /\ v \in Vote /\ v.user = job[r].user /\ v.option = job[r].choice
         /\ IF HasVoted(job[r].user, i)
            THEN polls[i] = job[r].key /\ UNCHANGED <<votes, chain>>
            ELSE /\ v.seq = Len(votes[i]) + 1 /\ v.index = Len(votes[i]) + 1
                 /\ v.hash = LinksOf(Append(votes[i], v))
                 /\ votes' = [votes EXCEPT ![i] = Append(votes[i], v)]
                 /\ chain' = [chain EXCEPT ![i] = [seq |-> v.seq, hash |-> v.hash,
                                                   next |-> v.index + 1]]
<1> DEFINE j == job[r]
<1>1. TypeOK /\ Fits(r) /\ j \in Job /\ pc[r] = "commit"
  BY DEF IInv, JobsFit, TypeOK, Commit, At
<1>2. /\ i \in Ids /\ j.user \in Users /\ j.key \in Keys
      /\ j.vote = IF HasVoted(j.user, i) THEN None ELSE v
      /\ polls[i] = j.key \/ (polls[i] = None /\ j.creates /\ Committed(j.key) = {})
  BY <1>1 DEF Fits, HasPoll
<1>3. /\ votes[i] \in Seq(Vote) /\ Len(votes[i]) \in Nat /\ DOMAIN votes[i] = 1 .. Len(votes[i])
      /\ chain[i].seq = Len(votes[i]) /\ chain[i].next = Len(votes[i]) + 1
      /\ chain[i].hash = LinksOf(votes[i])
      /\ \A n \in 1 .. Len(votes[i]) : votes[i][n].seq = n
  <2>1. votes[i] \in Seq(Vote) /\ Links(i) = LinksOf(votes[i])
    BY <1>1, <1>2 DEF TypeOK, Links, LinksOf
  <2>2. /\ chain[i].seq = Len(votes[i]) /\ chain[i].hash = Links(i)
        /\ \A n \in DOMAIN votes[i] : votes[i][n].seq = n
    BY <1>2 DEF IInv, ChainLinear
  <2>3. chain[i].next = Len(votes[i]) + 1
    BY <1>2 DEF IInv, Numbered
  <2> QED
    BY <2>1, <2>2, <2>3
<1>4. /\ v \in Vote /\ v.user = j.user /\ v.option = j.choice
      /\ v.seq = Len(votes[i]) + 1 /\ v.index = Len(votes[i]) + 1
      /\ v.hash = Append(LinksOf(votes[i]),
                    [seq |-> Len(votes[i]) + 1, option |-> v.option, index |-> v.index])
  BY <1>1, <1>2, <1>3, NextVoteType
<1>5. v.hash = LinksOf(Append(votes[i], v))
  BY <1>3, <1>4, LinksOfAppend
<1>6. ~SeqTaken(i, v.seq) /\ v # None
  BY <1>3, <1>4, ApprovalsAssumption DEF SeqTaken
<1>7. HasVoted(j.user, i) => polls[i] = j.key
  BY <1>2 DEF HasVoted, IInv, Unborn
<1>8. /\ polls' = [polls EXCEPT ![i] = j.key]
      /\ options' = [options EXCEPT ![i] = options[i] \union j.adds]
      /\ Goto(r, "tally", Written(j)) /\ UNCHANGED <<month, others, faults>>
      /\ IF j.vote = None
         THEN UNCHANGED <<votes, chain>>
         ELSE /\ votes' = [votes EXCEPT ![i] = Append(votes[i], j.vote)]
              /\ chain' = [chain EXCEPT ![i] = [seq |-> j.vote.seq, hash |-> j.vote.hash,
                                                next |-> j.vote.index + 1]]
  BY <1>2, <1>6 DEF Commit
<1> QED
  BY <1>1, <1>2, <1>4, <1>5, <1>6, <1>7, <1>8

(* What an account has said of an entity in a month stands, and a commit   *)
(* adds to what one account said that had said nothing.                    *)
LEMMA CommitSays ==
  ASSUME IInv, NEW r \in Requests, Commit(r), NEW u \in Users, NEW k \in Keys
  PROVE  IF u = job[r].user /\ k = job[r].key /\ ~HasVoted(job[r].user, job[r].poll)
         THEN Said(u, k) = {} /\ Said(u, k)' = {job[r].choice}
         ELSE Said(u, k)' = Said(u, k)
<1>0. PICK i : i = job[r].poll
  OBVIOUS
<1>00. PICK v : v = NextVote(r)
  OBVIOUS
<1>1. /\ i \in Ids /\ job[r].user \in Users /\ job[r].key \in Keys
      /\ polls[i] = job[r].key \/ (polls[i] = None /\ job[r].creates /\ Committed(job[r].key) = {})
      /\ polls' = [polls EXCEPT ![i] = job[r].key]
      /\ v.user = job[r].user /\ v.option = job[r].choice /\ v \in Vote
      /\ IF HasVoted(job[r].user, i)
         THEN polls[i] = job[r].key /\ UNCHANGED <<votes, chain>>
         ELSE votes' = [votes EXCEPT ![i] = Append(votes[i], v)]
  BY <1>0, <1>00, CommitDoes, SMTT(30)
<1>2. TypeOK /\ job[r].choice \in Positions /\ None \notin Keys
  BY ApprovalsAssumption DEF IInv, TypeOK, Job
<1>3. CASE HasVoted(job[r].user, i)
  <2>1. polls' = polls /\ votes' = votes
    BY <1>1, <1>2, <1>3 DEF TypeOK
  <2>2. Said(u, k)' = Said(u, k)
    BY <2>1 DEF Said, Committed
  <2> QED
    BY <1>0, <1>3, <2>2
<1>4. CASE ~HasVoted(job[r].user, i)
  <2> DEFINE L == Len(votes[i])
  <2>1. /\ L \in Nat /\ DOMAIN votes[i] = 1 .. L /\ DOMAIN votes'[i] = 1 .. L + 1
        /\ \A n \in 1 .. L : votes'[i][n] = votes[i][n]
        /\ votes'[i][L + 1] = v
    <3>1. votes[i] \in Seq(Vote) /\ votes'[i] = Append(votes[i], v)
      BY <1>1, <1>2, <1>4 DEF TypeOK
    <3> QED
      BY <1>1, <3>1, AppendProperties
  <2> HIDE DEF L
  <2>2. /\ \A x \in Ids : x # i => polls'[x] = polls[x] /\ votes'[x] = votes[x]
        /\ polls'[i] = job[r].key
    BY <1>1, <1>2, <1>4 DEF TypeOK
  <2>3. CASE k # job[r].key
    <3>1. Committed(k)' = Committed(k) /\ i \notin Committed(k)
      BY <1>1, <1>2, <2>2, <2>3 DEF Committed
    <3>2. \A x \in Committed(k) : votes'[x] = votes[x]
      BY <2>2, <3>1 DEF Committed
    <3>3. Said(u, k)' = Said(u, k)
      BY <3>1, <3>2 DEF Said
    <3> QED
      BY <2>3, <3>3
  <2>4. CASE k = job[r].key
    <3>1. Committed(k)' = {i}
      BY <1>1, <1>2, <2>2, <2>4 DEF Committed, IInv, OnePoll
    <3>2. Committed(k) = {i} \/ (Committed(k) = {} /\ L = 0)
      <4>1. CASE polls[i] = k
        BY <1>1, <1>2, <2>4, <4>1 DEF Committed, IInv, OnePoll
      <4>2. CASE polls[i] # k
        BY <1>1, <2>4, <4>2 DEF IInv, Unborn, L
      <4> QED
        BY <4>1, <4>2
    <3>3. Said(u, k)' = {c \in Positions : \E n \in 1 .. L + 1 :
                           votes'[i][n].user = u /\ votes'[i][n].option = c}
      BY <2>1, <3>1 DEF Said
    <3>4. Said(u, k) = {c \in Positions : \E n \in 1 .. L :
                          votes[i][n].user = u /\ votes[i][n].option = c}
      BY <2>1, <3>2 DEF Said
    <3>5. \A n \in 1 .. L + 1 : n \in 1 .. L \/ n = L + 1
      BY <2>1
    <3>6. \A n \in 1 .. L : n \in 1 .. L + 1
      BY <2>1
    <3>7. \A n \in 1 .. L : votes[i][n].user # job[r].user
      BY <1>4, <2>1 DEF HasVoted
    <3>8. L + 1 \in 1 .. L + 1
      BY <2>1
    <3>9. CASE u = job[r].user
      <4>1. Said(u, k) = {}
        BY <3>4, <3>7, <3>9
      <4>2. Said(u, k)' = {job[r].choice}
        BY <1>1, <1>2, <2>1, <3>3, <3>5, <3>6, <3>7, <3>8, <3>9
      <4> QED
        BY <1>0, <1>4, <2>4, <3>9, <4>1, <4>2
    <3>10. CASE u # job[r].user
      <4>1. \A c \in Positions :
              (\E n \in 1 .. L + 1 : votes'[i][n].user = u /\ votes'[i][n].option = c)
                <=> \E n \in 1 .. L : votes[i][n].user = u /\ votes[i][n].option = c
        BY <1>1, <2>1, <3>5, <3>6, <3>10
      <4>2. Said(u, k)' = Said(u, k)
        BY <3>3, <3>4, <4>1
      <4> QED
        BY <3>10, <4>2
    <3> QED
      BY <3>9, <3>10
  <2> QED
    BY <2>3, <2>4
<1> QED
  BY <1>3, <1>4

LEMMA CommitOthers ==
  ASSUME IInv, NEW r \in Requests, Commit(r), NEW q \in Requests, q # r
  PROVE  Fits(q)'
<1>0. PICK i : i = job[r].poll
  OBVIOUS
<1>1. /\ pc[r] = "commit" /\ i \in Ids /\ job[r].user \in Users /\ job[r].key \in Keys
      /\ polls[i] = job[r].key \/ (polls[i] = None /\ job[r].creates /\ Committed(job[r].key) = {})
      /\ polls' = [polls EXCEPT ![i] = job[r].key]
      /\ options' = [options EXCEPT ![i] = options[i] \union job[r].adds]
      /\ Goto(r, "tally", Written(job[r])) /\ others' = others
  BY <1>0, CommitDoes
<1>t. \A x \in Ids : x # i => votes'[x] = votes[x] /\ chain'[x] = chain[x]
  <2>1. PICK v : v = NextVote(r)
    OBVIOUS
  <2>2. IF HasVoted(job[r].user, i)
        THEN UNCHANGED <<votes, chain>>
        ELSE /\ votes' = [votes EXCEPT ![i] = Append(votes[i], v)]
             /\ chain' = [chain EXCEPT ![i] = [seq |-> v.seq, hash |-> v.hash, next |-> v.index + 1]]
    BY <1>0, <2>1, CommitDoes
  <2> QED
    BY <1>1, <2>2 DEF IInv, TypeOK
<1>2. Fits(q) /\ TypeOK /\ job[q] \in Job /\ job[r] \in Job /\ None \notin Keys
  BY ApprovalsAssumption DEF IInv, JobsFit, TypeOK
<1>3. pc'[q] = pc[q] /\ job'[q] = job[q]
  BY <1>1, <1>2 DEF Goto, TypeOK
<1>4. \A x \in Ids : /\ x # i => polls'[x] = polls[x]
                     /\ polls[x] # None => polls'[x] = polls[x]
  BY <1>1, <1>2 DEF TypeOK
<1>5. /\ pc[q] # "failed"
      /\ pc[q] # "idle" => job[q].user \in Users /\ job[q].key \in Keys
      /\ pc[q] # "commit" => job[q].vote = None
      /\ pc[q] = "answer" => job[q].mine # None /\ job[q].tally[job[q].mine] > 0
  BY <1>2 DEF Fits
<1>6. job[q].creates =>
        /\ pc[q] \in InTransaction /\ job[q].poll \in Ids /\ job[q].key \notin others'
        /\ polls'[job[q].poll] = None /\ {x \in Ids : polls'[x] = job[q].key} = {}
  <2> SUFFICES ASSUME job[q].creates
               PROVE  /\ pc[q] \in InTransaction /\ job[q].poll \in Ids /\ job[q].key \notin others'
                      /\ polls'[job[q].poll] = None /\ {x \in Ids : polls'[x] = job[q].key} = {}
    OBVIOUS
  <2>1. /\ pc[q] \in InTransaction /\ job[q].poll \in Ids /\ polls[job[q].poll] = None
        /\ \A x \in Ids : polls[x] # job[q].key
        /\ job[q].key \notin others'
    BY <1>1, <1>2 DEF Fits, Committed
  <2>2. job[q].poll # i /\ job[q].key # job[r].key
    <3>1. CASE polls[i] = job[r].key
      BY <1>1, <1>2, <2>1, <3>1
    <3>2. CASE job[r].creates
      BY <1>0, <3>2 DEF IInv, CreatorsApart
    <3> QED
      BY <1>1, <3>1, <3>2
  <2>3. \A x \in Ids : polls'[x] # job[q].key
    BY <1>1, <1>2, <1>4, <2>1, <2>2 DEF TypeOK
  <2> QED
    BY <1>4, <2>1, <2>2, <2>3
<1>7. pc[q] = "find_poll" => job[q].creates \/ {x \in Ids : polls'[x] = job[q].key} # {}
  BY <1>2, <1>4, <1>5 DEF Fits, Committed
<1>8. pc[q] \in HasPoll => job[q].poll \in Ids /\ (job[q].creates \/ polls'[job[q].poll] = job[q].key)
  BY <1>2, <1>4, <1>5 DEF Fits, HasPoll
<1>9. pc[q] \in HasPoll \ {"add_options"} => options'[job[q].poll] \union job[q].adds = Positions
  <2> SUFFICES ASSUME pc[q] \in HasPoll \ {"add_options"}
               PROVE  options'[job[q].poll] \union job[q].adds = Positions
    OBVIOUS
  <2>1. job[q].poll \in Ids /\ options[job[q].poll] \union job[q].adds = Positions
    BY <1>2 DEF Fits, HasPoll
  <2>2. job[r].adds \subseteq Positions
    BY <1>2 DEF Job
  <2>3. /\ options[job[q].poll] \subseteq options'[job[q].poll]
        /\ options'[job[q].poll] \subseteq Positions
    BY <1>1, <1>2, <2>1, <2>2 DEF TypeOK
  <2> QED
    BY <2>1, <2>3
<1>10. pc[q] = "commit" =>
         job'[q].vote = IF HasVoted(job[q].user, job[q].poll)' THEN None ELSE NextVote(q)'
  <2> SUFFICES ASSUME pc[q] = "commit"
               PROVE  job'[q].vote = IF HasVoted(job[q].user, job[q].poll)' THEN None ELSE NextVote(q)'
    OBVIOUS
  <2>1. job[q].poll \in Ids
    BY <1>2 DEF Fits, HasPoll
  <2>2. job[q].poll # i
    BY <1>0, <1>1, <2>1 DEF IInv, ChainsLocked, LocksChain
  <2>3. votes'[job[q].poll] = votes[job[q].poll] /\ chain'[job[q].poll] = chain[job[q].poll]
    BY <1>t, <2>1, <2>2
  <2>4. NextVote(q)' = NextVote(q)
    BY <1>3, <2>3 DEF NextVote
  <2>5. HasVoted(job[q].user, job[q].poll)' = HasVoted(job[q].user, job[q].poll)
    BY <1>3, <2>3 DEF HasVoted
  <2>6. job[q].vote = IF HasVoted(job[q].user, job[q].poll) THEN None ELSE NextVote(q)
    BY <1>2 DEF Fits
  <2> QED
    BY <1>3, <2>4, <2>5, <2>6
<1>11. /\ pc[q] \in {"tally", "my_choice", "answer"} => Said(job[q].user, job[q].key)' # {}
       /\ pc[q] = "my_choice" => \A c \in Said(job[q].user, job[q].key)' : job[q].tally[c] > 0
  <2> SUFFICES ASSUME pc[q] \in {"tally", "my_choice", "answer"}
               PROVE  /\ Said(job[q].user, job[q].key)' # {}
                      /\ pc[q] = "my_choice" => \A c \in Said(job[q].user, job[q].key)' : job[q].tally[c] > 0
    OBVIOUS
  <2>1. PICK u \in Users, k \in Keys : u = job[q].user /\ k = job[q].key
    BY <1>5
  <2>2. Said(u, k) # {} /\ (pc[q] = "my_choice" => \A c \in Said(u, k) : job[q].tally[c] > 0)
    BY <1>2, <2>1 DEF Fits
  <2>3. Said(u, k)' = Said(u, k)
    BY <2>2, CommitSays
  <2>4. Said(job[q].user, job[q].key)' = Said(u, k)'
    BY <1>3, <2>1 DEF Said
  <2> QED
    BY <2>2, <2>3, <2>4
<1>12. pc[q] = "slug_taken" => {x \in Ids : polls'[x] = job[q].key} # {} \/ job[q].key \in others'
  <2> SUFFICES ASSUME pc[q] = "slug_taken"
               PROVE  {x \in Ids : polls'[x] = job[q].key} # {} \/ job[q].key \in others'
    OBVIOUS
  <2>1. Committed(job[q].key) # {} \/ job[q].key \in others
    BY <1>2 DEF Fits, SlugTaken
  <2>2. job[q].key \in Keys
    BY <1>5
  <2> QED
    BY <1>1, <1>2, <1>4, <2>1, <2>2 DEF Committed
<1> QED
  BY <1>3, <1>5, <1>6, <1>7, <1>8, <1>9, <1>10, <1>11, <1>12 DEF Fits, Committed, SlugTaken

LEMMA CommitStep ==
  ASSUME IInv, NEW r \in Requests, Commit(r)
  PROVE  IInv'
<1>0. PICK i : i = job[r].poll
  OBVIOUS
<1>00. PICK v : v = NextVote(r)
  OBVIOUS
<1>1. /\ pc[r] = "commit" /\ i \in Ids /\ job[r].user \in Users /\ job[r].key \in Keys
      /\ polls[i] = job[r].key \/ (polls[i] = None /\ job[r].creates /\ Committed(job[r].key) = {})
      /\ polls' = [polls EXCEPT ![i] = job[r].key]
      /\ options' = [options EXCEPT ![i] = options[i] \union job[r].adds]
      /\ Goto(r, "tally", Written(job[r])) /\ UNCHANGED <<month, others, faults>>
      /\ v \in Vote /\ v.user = job[r].user /\ v.option = job[r].choice
      /\ IF HasVoted(job[r].user, i)
         THEN polls[i] = job[r].key /\ UNCHANGED <<votes, chain>>
         ELSE /\ v.seq = Len(votes[i]) + 1 /\ v.index = Len(votes[i]) + 1
              /\ v.hash = LinksOf(Append(votes[i], v))
              /\ votes' = [votes EXCEPT ![i] = Append(votes[i], v)]
              /\ chain' = [chain EXCEPT ![i] = [seq |-> v.seq, hash |-> v.hash, next |-> v.index + 1]]
  <2>1. /\ pc[r] = "commit" /\ i \in Ids /\ job[r].user \in Users /\ job[r].key \in Keys
        /\ polls[i] = job[r].key \/ (polls[i] = None /\ job[r].creates /\ Committed(job[r].key) = {})
        /\ polls' = [polls EXCEPT ![i] = job[r].key]
        /\ options' = [options EXCEPT ![i] = options[i] \union job[r].adds]
    BY <1>0, CommitDoes
  <2>2. /\ Goto(r, "tally", Written(job[r])) /\ UNCHANGED <<month, others, faults>>
        /\ v \in Vote /\ v.user = job[r].user /\ v.option = job[r].choice
    BY <1>0, <1>00, CommitDoes
  <2>3. CASE HasVoted(job[r].user, i)
    BY <1>0, <1>00, <2>1, <2>2, <2>3, CommitDoes
  <2>4. CASE ~HasVoted(job[r].user, i)
    <3>1. /\ v.seq = Len(votes[i]) + 1 /\ v.index = Len(votes[i]) + 1
          /\ v.hash = LinksOf(Append(votes[i], v))
          /\ votes' = [votes EXCEPT ![i] = Append(votes[i], v)]
      BY <1>0, <1>00, <2>4, CommitDoes
    <3>2. chain' = [chain EXCEPT ![i] = [seq |-> v.seq, hash |-> v.hash, next |-> v.index + 1]]
      BY <1>0, <1>00, <2>4, CommitDoes
    <3> QED
      BY <2>1, <2>2, <2>4, <3>1, <3>2
  <2> QED
    BY <2>3, <2>4
<1>2. TypeOK /\ job[r] \in Job /\ job[r].choice \in Positions /\ job[r].adds \subseteq Positions
      /\ None \notin Keys
  BY ApprovalsAssumption DEF IInv, TypeOK, Job
<1> DEFINE w == Written(job[r])
<1>3. w \in Job /\ w.user = job[r].user /\ w.key = job[r].key /\ ~w.creates /\ w.vote = None
  BY <1>2 DEF Written, Job
<1> HIDE DEF w
<1>4. /\ pc' \in [Requests -> Steps] /\ job' \in [Requests -> Job]
      /\ pc'[r] = "tally" /\ job'[r] = w
      /\ \A q \in Requests : q # r => pc'[q] = pc[q] /\ job'[q] = job[q]
  BY <1>1, <1>2, <1>3, GotoSlot DEF Steps, w
<1>5. /\ polls' \in [Ids -> Keys \union {None}] /\ options' \in [Ids -> SUBSET Positions]
      /\ polls'[i] = job[r].key /\ \A x \in Ids : x # i => polls'[x] = polls[x]
  BY <1>1, <1>2 DEF TypeOK
(* The rows of the poll, before and after.                                 *)
<1>6. /\ votes' \in [Ids -> Seq(Vote)] /\ chain' \in [Ids -> HeadRow]
      /\ \A x \in Ids : x # i => votes'[x] = votes[x] /\ chain'[x] = chain[x]
      /\ HasVoted(job[r].user, i) => votes'[i] = votes[i] /\ chain'[i] = chain[i]
      /\ ~HasVoted(job[r].user, i) =>
           votes'[i] = Append(votes[i], v)
             /\ chain'[i] = [seq |-> v.seq, hash |-> v.hash, next |-> v.index + 1]
  <2>1. CASE HasVoted(job[r].user, i)
    BY <1>1, <1>2, <2>1 DEF TypeOK
  <2>2. CASE ~HasVoted(job[r].user, i)
    <3> DEFINE row == [seq |-> v.seq, hash |-> v.hash, next |-> v.index + 1]
    <3>1. row \in HeadRow
      BY <1>1 DEF Vote, HeadRow
    <3>2. Append(votes[i], v) \in Seq(Vote)
      BY <1>1, <1>2 DEF TypeOK
    <3>3. votes' = [votes EXCEPT ![i] = Append(votes[i], v)] /\ chain' = [chain EXCEPT ![i] = row]
      BY <1>1, <2>2
    <3> HIDE DEF row
    <3>4. /\ votes' \in [Ids -> Seq(Vote)] /\ chain' \in [Ids -> HeadRow]
          /\ \A x \in Ids : x # i => votes'[x] = votes[x] /\ chain'[x] = chain[x]
          /\ votes'[i] = Append(votes[i], v) /\ chain'[i] = row
      BY <1>1, <1>2, <3>1, <3>2, <3>3 DEF TypeOK
    <3> QED
      BY <2>2, <3>4 DEF row
  <2> QED
    BY <2>1, <2>2
<1>7. TypeOK'
  BY <1>1, <1>2, <1>4, <1>5, <1>6 DEF TypeOK
<1>8. Fits(r)'
  <2>1. Said(job[r].user, job[r].key)' # {}
    <3>1. PICK u \in Users, k \in Keys : u = job[r].user /\ k = job[r].key
      BY <1>1
    <3>2. Said(u, k)' # {}
      <4>1. CASE HasVoted(u, i)
        <5>1. Said(u, k)' = Said(u, k)
          BY <1>0, <3>1, <4>1, CommitSays
        <5>2. PICK n \in DOMAIN votes[i] : votes[i][n].user = u
          BY <4>1 DEF HasVoted
        <5>3. votes[i][n].option \in Positions
          <6>1. votes[i] \in Seq(Vote)
            BY <1>1, <1>2 DEF TypeOK
          <6>2. votes[i][n] \in Vote
            BY <6>1
          <6> QED
            BY <6>2 DEF Vote
        <5>4. i \in Committed(k)
          BY <1>1, <3>1, <4>1 DEF Committed
        <5> QED
          BY <5>1, <5>2, <5>3, <5>4 DEF Said
      <4>2. CASE ~HasVoted(u, i)
        BY <1>0, <3>1, <4>2, CommitSays
      <4> QED
        BY <4>1, <4>2
    <3>3. Said(job[r].user, job[r].key)' = Said(u, k)'
      BY <1>3, <1>4, <3>1 DEF Said
    <3> QED
      BY <3>2, <3>3
  <2> QED
    BY <1>1, <1>3, <1>4, <2>1 DEF Fits, HasPoll
<1>9. JobsFit'
  BY <1>8, CommitOthers DEF JobsFit
<1>10. CreatorsApart' /\ ChainsLocked'
  <2>1. CreatorsApart'
    BY <1>3, <1>4 DEF IInv, CreatorsApart
  <2>2. ChainsLocked'
    <3> SUFFICES ASSUME NEW p \in Requests, NEW q \in Requests, NEW x \in Ids, p # q,
                        LocksChain(p, x)', LocksChain(q, x)'
                 PROVE  FALSE
      BY DEF ChainsLocked
    <3>1. p # r /\ q # r
      BY <1>4 DEF LocksChain
    <3> QED
      BY <1>4, <3>1 DEF IInv, ChainsLocked, LocksChain
  <2> QED
    BY <2>1, <2>2
<1>11. OnePoll'
  <2> SUFFICES ASSUME NEW x \in Ids, NEW y \in Ids, polls'[x] = polls'[y], polls'[x] # None, x # y
               PROVE  FALSE
    BY DEF OnePoll
  <2>1. CASE polls[i] = job[r].key
    BY <1>1, <1>2, <1>5, <2>1 DEF IInv, OnePoll
  <2>2. CASE Committed(job[r].key) = {}
    BY <1>5, <2>2 DEF IInv, OnePoll, Committed
  <2> QED
    BY <1>1, <2>1, <2>2
<1>14. SlugsApart'
  <2>1. job[r].key \notin others
    BY <1>1 DEF IInv, JobsFit, Fits, SlugsApart
  <2> QED
    BY <1>1, <1>5, <2>1 DEF IInv, SlugsApart
<1>12. Unborn'
  BY <1>1, <1>2, <1>5, <1>6 DEF IInv, Unborn
<1>13. OneVoteEach' /\ Numbered' /\ ChainLinear'
  <2>1. CASE HasVoted(job[r].user, i)
    <3>1. votes' = votes /\ chain' = chain
      BY <1>1, <2>1
    <3>2. \A x : Links(x)' = Links(x)
      BY <3>1 DEF Links
    <3>3. OneVoteEach' /\ Numbered'
      BY <3>1 DEF IInv, OneVoteEach, Numbered
    <3>4. ChainLinear'
      BY <3>1, <3>2 DEF IInv, ChainLinear
    <3> QED
      BY <3>3, <3>4
  <2>2. CASE ~HasVoted(job[r].user, i)
    <3> DEFINE L == Len(votes[i])
    <3>1. /\ L \in Nat /\ DOMAIN votes[i] = 1 .. L /\ DOMAIN votes'[i] = 1 .. L + 1
          /\ Len(votes'[i]) = L + 1 /\ votes'[i] \in Seq(Vote) /\ votes[i] \in Seq(Vote)
          /\ \A n \in 1 .. L : votes'[i][n] = votes[i][n]
          /\ votes'[i][L + 1] = v
      <4>1. votes[i] \in Seq(Vote) /\ votes'[i] = Append(votes[i], v)
        BY <1>1, <1>2, <1>6, <2>2 DEF TypeOK
      <4> QED
        BY <1>1, <4>1, AppendProperties
    <3> HIDE DEF L
    <3>2. v.seq = L + 1 /\ v.index = L + 1 /\ v.hash = LinksOf(votes'[i])
          /\ chain'[i].seq = L + 1 /\ chain'[i].hash = v.hash /\ chain'[i].next = L + 2
      <4>1. /\ v.seq = L + 1 /\ v.index = L + 1 /\ v.hash = LinksOf(Append(votes[i], v))
        BY <1>1, <2>2 DEF L
      <4>2. /\ votes'[i] = Append(votes[i], v) /\ chain'[i].seq = v.seq
            /\ chain'[i].hash = v.hash /\ chain'[i].next = v.index + 1
        BY <1>6, <2>2
      <4> QED
        BY <3>1, <4>1, <4>2
    <3>3. \A n \in 1 .. L + 1 : n \in 1 .. L \/ n = L + 1
      BY <3>1
    <3>4. OneVoteEach'
      <4> SUFFICES ASSUME NEW x \in Ids, NEW m \in DOMAIN votes'[x], NEW n \in DOMAIN votes'[x],
                          votes'[x][m].user = votes'[x][n].user
                   PROVE  m = n
        BY DEF OneVoteEach
      <4>1. CASE x # i
        BY <1>6, <4>1 DEF IInv, OneVoteEach
      <4>2. CASE x = i
        <5>1. \A k \in 1 .. L : votes[i][k].user # v.user
          BY <1>1, <2>2, <3>1 DEF HasVoted
        <5> QED
          BY <1>1, <3>1, <3>3, <4>2, <5>1 DEF IInv, OneVoteEach
      <4> QED
        BY <4>1, <4>2
    <3>5. Numbered'
      <4> SUFFICES ASSUME NEW x \in Ids
                   PROVE  /\ chain'[x].next = Len(votes'[x]) + 1
                          /\ \A n \in DOMAIN votes'[x] : votes'[x][n].index = n
        BY DEF Numbered
      <4>1. CASE x # i
        BY <1>6, <4>1 DEF IInv, Numbered
      <4>2. CASE x = i
        <5>1. \A n \in 1 .. L : votes[i][n].index = n
          BY <1>1, <3>1 DEF IInv, Numbered
        <5> QED
          <6>1. \A n \in 1 .. L + 1 : votes'[i][n].index = n
            BY <3>1, <3>2, <3>3, <5>1
          <6>2. chain'[i].next = Len(votes'[i]) + 1
            BY <3>1, <3>2
          <6> QED
            BY <3>1, <4>2, <6>1, <6>2
      <4> QED
        BY <4>1, <4>2
    <3>6. ChainLinear'
      <4> SUFFICES ASSUME NEW x \in Ids
                   PROVE  /\ \A n \in DOMAIN votes'[x] :
                               votes'[x][n].seq = n /\ votes'[x][n].hash = SubSeq(LinksOf(votes'[x]), 1, n)
                          /\ chain'[x].seq = Len(votes'[x]) /\ chain'[x].hash = LinksOf(votes'[x])
        BY DEF ChainLinear, Links, LinksOf
      <4>0. /\ \A n \in DOMAIN votes[x] :
                 votes[x][n].seq = n /\ votes[x][n].hash = SubSeq(LinksOf(votes[x]), 1, n)
            /\ chain[x].seq = Len(votes[x]) /\ chain[x].hash = LinksOf(votes[x])
        <5>1. Links(x) = LinksOf(votes[x])
          BY DEF Links, LinksOf
        <5> QED
          BY <5>1 DEF IInv, ChainLinear
      <4>1. CASE x # i
        BY <1>6, <4>0, <4>1
      <4>2. CASE x = i
        <5>1. votes'[i] = Append(votes[i], v)
          BY <1>6, <2>2
        <5>2. \A n \in 1 .. L : SubSeq(LinksOf(votes'[i]), 1, n) = SubSeq(LinksOf(votes[i]), 1, n)
          <6>1. \A n \in 1 .. Len(votes[i]) :
                  SubSeq(LinksOf(Append(votes[i], v)), 1, n) = SubSeq(LinksOf(votes[i]), 1, n)
            BY <1>1, <3>1, LinksOfAppend
          <6> QED
            BY <5>1, <6>1 DEF L
        <5>3. SubSeq(LinksOf(votes'[i]), 1, L + 1) = LinksOf(votes'[i])
          <6>1. LinksOf(votes'[i]) \in Seq(Link) /\ Len(LinksOf(votes'[i])) = L + 1
            BY <3>1, LinksOfType
          <6> QED
            BY <6>1, SubSeqFull
        <5>4. \A n \in 1 .. L :
                votes'[i][n].seq = n /\ votes'[i][n].hash = SubSeq(LinksOf(votes'[i]), 1, n)
          BY <3>1, <4>0, <4>2, <5>2
        <5>5. \A n \in 1 .. L + 1 :
                votes'[i][n].seq = n /\ votes'[i][n].hash = SubSeq(LinksOf(votes'[i]), 1, n)
          BY <3>1, <3>2, <3>3, <5>3, <5>4
        <5> QED
          BY <3>1, <3>2, <4>2, <5>5
      <4> QED
        BY <4>1, <4>2
    <3> QED
      BY <3>4, <3>5, <3>6
  <2> QED
    BY <2>1, <2>2
<1> QED
  BY <1>7, <1>9, <1>10, <1>11, <1>12, <1>13, <1>14 DEF IInv

------------------------------------------------------------------------------
(* Counting.                                                               *)

LEMMA VotersOf ==
  ASSUME IInv, NEW i \in Ids
  PROVE  /\ Len(votes[i]) \in Nat /\ DOMAIN votes[i] = 1 .. Len(votes[i])
         /\ Cardinality({votes[i][n].user : n \in DOMAIN votes[i]}) = Len(votes[i])
         /\ Len(votes[i]) <= Cardinality(Users)
<1> DEFINE L == Len(votes[i])
           S == {votes[i][n].user : n \in DOMAIN votes[i]}
           f == [n \in 1 .. L |-> votes[i][n].user]
<1>1. votes[i] \in Seq(Vote)
  BY DEF IInv, TypeOK
<1>2. L \in Nat /\ DOMAIN votes[i] = 1 .. L /\ \A n \in 1 .. L : votes[i][n] \in Vote
  BY <1>1
<1>3. \A n \in 1 .. L : votes[i][n].user \in Users
  BY <1>2 DEF Vote
<1>4. \A m, n \in 1 .. L : votes[i][m].user = votes[i][n].user => m = n
  BY <1>2 DEF IInv, OneVoteEach
<1>5. S \subseteq Users
  BY <1>2, <1>3
<1>6. f \in Injection(1 .. L, S) /\ f \in Surjection(1 .. L, S)
  <2>1. f \in [1 .. L -> S] /\ \A n \in 1 .. L : f[n] = votes[i][n].user
    BY <1>2
  <2>2. \A s \in S : \E n \in 1 .. L : f[n] = s
    BY <1>2
  <2>3. \A m, n \in 1 .. L : f[m] = f[n] => m = n
    BY <1>4, <2>1
  <2> HIDE DEF f, S, L
  <2>4. f \in Injection(1 .. L, S)
    BY <2>1, <2>3 DEF Injection, IsInjective
  <2>5. f \in Surjection(1 .. L, S)
    BY <2>1, <2>2 DEF Surjection
  <2> QED
    BY <2>4, <2>5
<1> HIDE DEF L, S, f
<1>7. IsFiniteSet(S) /\ Cardinality(S) <= Cardinality(Users)
  BY <1>5, FS_Subset, ApprovalsAssumption
<1>8. Cardinality(1 .. L) = Cardinality(S)
  BY <1>6, <1>7, FS_Injection
<1>9. Cardinality(1 .. L) = L
  BY <1>2, FS_Interval
<1> QED
  BY <1>2, <1>7, <1>8, <1>9 DEF S, L

(* A choice somebody committed is counted.                                 *)
LEMMA CountSees ==
  ASSUME IInv, NEW k \in Keys, NEW c \in Positions
  PROVE  /\ Count(k, c) \in Nat
         /\ \A u \in Users : c \in Said(u, k) => Count(k, c) > 0
<1> DEFINE Rows == Committed(k) \X (1 .. Cardinality(Users))
           X == {x \in Rows : x[2] \in DOMAIN votes[x[1]] /\ votes[x[1]][x[2]].option = c}
<1>1. Count(k, c) = Cardinality(X)
  BY DEF Count
<1>2. IsFiniteSet(Committed(k))
  <2>1. CASE Committed(k) = {}
    BY <2>1, FS_EmptySet
  <2>2. CASE Committed(k) # {}
    <3>1. PICK i : i \in Committed(k)
      BY <2>2
    <3>2. Committed(k) = {i}
      BY <3>1, ApprovalsAssumption DEF IInv, OnePoll, Committed
    <3> QED
      BY <3>2, FS_Singleton
  <2> QED
    BY <2>1, <2>2
<1>3. IsFiniteSet(1 .. Cardinality(Users)) /\ Cardinality(Users) \in Nat
  <2>1. Cardinality(Users) \in Nat
    BY FS_CardinalityType, ApprovalsAssumption
  <2> QED
    BY <2>1, FS_Interval
<1>4. IsFiniteSet(Rows)
  BY <1>2, <1>3, FS_Product
<1>5. X \subseteq Rows
  OBVIOUS
<1>6. ASSUME NEW u \in Users, c \in Said(u, k) PROVE X # {}
  <2>1. PICK i \in Committed(k) : \E n \in DOMAIN votes[i] : votes[i][n].option = c
    BY <1>6 DEF Said
  <2>2. PICK n \in DOMAIN votes[i] : votes[i][n].option = c
    BY <2>1
  <2>3. n \in 1 .. Cardinality(Users)
    <3>1. i \in Ids
      BY <2>1 DEF Committed
    <3>2. n \in 1 .. Len(votes[i]) /\ Len(votes[i]) \in Nat /\ Len(votes[i]) <= Cardinality(Users)
      BY <2>2, <3>1, VotersOf
    <3> QED
      BY <1>3, <3>2
  <2>4. <<i, n>> \in X
    BY <2>1, <2>2, <2>3
  <2> QED
    BY <2>4
<1> HIDE DEF X, Rows
<1>7. IsFiniteSet(X)
  BY <1>4, <1>5, FS_Subset
<1>8. Cardinality(X) \in Nat
  BY <1>7, FS_CardinalityType
<1>9. X # {} => Cardinality(X) # 0
  BY <1>7, FS_EmptySet
<1> QED
  BY <1>1, <1>6, <1>8, <1>9

LEMMA ReadTallyStep ==
  ASSUME IInv, NEW r \in Requests, ReadTally(r)
  PROVE  IInv'
<1> DEFINE t == [c \in Positions |-> Count(job[r].key, c)]
           j == [job[r] EXCEPT !.tally = t]
<1>0. /\ TypeOK /\ Fits(r) /\ job[r] \in Job /\ pc[r] = "tally"
      /\ UNCHANGED <<month, tables, faults>> /\ month' \in Months /\ faults' \in 0 .. MaxFaults
      /\ job[r].user \in Users /\ job[r].key \in Keys /\ ~job[r].creates
  BY DEF IInv, JobsFit, TypeOK, ReadTally, At, Fits, InTransaction
<1>1. t \in Tally /\ \A c \in Said(job[r].user, job[r].key) : t[c] > 0
  <2>1. \A c \in Positions : Count(job[r].key, c) \in Nat
    BY <1>0, CountSees
  <2>2. \A c \in Said(job[r].user, job[r].key) : c \in Positions /\ Count(job[r].key, c) > 0
    <3>1. Said(job[r].user, job[r].key) \subseteq Positions
      BY DEF Said
    <3> QED
      BY <1>0, <3>1, CountSees
  <2> QED
    BY <2>1, <2>2 DEF Tally
<1>2. Goto(r, "my_choice", j)
  BY DEF ReadTally
<1> HIDE DEF t
<1>3. /\ j \in Job /\ j.user = job[r].user /\ j.key = job[r].key /\ j.vote = job[r].vote
      /\ j.creates = job[r].creates /\ j.tally = t
  BY <1>0, <1>1 DEF Job
<1> HIDE DEF j
<1>4. pc'[r] = "my_choice" /\ job'[r] = j
  BY <1>0, <1>2, <1>3, GotoSlot DEF Steps, InTransaction
<1>5. Said(job[r].user, job[r].key)' = Said(job[r].user, job[r].key)
  BY <1>0, <1>3, <1>4 DEF Said, Committed, tables
<1>6. Fits(r)'
  BY <1>0, <1>1, <1>3, <1>4, <1>5 DEF Fits, HasPoll, InTransaction
<1> QED
  BY <1>0, <1>2, <1>3, <1>6, Quiet DEF Steps, InTransaction

LEMMA ReadMyChoiceStep ==
  ASSUME IInv, NEW r \in Requests, ReadMyChoice(r)
  PROVE  IInv'
<1>0. /\ TypeOK /\ Fits(r) /\ job[r] \in Job /\ pc[r] = "my_choice"
      /\ UNCHANGED <<month, tables, faults>> /\ month' \in Months /\ faults' \in 0 .. MaxFaults
      /\ job[r].user \in Users /\ job[r].key \in Keys /\ ~job[r].creates
      /\ Said(job[r].user, job[r].key) # {}
  BY DEF IInv, JobsFit, TypeOK, ReadMyChoice, At, Fits, InTransaction
<1>1. PICK c \in Said(job[r].user, job[r].key) : Goto(r, "answer", [job[r] EXCEPT !.mine = c])
  BY <1>0 DEF ReadMyChoice
<1> DEFINE j == [job[r] EXCEPT !.mine = c]
<1>2. c \in Positions /\ c # None /\ job[r].tally[c] > 0
  <2>1. c \in Positions
    BY <1>1 DEF Said
  <2> QED
    BY <1>0, <1>1, <2>1, ApprovalsAssumption DEF Fits
<1>3. /\ j \in Job /\ j.user = job[r].user /\ j.key = job[r].key /\ j.vote = job[r].vote
      /\ j.creates = job[r].creates /\ j.tally = job[r].tally /\ j.mine = c
  BY <1>0, <1>2 DEF Job
<1>4. Goto(r, "answer", j)
  BY <1>1
<1> HIDE DEF j
<1>5. pc'[r] = "answer" /\ job'[r] = j
  BY <1>0, <1>3, <1>4, GotoSlot DEF Steps, InTransaction
<1>6. Said(job[r].user, job[r].key)' = Said(job[r].user, job[r].key)
  BY <1>0, <1>3, <1>5 DEF Said, Committed, tables
<1>7. Fits(r)'
  BY <1>0, <1>2, <1>3, <1>5, <1>6 DEF Fits, HasPoll, InTransaction
<1> QED
  BY <1>0, <1>3, <1>4, <1>7, Quiet DEF Steps, InTransaction

(* A request that is answered, or dropped.                                 *)
LEMMA LeaveStep ==
  ASSUME IInv, NEW r \in Requests, Goto(r, "idle", NoJob), UNCHANGED <<month, tables>>,
         faults' \in 0 .. MaxFaults
  PROVE  IInv'
<1>1. pc'[r] = "idle" /\ job'[r] = NoJob
  BY NoJobFits, GotoSlot DEF IInv, Steps
<1>2. Fits(r)'
  BY <1>1, NoJobFits DEF Fits, HasPoll, InTransaction
<1>3. month' \in Months
  BY DEF IInv, TypeOK
<1> QED
  BY <1>2, <1>3, NoJobFits, Quiet DEF Steps

(* Nothing a request has read says what month it is.                       *)
LEMMA MonthOnly ==
  ASSUME IInv, UNCHANGED <<tables, requests, faults>>, month' \in Months
  PROVE  IInv'
<1>1. /\ polls' = polls /\ options' = options /\ votes' = votes /\ chain' = chain
      /\ others' = others /\ pc' = pc /\ job' = job
  BY DEF tables, requests
<1>2. TypeOK'
  BY <1>1 DEF IInv, TypeOK
<1>3. JobsFit'
  <2> SUFFICES ASSUME NEW r \in Requests PROVE Fits(r)'
    BY DEF JobsFit
  <2>1. Fits(r)
    BY DEF IInv, JobsFit
  <2> QED
    BY <1>1, <2>1, FitsKept
<1>4. CreatorsApart' /\ ChainsLocked'
  BY <1>1 DEF IInv, CreatorsApart, ChainsLocked, LocksChain
<1>5. \A i : Links(i)' = Links(i)
  BY <1>1 DEF Links
<1>6. SlugsApart' /\ OnePoll' /\ Unborn' /\ OneVoteEach' /\ Numbered' /\ ChainLinear'
  <2>1. ChainLinear'
    BY <1>1, <1>5 DEF IInv, ChainLinear
  <2> QED
    BY <1>1, <2>1 DEF IInv, SlugsApart, OnePoll, Unborn, OneVoteEach, Numbered
<1> QED
  BY <1>2, <1>3, <1>4, <1>6 DEF IInv

(* A poll of another kind takes a slug that no approval poll has and that   *)
(* none is being created with.                                             *)
LEMMA WriteOtherStep ==
  ASSUME IInv, NEW k \in Keys, WriteOther(k)
  PROVE  IInv'
<1>1. /\ polls' = polls /\ options' = options /\ votes' = votes /\ chain' = chain
      /\ pc' = pc /\ job' = job /\ month' = month /\ faults' = faults
      /\ others' = others \union {k} /\ Committed(k) = {}
      /\ \A r \in Requests : ~CreatesPoll(r, k)
  BY DEF WriteOther, requests, SlugTaken
<1>2. TypeOK'
  BY <1>1 DEF IInv, TypeOK
<1>3. ASSUME NEW r \in Requests PROVE Fits(r)'
  <2>1. Fits(r)
    BY DEF IInv, JobsFit
  <2>2. Committed(job[r].key)' = Committed(job[r].key)
    BY <1>1 DEF Committed
  <2>3. Said(job[r].user, job[r].key)' = Said(job[r].user, job[r].key)
    BY <1>1 DEF Said, Committed
  <2>4. HasVoted(job[r].user, job[r].poll)' = HasVoted(job[r].user, job[r].poll)
    BY <1>1 DEF HasVoted
  <2>5. NextVote(r)' = NextVote(r)
    BY <1>1 DEF NextVote
  <2>6. job[r].creates => job[r].key \notin others'
    BY <1>1, <2>1 DEF Fits, CreatesPoll
  <2> QED
    BY <1>1, <2>1, <2>2, <2>3, <2>4, <2>5, <2>6 DEF Fits, SlugTaken
<1>4. JobsFit'
  BY <1>3 DEF JobsFit
<1>5. CreatorsApart' /\ ChainsLocked'
  BY <1>1 DEF IInv, CreatorsApart, ChainsLocked, LocksChain
<1>6. SlugsApart'
  BY <1>1 DEF IInv, SlugsApart, Committed
<1>7. \A i : Links(i)' = Links(i)
  BY <1>1 DEF Links
<1>8. ChainLinear'
  BY <1>1, <1>7 DEF IInv, ChainLinear
<1>9. OnePoll' /\ Unborn' /\ OneVoteEach' /\ Numbered'
  BY <1>1 DEF IInv, OnePoll, Unborn, OneVoteEach, Numbered
<1> QED
  BY <1>2, <1>4, <1>5, <1>6, <1>8, <1>9 DEF IInv

------------------------------------------------------------------------------
(* The inductive invariant and what follows from it.                       *)

LEMMA InitInv == Init => IInv
<1> SUFFICES ASSUME Init PROVE IInv
  OBVIOUS
<1>1. TypeOK
  <2>1. Genesis \in HeadRow
    BY DEF Genesis, HeadRow
  <2> QED
    BY <2>1, NoJobFits, ApprovalsAssumption DEF Init, TypeOK, Months, Steps
<1>2. JobsFit
  BY NoJobFits DEF Init, JobsFit, Fits, HasPoll, InTransaction
<1>3. CreatorsApart /\ ChainsLocked
  BY NoJobFits DEF Init, CreatorsApart, ChainsLocked, LocksChain
<1>4. SlugsApart /\ OnePoll /\ Unborn /\ OneVoteEach /\ Numbered
  BY DEF Init, SlugsApart, OnePoll, Unborn, OneVoteEach, Numbered, Genesis
<1>5. ChainLinear
  <2>1. \A i \in Ids : votes[i] = <<>> /\ chain[i] = Genesis
    BY DEF Init
  <2>2. \A i \in Ids : Links(i) = <<>>
    BY <2>1 DEF Links
  <2> QED
    BY <2>1, <2>2 DEF ChainLinear, Genesis
<1> QED
  BY <1>1, <1>2, <1>3, <1>4, <1>5 DEF IInv

LEMMA StepInv == IInv /\ [Next]_vars => IInv'
<1> SUFFICES ASSUME IInv, [Next]_vars PROVE IInv'
  OBVIOUS
<1>1. CASE \E r \in Requests : \E u \in Users, e \in Entities, c \in Positions : CastStart(r, u, e, c)
  BY <1>1, CastStartStep
<1>2. CASE \E r \in Requests : Transaction(r)
  BY <1>2, InsertPollStep, InsertSlugStep, FindPollStep, AddOptionsStep, FindOptionStep, LockChainStep,
     ChainStep, CommitStep DEF Transaction
<1>3. CASE \E r \in Requests : Panel(r)
  <2>1. ASSUME NEW r \in Requests, Answer(r) PROVE IInv'
    BY <2>1, LeaveStep DEF Answer, IInv, TypeOK
  <2> QED
    BY <1>3, <2>1, ReadTallyStep, ReadMyChoiceStep DEF Panel
<1>4. CASE \E r \in Requests : Abort(r)
  <2>1. PICK r \in Requests : Abort(r)
    BY <1>4
  <2>2. faults' \in 0 .. MaxFaults
    BY <2>1, ApprovalsAssumption DEF Abort, IInv, TypeOK
  <2> QED
    BY <2>1, <2>2, LeaveStep DEF Abort
<1>5. CASE NewMonth
  <2>1. month' \in Months
    BY <1>5, ApprovalsAssumption DEF NewMonth, IInv, TypeOK, Months
  <2> QED
    BY <1>5, <2>1, MonthOnly DEF NewMonth
<1>6. CASE UNCHANGED vars
  BY <1>6, MonthOnly DEF vars, IInv, TypeOK
<1>7. CASE \E k \in Keys : WriteOther(k)
  BY <1>7, WriteOtherStep
<1> QED
  BY <1>1, <1>2, <1>3, <1>4, <1>5, <1>6, <1>7 DEF Next

LEMMA Invariant == Spec => []IInv
<1>1. Init => IInv
  BY InitInv
<1>2. IInv /\ [Next]_vars => IInv'
  BY StepInv
<1> QED
  BY <1>1, <1>2, PTL DEF Spec

(* The month has one poll with one vote an account in a linear chain       *)
(* numbered from 1, no poll shares a slug with another, and a cast fails     *)
(* over a slug that is taken, never over (poll_id, seq) or a missing option: *)
(* approvals.rs cast, under the locks of the trigger.                       *)
THEOREM ApprovalsSoundAlways == Spec => []ApprovalsSound
<1>1. ASSUME IInv PROVE OneApproval
  <2> SUFFICES ASSUME NEW i \in Ids, NEW j \in Ids, NEW m \in DOMAIN votes[i], NEW n \in DOMAIN votes[j],
                      polls[i] = polls[j], votes[i][m].user = votes[j][n].user
               PROVE  i = j /\ m = n
    BY DEF OneApproval
  <2>1. polls[i] # None
    BY <1>1 DEF IInv, Unborn
  <2>2. i = j
    BY <1>1, <2>1 DEF IInv, OnePoll
  <2> QED
    BY <1>1, <2>2 DEF IInv, OneVoteEach
<1>2. ASSUME IInv PROVE IndexesNumberVoters
  <2> SUFFICES ASSUME NEW i \in Ids
               PROVE  {votes[i][n].index : n \in DOMAIN votes[i]}
                        = 1 .. Cardinality({votes[i][n].user : n \in DOMAIN votes[i]})
    BY DEF IndexesNumberVoters
  <2>1. /\ DOMAIN votes[i] = 1 .. Len(votes[i])
        /\ Cardinality({votes[i][n].user : n \in DOMAIN votes[i]}) = Len(votes[i])
    BY <1>2, VotersOf
  <2>2. \A n \in DOMAIN votes[i] : votes[i][n].index = n
    BY <1>2 DEF IInv, Numbered
  <2>3. {votes[i][n].index : n \in DOMAIN votes[i]} = DOMAIN votes[i]
    BY <2>2
  <2> QED
    BY <2>1, <2>3
<1>3. IInv => OnlySlugsCollide
  BY DEF IInv, JobsFit, Fits, SlugsApart, OnlySlugsCollide, At
<1>4. IInv => ApprovalsSound
  BY <1>1, <1>2, <1>3 DEF IInv, ApprovalsSound
<1> QED
  BY <1>4, Invariant, PTL

(* The panel that answers a cast shows the account a choice and counts it: *)
(* approve.rs reads the tally and the choice after cast has committed.     *)
THEOREM PanelCountsMineAlways == Spec => []PanelCountsMine
<1>1. IInv => PanelCountsMine
  BY DEF IInv, JobsFit, Fits, PanelCountsMine, At
<1> QED
  BY <1>1, Invariant, PTL

------------------------------------------------------------------------------
(* The register.                                                           *)

LEMMA ToldKept ==
  ASSUME \A u \in Users, k \in Keys : Said(u, k)' = Said(u, k)
  PROVE  Told' = Told
BY DEF Told

LEMMA CommitTells ==
  ASSUME IInv, NEW r \in Requests, Commit(r)
  PROVE  \/ Told' = Told
         \/ \E u \in Users, k \in Keys, c \in Positions :
              Told[u][k] = None /\ Told' = [Told EXCEPT ![u][k] = c]
<1>0. PICK i, u, k : i = job[r].poll /\ u = job[r].user /\ k = job[r].key
  OBVIOUS
<1>1. i \in Ids /\ u \in Users /\ k \in Keys
  BY <1>0, CommitDoes
<1>2. CASE HasVoted(u, i)
  <2>1. \A x \in Users, y \in Keys : Said(x, y)' = Said(x, y)
    BY <1>0, <1>2, CommitSays
  <2> QED
    BY <2>1, ToldKept
<1>3. CASE ~HasVoted(u, i)
  <2>1. /\ Said(u, k) = {} /\ Said(u, k)' = {job[r].choice}
        /\ \A x \in Users, y \in Keys : (x # u \/ y # k) => Said(x, y)' = Said(x, y)
    <3>1. ASSUME NEW x \in Users, NEW y \in Keys
          PROVE  IF x = u /\ y = k
                 THEN Said(x, y) = {} /\ Said(x, y)' = {job[r].choice}
                 ELSE Said(x, y)' = Said(x, y)
      BY <1>0, <1>3, CommitSays
    <3> QED
      BY <1>1, <3>1
  <2>2. PICK c \in Positions : c = job[r].choice
    BY DEF IInv, TypeOK, Job
  <2>3. Told[u][k] = None
    <3>1. Told[u][k] = One(Said(u, k))
      BY <1>1 DEF Told
    <3>2. One({}) = None
      BY DEF One
    <3> QED
      BY <2>1, <3>1, <3>2
  <2>4. Told' = [Told EXCEPT ![u][k] = c]
    <3>1. Told' = [x \in Users |-> [y \in Keys |-> One(Said(x, y)')]]
      BY DEF Told, One
    <3>2. One({c}) = c
      BY DEF One
    <3>3. \A x \in Users, y \in Keys :
            One(Said(x, y)') = IF x = u /\ y = k THEN c ELSE One(Said(x, y))
      BY <2>1, <2>2, <3>2
    <3>4. Told' = [x \in Users |-> [y \in Keys |-> IF x = u /\ y = k THEN c ELSE One(Said(x, y))]]
      BY <3>1, <3>3
    <3>5. [Told EXCEPT ![u][k] = c]
            = [x \in Users |-> [y \in Keys |-> IF x = u /\ y = k THEN c ELSE One(Said(x, y))]]
      BY <1>1 DEF Told
    <3> QED
      BY <3>4, <3>5
  <2> QED
    BY <1>1, <2>3, <2>4
<1> QED
  BY <1>2, <1>3

(* The polls, chains and transactions keep what the register promises: an  *)
(* account says one thing about an entity in a month, and it stands.       *)
THEOREM RegisterRefinement == Spec => ImplementsRegister
<1>1. Init => Register!Init
  <2> SUFFICES ASSUME Init PROVE Register!Init
    OBVIOUS
  <2>1. \A u \in Users, k \in Keys : Said(u, k) = {}
    <3>1. \A k \in Keys : Committed(k) = {}
      BY ApprovalsAssumption DEF Init, Committed
    <3> QED
      BY <3>1 DEF Said
  <2> QED
    BY <2>1 DEF Register!Init, Told, One, Keys
<1>2. ASSUME IInv, [Next]_vars PROVE [Register!Next]_Told
  <2>1. CASE \E r \in Requests : Commit(r)
    <3>1. PICK r \in Requests : Commit(r)
      BY <2>1
    <3>2. CASE Told' = Told
      BY <3>2
    <3>3. CASE \E u \in Users, k \in Keys, c \in Positions :
                 Told[u][k] = None /\ Told' = [Told EXCEPT ![u][k] = c]
      <4>1. PICK u \in Users, k \in Keys, c \in Positions :
              Told[u][k] = None /\ Told' = [Told EXCEPT ![u][k] = c]
        BY <3>3
      <4>2. Told'[u][k] = c
        BY <4>1 DEF Told
      <4>3. Register!Say(u, k)
        BY <4>1, <4>2 DEF Register!Say
      <4> QED
        BY <4>3 DEF Register!Next, Keys
    <3> QED
      BY <1>2, <3>1, <3>2, <3>3, CommitTells
  <2>2. CASE UNCHANGED tables
    BY <2>2, TablesKept, ToldKept
  <2>3. CASE \E k \in Keys : WriteOther(k)
    <3>1. \A u, k : Said(u, k)' = Said(u, k)
      BY <2>3 DEF WriteOther, Said, Committed
    <3> QED
      BY <3>1, ToldKept
  <2>4. \/ \E r \in Requests : Commit(r)
        \/ \E k \in Keys : WriteOther(k)
        \/ UNCHANGED tables
    BY <1>2 DEF Next, vars, CastStart, Transaction, InsertPoll, InsertSlug, FindPoll, AddOptions,
       FindOption, LockChain, Chain, Panel, ReadTally, ReadMyChoice, Answer, NewMonth, Abort
  <2> QED
    BY <2>1, <2>2, <2>3, <2>4
<1> QED
  BY <1>1, <1>2, Invariant, PTL DEF Spec, ImplementsRegister, Register!Spec
==============================================================================
