----------------------------- MODULE VotingProofs -----------------------------
(***************************************************************************)
(* Proofs about Voting for every number of polls, accounts, tokens, keys   *)
(* and requests, with faults or without.  The inductive invariant is       *)
(* established in layers, each using the ones before: what a request       *)
(* carries, which keys it knows, who owns an entitlement, what a cast      *)
(* presents, and what the lock protects.                                   *)
(***************************************************************************)
EXTENDS Voting, FiniteSetTheorems, SequenceTheorems, TLAPS

(* Every action of a request that leaves its arguments' types alone goes   *)
(* through these three.                                                    *)
LEMMA NoJobFits == NoJob \in Job
<1>1. (CHOOSE p \in Polls : TRUE) \in Polls
  BY PollsAssumption
<1> QED
  BY <1>1 DEF NoJob, Job, BallotGenesis, Hash

LEMMA ChosenFits ==
  ASSUME NEW p \in Polls, NEW body \in Bodies, Chosen(p, body) # {}
  PROVE  Fits(p, Chosen(p, body)) /\ Chosen(p, body) \in SUBSET OptionIds
<1>1. body \in Seq(OptionIds)
  BY OptionsAssumption
<1>2. OptionsOf[p] \subseteq OptionIds
  BY OptionsAssumption
<1>3. Chosen(p, body) \subseteq OptionsOf[p]
  BY DEF Chosen
<1>4. p \notin Multi => \A x, y \in Chosen(p, body) : x = y
  BY <1>1 DEF Chosen
<1> QED
  BY <1>2, <1>3, <1>4 DEF Fits

LEMMA HeadTypes ==
  ASSUME TypeOK, NEW p \in Polls
  PROVE  HeadSeq(p) \in Nat /\ HeadHash(p) \in Hash
<1>1. ballots[p] \in Seq(Ballot)
  BY DEF TypeOK
<1>2. CASE ballots[p] = <<>>
  BY <1>2 DEF HeadSeq, HeadHash, BallotGenesis, Hash
<1>3. CASE ballots[p] # <<>>
  <2>1. ballots[p][Len(ballots[p])] \in Ballot
    BY <1>1, <1>3
  <2> QED
    BY <2>1, <1>3 DEF HeadSeq, HeadHash, Ballot
<1> QED
  BY <1>2, <1>3

LEMMA HashType ==
  ASSUME NEW prev \in Hash, NEW t \in Tokens, NEW c \in SUBSET OptionIds, NEW n \in Nat
  PROVE  BallotHash(prev, t, c, n) \in Hash
<1> DEFINE Entry == [token: Tokens, choice: SUBSET OptionIds, seq: Nat]
           e == [token |-> t, choice |-> c, seq |-> n]
<1>1. e \in Entry /\ prev.entries \in Seq(Entry) /\ prev \in [poll: Polls, entries: Seq(Entry)]
  BY DEF Hash
<1>2. Append(prev.entries, e) \in Seq(Entry)
  BY <1>1
<1>3. [prev EXCEPT !.entries = Append(prev.entries, e)] \in [poll: Polls, entries: Seq(Entry)]
  BY <1>1, <1>2
<1> QED
  BY <1>3 DEF BallotHash, Hash

(* First layer: types, and the arguments a request carries.               *)
Requests == TypeOK /\ JobsFit /\ IssuedWithinVerified

------------------------------------------------------------------------------
(* What each kind of move of a request's slot does to pc and job.          *)

Others(r) == \A q \in Reqs : q # r => pc'[q] = pc[q] /\ job'[q] = job[q]
SlotTypes == pc' \in [Reqs -> Steps] /\ job' \in [Reqs -> Job]

LEMMA GotoSlot ==
  ASSUME TypeOK, NEW r \in Reqs, NEW step \in Steps, Goto(r, step)
  PROVE  SlotTypes /\ Others(r) /\ pc'[r] = step /\ job' = job /\ job'[r] = job[r]
BY DEF TypeOK, Goto, SlotTypes, Others

LEMMA KeySlot ==
  ASSUME TypeOK, NEW r \in Reqs, NEW step \in Steps, NEW k \in Keys \union {None},
         GotoWithKey(r, step, k)
  PROVE  /\ SlotTypes /\ Others(r) /\ pc'[r] = step
         /\ job'[r].key = k /\ job'[r].kind = job[r].kind /\ job'[r].poll = job[r].poll
         /\ job'[r].user = job[r].user /\ job'[r].token = job[r].token
<1>1. job[r] \in Job
  BY DEF TypeOK
<1>2. /\ [job[r] EXCEPT !.key = k] \in Job
      /\ [job[r] EXCEPT !.key = k].key = k
      /\ [job[r] EXCEPT !.key = k].kind = job[r].kind
      /\ [job[r] EXCEPT !.key = k].poll = job[r].poll
      /\ [job[r] EXCEPT !.key = k].user = job[r].user
      /\ [job[r] EXCEPT !.key = k].token = job[r].token
  BY <1>1 DEF Job
<1>3. job'[r] = [job[r] EXCEPT !.key = k]
  BY DEF TypeOK, GotoWithKey
<1>4. pc'[r] = step /\ SlotTypes /\ Others(r)
  BY <1>2 DEF TypeOK, GotoWithKey, SlotTypes, Others
<1> QED
  BY <1>2, <1>3, <1>4

LEMMA StartSlot ==
  ASSUME TypeOK, NEW r \in Reqs, NEW step \in Steps, NEW j \in Job, Start(r, step, j)
  PROVE  SlotTypes /\ Others(r) /\ pc[r] = "idle" /\ pc'[r] = step /\ job'[r] = j
BY DEF TypeOK, Start, SlotTypes, Others

LEMMA FinishSlot ==
  ASSUME TypeOK, NEW r \in Reqs, Finish(r)
  PROVE  SlotTypes /\ Others(r) /\ pc'[r] = "idle" /\ job'[r] = NoJob
BY NoJobFits DEF TypeOK, Finish, SlotTypes, Others, Steps

LEMMA HeadSlot ==
  ASSUME TypeOK, NEW r \in Reqs, ReadHead(r)
  PROVE  /\ SlotTypes /\ Others(r) /\ pc'[r] = "record"
         /\ job'[r].seq = HeadSeq(job[r].poll) + 1 /\ job'[r].prev = HeadHash(job[r].poll)
         /\ job'[r].kind = job[r].kind /\ job'[r].poll = job[r].poll
         /\ job'[r].key = job[r].key /\ job'[r].token = job[r].token
         /\ job'[r].choice = job[r].choice
<1> DEFINE p == job[r].poll
           j == [job[r] EXCEPT !.seq = HeadSeq(p) + 1, !.prev = HeadHash(p)]
<1>1. job[r] \in Job /\ p \in Polls
  BY DEF TypeOK, Job
<1>2. HeadSeq(p) + 1 \in Nat /\ HeadHash(p) \in Hash
  BY <1>1, HeadTypes
<1>3. /\ j \in Job
      /\ j.seq = HeadSeq(p) + 1 /\ j.prev = HeadHash(p)
      /\ j.kind = job[r].kind /\ j.poll = p /\ j.key = job[r].key
      /\ j.token = job[r].token /\ j.choice = job[r].choice
  BY <1>1, <1>2 DEF Job
<1>4. job' = [job EXCEPT ![r] = j] /\ pc' = [pc EXCEPT ![r] = "record"]
  BY <1>1 DEF ReadHead, TypeOK
<1> HIDE DEF j
<1>5. SlotTypes /\ Others(r) /\ pc'[r] = "record" /\ job'[r] = j
  BY <1>3, <1>4 DEF TypeOK, SlotTypes, Others, Steps, CastSteps
<1> QED
  BY <1>3, <1>5

(* The jobs requests start with.                                           *)
PageJob(u, p) == [NoJob EXCEPT !.poll = p, !.user = u]
IssueJob(u, p, t) == [NoJob EXCEPT !.kind = "issue", !.poll = p, !.user = u, !.token = t]
CastJob(p, t, k, body) ==
  [NoJob EXCEPT !.kind = "cast", !.poll = p, !.token = t, !.key = k, !.choice = Chosen(p, body)]

LEMMA StartJobs ==
  ASSUME NEW u \in Users, NEW p \in Polls
  PROVE  PageJob(u, p) \in Job /\ PageJob(u, p).kind = "page" /\ PageJob(u, p).key = None
BY NoJobFits DEF PageJob, Job, NoJob

LEMMA IssueJobFits ==
  ASSUME NEW u \in Users, NEW p \in Polls, NEW t \in Tokens
  PROVE  /\ IssueJob(u, p, t) \in Job /\ IssueJob(u, p, t).kind = "issue"
         /\ IssueJob(u, p, t).user = u /\ IssueJob(u, p, t).token = t
         /\ IssueJob(u, p, t).poll = p /\ IssueJob(u, p, t).key = None
BY NoJobFits DEF IssueJob, Job, NoJob

LEMMA CastJobFits ==
  ASSUME NEW p \in Polls, NEW t \in Tokens, NEW k \in Keys \union {None},
         NEW body \in Bodies, Chosen(p, body) # {}
  PROVE  /\ CastJob(p, t, k, body) \in Job
         /\ CastJob(p, t, k, body).poll = p /\ CastJob(p, t, k, body).token = t
         /\ CastJob(p, t, k, body).key = k
         /\ CastJob(p, t, k, body).kind = "cast"
         /\ CastJob(p, t, k, body).choice = Chosen(p, body)
BY NoJobFits, ChosenFits DEF CastJob, Job, NoJob

LEMMA NewBallotType ==
  ASSUME Requests, NEW r \in Reqs, pc[r] \in CastSteps, job[r].key # None
  PROVE  NewBallot(r) \in Ballot
<1>1. /\ job[r].prev \in Hash /\ job[r].token \in Tokens /\ job[r].choice \in SUBSET OptionIds
      /\ job[r].seq \in Nat /\ job[r].key \in Keys
  BY DEF Requests, TypeOK, JobsFit, JobFits, Job
<1>2. BallotHash(job[r].prev, job[r].token, job[r].choice, job[r].seq) \in Hash
  BY <1>1, HashType
<1> QED
  BY <1>1, <1>2 DEF NewBallot, Ballot

------------------------------------------------------------------------------
LEMMA RequestsInit == Init => Requests
<1> SUFFICES ASSUME Init PROVE Requests
  OBVIOUS
<1>1. TypeOK
  BY NoJobFits DEF Init, TypeOK, Steps, keyRows
<1>2. JobsFit /\ IssuedWithinVerified
  BY DEF Init, JobsFit, JobFits, IssuedWithinVerified, IssueSteps, CastSteps, KeyedSteps
<1> QED
  BY <1>1, <1>2 DEF Requests

(* A step of slot r that keeps the types need only look at slot r.         *)
LEMMA RequestsCarry ==
  ASSUME Requests, NEW r \in Reqs, Others(r), UNCHANGED standing, entitled' \subseteq entitled,
         TypeOK', JobFits(r)'
  PROVE  Requests'
BY DEF Requests, Others, JobsFit, JobFits, IssuedWithinVerified

LEMMA RequestsStep == Requests /\ [Next]_vars => Requests'
<1> SUFFICES ASSUME Requests, [Next]_vars PROVE Requests'
  OBVIOUS
<1>0. TypeOK /\ JobsFit /\ IssuedWithinVerified
  BY DEF Requests
<1>01. ASSUME NEW r \in Reqs
       PROVE  /\ job[r] \in Job /\ job[r].poll \in Polls
              /\ job[r].kind \in {"page", "issue", "cast"} /\ JobFits(r)
  BY <1>0 DEF TypeOK, Job, JobsFit
<1>02. NoJob \in Job
  BY NoJobFits
<1> USE DEF At, keyRows, ledger, clients
<1>1. ASSUME NEW u \in Users, Verify(u) \/ Ban(u) PROVE Requests'
  BY <1>0, <1>1, ZenonT(30) DEF Verify, Ban, TypeOK, requests, Requests, JobsFit, JobFits, IssuedWithinVerified
<1>2. ASSUME NEW p \in Polls, ClosePoll(p) PROVE Requests'
  BY <1>0, <1>2 DEF ClosePoll, TypeOK, requests, Requests, JobsFit, JobFits, IssuedWithinVerified
<1>3. ASSUME NEW r \in Reqs, HasKey(r) PROVE Requests'
  <2>1. SlotTypes /\ Others(r) /\ pc'[r] \in {"keygen", AfterKey(r)} /\ job' = job
    <3>1. PICK step \in {"keygen", AfterKey(r)} : Goto(r, step)
      BY <1>3 DEF HasKey
    <3>2. step \in Steps
      BY DEF AfterKey, Steps, IssueSteps
    <3> QED
      BY <1>0, <3>1, <3>2, GotoSlot
  <2>2. TypeOK'
    BY <1>0, <1>01, <1>3, <2>1 DEF HasKey, AfterKey, TypeOK, SlotTypes
  <2>3. JobFits(r)'
    BY <1>0, <1>01, <1>02, <1>3, <2>1 DEF HasKey, AfterKey, JobFits, IssueSteps, CastSteps, KeyedSteps
  <2> QED
    BY <1>3, <2>1, <2>2, <2>3, RequestsCarry DEF HasKey, AfterKey
<1>4. ASSUME NEW r \in Reqs, Keygen(r) PROVE Requests'
  <2>1. SlotTypes /\ Others(r) /\ pc'[r] = "insert_key" /\ job'[r].kind = job[r].kind
        /\ job'[r].user = job[r].user /\ job'[r].token = job[r].token
    BY <1>0, <1>01, <1>4, KeySlot DEF Keygen, FreshKeys, Steps, IssueSteps, CastSteps
  <2>2. TypeOK'
    BY <1>0, <1>01, <1>4, <2>1 DEF Keygen, TypeOK, SlotTypes
  <2>3. JobFits(r)'
    BY <1>0, <1>01, <1>02, <1>4, <2>1 DEF Keygen, JobFits, IssueSteps, CastSteps, KeyedSteps
  <2> QED
    BY <1>4, <2>1, <2>2, <2>3, RequestsCarry DEF Keygen
<1>5. ASSUME NEW r \in Reqs, InsertKey(r) PROVE Requests'
  <2>0. job[r].key \in Keys \union {None}
    BY <1>01 DEF Job
  <2>1. SlotTypes /\ Others(r) /\ pc'[r] = AfterKey(r) /\ job'[r].kind = job[r].kind
        /\ job'[r].user = job[r].user /\ job'[r].token = job[r].token
    <3>1. AfterKey(r) \in Steps
      BY DEF AfterKey, Steps, IssueSteps
    <3>2. GotoWithKey(r, AfterKey(r), None)
      BY <1>5 DEF InsertKey
    <3> QED
      BY <1>0, <3>1, <3>2, KeySlot
  <2>2. TypeOK'
    BY <1>0, <1>01, <1>5, <2>1, <2>0 DEF InsertKey, AfterKey, TypeOK, SlotTypes
  <2>3. JobFits(r)'
    BY <1>0, <1>01, <1>02, <1>5, <2>1 DEF InsertKey, AfterKey, JobFits, IssueSteps, CastSteps, KeyedSteps
  <2> QED
    BY <1>5, <2>1, <2>2, <2>3, RequestsCarry DEF InsertKey, AfterKey
<1>6. ASSUME NEW r \in Reqs, NEW u \in Users, NEW p \in Polls, PageStart(r, u, p) PROVE Requests'
  <2>1. Start(r, "has_key", PageJob(u, p))
    BY <1>6 DEF PageStart, PageJob
  <2>2. PageJob(u, p) \in Job /\ PageJob(u, p).kind = "page"
    BY StartJobs
  <2>3. SlotTypes /\ Others(r) /\ pc'[r] = "has_key" /\ job'[r].kind = "page"
    BY <1>0, <2>1, <2>2, StartSlot DEF Steps, IssueSteps
  <2>4. TypeOK'
    BY <1>0, <1>6, <2>3 DEF PageStart, TypeOK, SlotTypes
  <2>5. JobFits(r)'
    BY <2>3 DEF JobFits, IssueSteps, CastSteps, KeyedSteps
  <2> QED
    BY <1>6, <2>3, <2>4, <2>5, RequestsCarry DEF PageStart
<1>7. ASSUME NEW r \in Reqs, ReadPublic(r) PROVE Requests'
  <2>1. SlotTypes /\ Others(r) /\ pc'[r] = "idle"
    BY <1>0, <1>01, <1>7, FinishSlot DEF ReadPublic, Steps, IssueSteps, CastSteps
  <2>2. TypeOK'
    BY <1>0, <1>01, <1>7, <2>1 DEF ReadPublic, TypeOK, SlotTypes
  <2>3. JobFits(r)'
    BY <1>0, <1>01, <1>02, <1>7, <2>1 DEF ReadPublic, JobFits, IssueSteps, CastSteps, KeyedSteps
  <2> QED
    BY <1>7, <2>1, <2>2, <2>3, RequestsCarry DEF ReadPublic
<1>8. ASSUME NEW r \in Reqs, NEW u \in Users, NEW p \in Polls, NEW t \in Tokens,
             IssueStart(r, u, p, t)
      PROVE  Requests'
  <2>1. Start(r, "has_key", IssueJob(u, p, t))
    BY <1>8 DEF IssueStart, IssueJob
  <2>2. SlotTypes /\ Others(r) /\ pc'[r] = "has_key" /\ job'[r] = IssueJob(u, p, t)
    BY <1>0, <2>1, StartSlot, IssueJobFits DEF Steps, IssueSteps
  <2>3. TypeOK'
    BY <1>0, <1>8, <2>2 DEF IssueStart, TypeOK, SlotTypes
  <2>4. JobFits(r)'
    BY <1>8, <2>2, IssueJobFits DEF IssueStart, JobFits, IssueSteps, CastSteps, KeyedSteps
  <2> QED
    BY <1>8, <2>2, <2>3, <2>4, RequestsCarry DEF IssueStart
<1>9. ASSUME NEW r \in Reqs, ReadPrivate(r) PROVE Requests'
  <2>1. CASE private[job[r].poll] = None
    <3>1. SlotTypes /\ Others(r) /\ pc'[r] = "idle"
      BY <1>0, <1>9, <2>1, FinishSlot DEF ReadPrivate
    <3> QED
      BY <1>0, <1>9, <3>1, RequestsCarry
      DEF ReadPrivate, TypeOK, SlotTypes, JobFits, IssueSteps, CastSteps, KeyedSteps
  <2>2. CASE private[job[r].poll] # None
    <3>1. private[job[r].poll] \in Keys
      BY <1>0, <1>01, <2>2 DEF TypeOK
    <3>2. SlotTypes /\ Others(r) /\ pc'[r] = "entitle" /\ job'[r].kind = job[r].kind
          /\ job'[r].user = job[r].user /\ job'[r].token = job[r].token /\ job'[r].key # None
      BY <1>0, <1>9, <2>2, <3>1, KeySlot DEF ReadPrivate, Steps, IssueSteps
    <3>3. TypeOK'
      BY <1>0, <1>9, <3>2 DEF ReadPrivate, TypeOK, SlotTypes
    <3>4. JobFits(r)'
      BY <1>01, <1>9, <3>2 DEF ReadPrivate, JobFits, IssueSteps, CastSteps, KeyedSteps
    <3> QED
      BY <1>9, <3>2, <3>3, <3>4, RequestsCarry DEF ReadPrivate
  <2> QED
    BY <2>1, <2>2
<1>10. ASSUME NEW r \in Reqs, Entitle(r) PROVE Requests'
  <2>1. CASE Row(r) \in entitled
    <3>1. SlotTypes /\ Others(r) /\ pc'[r] = "idle"
      BY <1>0, <1>10, <2>1, FinishSlot DEF Entitle
    <3> QED
      BY <1>0, <1>10, <2>1, <3>1, RequestsCarry
      DEF Entitle, TypeOK, SlotTypes, JobFits, IssueSteps, CastSteps, KeyedSteps
  <2>2. CASE Row(r) \notin entitled
    <3>1. SlotTypes /\ Others(r) /\ pc'[r] = "sign" /\ job' = job
      BY <1>0, <1>10, <2>2, GotoSlot DEF Entitle, Steps, IssueSteps
    <3>2. job[r].user \in Users /\ standing[job[r].user] # "unverified"
      BY <1>01, <1>10 DEF Entitle, JobFits, IssueSteps
    <3>3. Row(r) \in [poll: Polls, user: Users] /\ Row(r).user = job[r].user
      BY <1>01, <3>2 DEF Row
    <3>4. TypeOK'
      BY <1>0, <1>10, <2>2, <3>1, <3>3 DEF Entitle, TypeOK, SlotTypes
    <3>5. JobsFit'
      BY <1>0, <1>10, <3>1 DEF Entitle, JobsFit, JobFits, Others, IssueSteps, CastSteps, KeyedSteps
    <3>6. IssuedWithinVerified'
      BY <1>0, <1>10, <2>2, <3>2, <3>3 DEF Entitle, IssuedWithinVerified
    <3> QED
      BY <3>4, <3>5, <3>6 DEF Requests
  <2> QED
    BY <2>1, <2>2
<1>11. ASSUME NEW r \in Reqs, Sign(r) PROVE Requests'
  <2>0. SignatureOf(r) \in Signature
    BY <1>01, <1>11 DEF Sign, Respond, SignatureOf, Signature, Job, JobFits, IssueSteps, KeyedSteps
  <2>1. SlotTypes /\ Others(r) /\ pc'[r] = "respond" /\ job' = job
    BY <1>0, <1>01, <1>11, GotoSlot DEF Sign, Steps, IssueSteps, CastSteps
  <2>2. TypeOK'
    BY <1>0, <1>01, <1>11, <2>1, <2>0 DEF Sign, TypeOK, SlotTypes
  <2>3. JobFits(r)'
    BY <1>0, <1>01, <1>02, <1>11, <2>1 DEF Sign, JobFits, IssueSteps, CastSteps, KeyedSteps
  <2> QED
    BY <1>11, <2>1, <2>2, <2>3, RequestsCarry DEF Sign
<1>12. ASSUME NEW r \in Reqs, SignFails(r) PROVE Requests'
  <2>1. SlotTypes /\ Others(r) /\ pc'[r] = "undo" /\ job' = job
    BY <1>0, <1>01, <1>12, GotoSlot DEF SignFails, Steps, IssueSteps, CastSteps
  <2>2. TypeOK'
    BY <1>0, <1>01, <1>12, <2>1 DEF SignFails, TypeOK, SlotTypes
  <2>3. JobFits(r)'
    BY <1>0, <1>01, <1>02, <1>12, <2>1 DEF SignFails, JobFits, IssueSteps, CastSteps, KeyedSteps
  <2> QED
    BY <1>12, <2>1, <2>2, <2>3, RequestsCarry DEF SignFails
<1>13. ASSUME NEW r \in Reqs, DeleteEntitlement(r) PROVE Requests'
  <2>1. SlotTypes /\ Others(r) /\ pc'[r] = "idle"
    BY <1>0, <1>01, <1>13, FinishSlot DEF DeleteEntitlement, Steps, IssueSteps, CastSteps
  <2>2. TypeOK'
    BY <1>0, <1>01, <1>13, <2>1 DEF DeleteEntitlement, TypeOK, SlotTypes
  <2>3. JobFits(r)'
    BY <1>0, <1>01, <1>02, <1>13, <2>1 DEF DeleteEntitlement, JobFits, IssueSteps, CastSteps, KeyedSteps
  <2> QED
    BY <1>13, <2>1, <2>2, <2>3, RequestsCarry DEF DeleteEntitlement
<1>14. ASSUME NEW r \in Reqs, Respond(r) PROVE Requests'
  <2>0. SignatureOf(r) \in Signature
    BY <1>01, <1>14 DEF Sign, Respond, SignatureOf, Signature, Job, JobFits, IssueSteps, KeyedSteps
  <2>1. SlotTypes /\ Others(r) /\ pc'[r] = "idle"
    BY <1>0, <1>01, <1>14, FinishSlot DEF Respond, Steps, IssueSteps, CastSteps
  <2>2. TypeOK'
    BY <1>0, <1>01, <1>14, <2>1, <2>0 DEF Respond, TypeOK, SlotTypes
  <2>3. JobFits(r)'
    BY <1>0, <1>01, <1>02, <1>14, <2>1 DEF Respond, JobFits, IssueSteps, CastSteps, KeyedSteps
  <2> QED
    BY <1>14, <2>1, <2>2, <2>3, RequestsCarry DEF Respond
<1>15. ASSUME NEW r \in Reqs, NEW p \in Polls, NEW t \in Tokens, NEW k \in Keys \union {None},
              NEW body \in Bodies, CastStart(r, p, t, k, body)
       PROVE  Requests'
  <2>1. Start(r, "verify", CastJob(p, t, k, body)) /\ Chosen(p, body) # {}
    BY <1>15 DEF CastStart, CastJob
  <2>2. CastJob(p, t, k, body) \in Job /\ CastJob(p, t, k, body).token = t
    BY <2>1, CastJobFits
  <2>3. SlotTypes /\ Others(r) /\ pc'[r] = "verify" /\ job'[r].token = t
    BY <1>0, <2>1, <2>2, StartSlot DEF Steps, CastSteps
  <2>4. TypeOK'
    BY <1>0, <1>15, <2>3 DEF CastStart, TypeOK, SlotTypes
  <2>5. JobFits(r)'
    BY <2>3 DEF JobFits, IssueSteps, CastSteps, KeyedSteps
  <2> QED
    BY <1>15, <2>3, <2>4, <2>5, RequestsCarry DEF CastStart
<1>16. ASSUME NEW r \in Reqs, VerifyToken(r) PROVE Requests'
  <2>1. CASE public[job[r].poll] = None \/ job[r].key # public[job[r].poll]
    <3>1. SlotTypes /\ Others(r) /\ pc'[r] = "idle"
      BY <1>0, <1>16, <2>1, FinishSlot DEF VerifyToken
    <3> QED
      BY <1>0, <1>16, <3>1, RequestsCarry
      DEF VerifyToken, TypeOK, SlotTypes, JobFits, IssueSteps, CastSteps, KeyedSteps
  <2>2. CASE ~(public[job[r].poll] = None \/ job[r].key # public[job[r].poll])
    <3>1. SlotTypes /\ Others(r) /\ pc'[r] = "lock" /\ job' = job
      BY <1>0, <1>16, <2>2, GotoSlot DEF VerifyToken, Steps, CastSteps
    <3>2. TypeOK'
      BY <1>0, <1>16, <3>1 DEF VerifyToken, TypeOK, SlotTypes
    <3>3. JobFits(r)'
      BY <1>01, <1>16, <2>2, <3>1 DEF VerifyToken, JobFits, IssueSteps, CastSteps, KeyedSteps
    <3> QED
      BY <1>16, <3>1, <3>2, <3>3, RequestsCarry DEF VerifyToken
  <2> QED
    BY <2>1, <2>2
<1>17. ASSUME NEW r \in Reqs, AcquireLock(r) PROVE Requests'
  <2>1. SlotTypes /\ Others(r) /\ pc'[r] = "read_head" /\ job' = job
    BY <1>0, <1>01, <1>17, GotoSlot DEF AcquireLock, Steps, IssueSteps, CastSteps
  <2>2. TypeOK'
    BY <1>0, <1>01, <1>17, <2>1 DEF AcquireLock, TypeOK, SlotTypes
  <2>3. JobFits(r)'
    BY <1>0, <1>01, <1>02, <1>17, <2>1 DEF AcquireLock, JobFits, IssueSteps, CastSteps, KeyedSteps
  <2> QED
    BY <1>17, <2>1, <2>2, <2>3, RequestsCarry DEF AcquireLock
<1>18. ASSUME NEW r \in Reqs, ReadHead(r) PROVE Requests'
  <2>1. SlotTypes /\ Others(r) /\ pc'[r] = "record" /\ job'[r].kind = job[r].kind
        /\ job'[r].key = job[r].key /\ job'[r].token = job[r].token
    BY <1>0, <1>01, <1>18, HeadSlot DEF ReadHead, Steps, IssueSteps, CastSteps
  <2>2. TypeOK'
    BY <1>0, <1>01, <1>18, <2>1 DEF ReadHead, TypeOK, SlotTypes
  <2>3. JobFits(r)'
    BY <1>0, <1>01, <1>02, <1>18, <2>1 DEF ReadHead, JobFits, IssueSteps, CastSteps, KeyedSteps
  <2> QED
    BY <1>18, <2>1, <2>2, <2>3, RequestsCarry DEF ReadHead
<1>19. ASSUME NEW r \in Reqs, Record(r) PROVE Requests'
  <2>01. NewBallot(r) \in Ballot
    BY <1>01, <1>19, NewBallotType DEF Record, JobFits, CastSteps, KeyedSteps
  <2>02. ballots' \in [Polls -> Seq(Ballot)]
    <3>1. ballots[job[r].poll] \in Seq(Ballot)
      BY <1>0, <1>01 DEF TypeOK
    <3>2. Append(ballots[job[r].poll], NewBallot(r)) \in Seq(Ballot)
      BY <2>01, <3>1
    <3> QED
      BY <1>0, <1>01, <1>19, <3>2 DEF Record, TypeOK
  <2>03. lock' \in [Polls -> Reqs \union {None}]
    BY <1>0, <1>19 DEF Record, Release, TypeOK
  <2>1. SlotTypes /\ Others(r) /\ pc'[r] \in {"idle", "failed"}
    BY <1>0, <1>01, <1>19, FinishSlot, GotoSlot DEF Record, Steps, IssueSteps, CastSteps
  <2>2. TypeOK'
    BY <1>0, <1>01, <1>19, <2>1, <2>02, <2>03 DEF Record, TypeOK, SlotTypes
  <2>3. JobFits(r)'
    BY <1>0, <1>01, <1>02, <1>19, <2>1 DEF Record, JobFits, IssueSteps, CastSteps, KeyedSteps
  <2> QED
    BY <1>19, <2>1, <2>2, <2>3, RequestsCarry DEF Record
<1>20. ASSUME NEW r \in Reqs, Fault(r) PROVE Requests'
  <2>1. SlotTypes /\ Others(r) /\ pc'[r] = "idle"
    BY <1>0, <1>01, <1>20, FinishSlot DEF Fault, Abort, DeleteFails, Steps, IssueSteps, CastSteps
  <2>2. TypeOK'
    BY <1>0, <1>01, <1>20, <2>1 DEF Fault, Abort, DeleteFails, TypeOK, SlotTypes
  <2>3. JobFits(r)'
    BY <1>0, <1>01, <1>02, <1>20, <2>1 DEF Fault, Abort, DeleteFails, JobFits, IssueSteps, CastSteps, KeyedSteps
  <2> QED
    BY <1>20, <2>1, <2>2, <2>3, RequestsCarry DEF Fault, Abort, DeleteFails
<1>21. ASSUME UNCHANGED vars PROVE Requests'
  BY <1>0, <1>21 DEF vars, TypeOK, requests, Requests, JobsFit, JobFits, IssuedWithinVerified
<1> QED
  BY <1>1, <1>2, <1>3, <1>4, <1>5, <1>6, <1>7, <1>8, <1>9, <1>10, <1>11, <1>12, <1>13, <1>14,
     <1>15, <1>16, <1>17, <1>18, <1>19, <1>20, <1>21
  DEF Next, Environment, Arrival, Handler, EnsureIssuerKey, IssueToken, CastBallot

(* Type correctness: no interleaving of requests, faults and closings ever *)
(* leaves a table or a request in flight outside its type.                 *)
THEOREM TypeCorrect == Spec => []TypeOK
<1>1. Spec => []Requests
  BY RequestsInit, RequestsStep, PTL DEF Spec
<1>2. Requests => TypeOK
  BY DEF Requests
<1> QED
  BY <1>1, <1>2, PTL

(* The public count of issued tokens never counts an account that was not  *)
(* verified: issue_token's check of the session outlives every later step. *)
THEOREM IssuedToVerified == Spec => []IssuedWithinVerified
<1>1. Spec => []Requests
  BY RequestsInit, RequestsStep, PTL DEF Spec
<1>2. Requests => IssuedWithinVerified
  BY DEF Requests
<1> QED
  BY <1>1, <1>2, PTL

------------------------------------------------------------------------------
(* Second layer: the keys.                                                 *)
KeyLayer == KeysFit /\ ServedKeyStands

KeyCurrent(r) == pc[r] \in KeyedSteps => job[r].key = public[job[r].poll]

(* A step of slot r that generates and stores no key need only keep slot   *)
(* r's own key current and sign with the poll's.                           *)
LEMMA KeysCarry ==
  ASSUME Requests, KeysFit, NEW r \in Reqs, Others(r), UNCHANGED keyRows,
         pc'[r] # "insert_key", KeyCurrent(r)',
         \A s \in signed' : s \in signed \/ s.key = public[s.poll]
  PROVE  KeysFit'
<1> USE DEF keyRows
<1>1. private' = public' /\ \A p, q \in Polls : public'[p] # None /\ public'[p] = public'[q] => p = q
  BY DEF KeysFit
<1>2. \A q \in Reqs : pc'[q] = "insert_key" => q # r /\ pc[q] = "insert_key" /\ job'[q] = job[q]
  BY DEF Others
<1>3. (\A q \in Reqs : At(q, "insert_key") =>
         /\ job[q].key # None
         /\ \A p \in Polls : public[p] # job[q].key
         /\ \A q2 \in Reqs : At(q2, "insert_key") /\ job[q2].key = job[q].key => q2 = q)'
  BY <1>2 DEF KeysFit, At
<1>4. (\A q \in Reqs : pc[q] \in KeyedSteps => job[q].key = public[job[q].poll])'
  BY DEF KeysFit, KeyCurrent, Others, KeyedSteps
<1>5. (\A s \in signed : s.key = public[s.poll])'
  BY DEF KeysFit
<1> QED
  BY <1>1, <1>3, <1>4, <1>5 DEF KeysFit

LEMMA KeysInit == Init => KeyLayer
BY DEF Init, KeyLayer, KeysFit, ServedKeyStands, At, KeyedSteps

LEMMA KeysStep == Requests /\ KeyLayer /\ [Next]_vars => KeyLayer'
<1> SUFFICES ASSUME Requests, KeyLayer, [Next]_vars PROVE KeyLayer'
  OBVIOUS
<1>0. TypeOK /\ JobsFit /\ KeysFit /\ ServedKeyStands
  BY DEF Requests, KeyLayer
<1>01. ASSUME NEW r \in Reqs
       PROVE  job[r] \in Job /\ job[r].poll \in Polls /\ JobFits(r) /\ KeyCurrent(r)
  BY <1>0 DEF TypeOK, Job, JobsFit, KeysFit, KeyCurrent
<1>02. ASSUME UNCHANGED <<public, served>> PROVE ServedKeyStands'
  BY <1>0, <1>02 DEF ServedKeyStands
<1> USE DEF At, keyRows, ledger, clients
<1>1. ASSUME UNCHANGED <<public, private, pc, job, signed, served>> PROVE KeyLayer'
  BY <1>0, <1>1 DEF KeyLayer, KeysFit, ServedKeyStands
<1>2. ASSUME NEW r \in Reqs, HasKey(r) PROVE KeyLayer'
  <2>1. pc'[r] \in {"keygen", AfterKey(r)} /\ Others(r)
    <3>1. PICK step \in {"keygen", AfterKey(r)} : Goto(r, step)
      BY <1>2 DEF HasKey
    <3>2. step \in Steps
      BY DEF AfterKey, Steps, IssueSteps
    <3> QED
      BY <1>0, <3>1, <3>2, GotoSlot
  <2> QED
    BY <1>0, <1>02, <1>2, <2>1, KeysCarry DEF HasKey, AfterKey, KeyCurrent, KeyedSteps, KeyLayer
<1>3. ASSUME NEW r \in Reqs, Keygen(r) PROVE KeyLayer'
  <2>1. PICK k \in FreshKeys : GotoWithKey(r, "insert_key", k)
    BY <1>3 DEF Keygen
  <2>2. k \in Keys /\ k # None /\ (\A p \in Polls : public[p] # k) /\ \A q \in Reqs : job[q].key # k
    BY NoneAssumption DEF FreshKeys
  <2>3. Others(r) /\ pc'[r] = "insert_key" /\ job'[r].key = k
    BY <1>0, <2>1, <2>2, KeySlot DEF Steps, IssueSteps
  <2>4. UNCHANGED <<public, private, signed, served>>
    BY <1>3 DEF Keygen
  <2>5. (\A q \in Reqs : At(q, "insert_key") =>
           /\ job[q].key # None
           /\ \A p \in Polls : public[p] # job[q].key
           /\ \A q2 \in Reqs : At(q2, "insert_key") /\ job[q2].key = job[q].key => q2 = q)'
    BY <1>0, <2>2, <2>3, <2>4 DEF KeysFit, Others
  <2>6. (\A q \in Reqs : pc[q] \in KeyedSteps => job[q].key = public[job[q].poll])'
    BY <1>0, <2>3, <2>4 DEF KeysFit, Others, KeyedSteps
  <2> QED
    BY <1>0, <1>02, <2>4, <2>5, <2>6 DEF KeysFit, KeyLayer
<1>4. ASSUME NEW r \in Reqs, InsertKey(r) PROVE KeyLayer'
  <2> DEFINE p == job[r].poll
  <2>1. job[r].key \in Keys \union {None} /\ p \in Polls
    BY <1>01 DEF Job
  <2>2. Others(r) /\ pc'[r] \in {"read_public", "read_private"}
    <3>1. AfterKey(r) \in {"read_public", "read_private"} /\ AfterKey(r) \in Steps
      BY DEF AfterKey, Steps, IssueSteps
    <3> QED
      BY <1>0, <1>4, <3>1, KeySlot DEF InsertKey
  <2>3. UNCHANGED <<signed, served>>
    BY <1>4 DEF InsertKey
  <2>4. CASE public[p] # None
    <3>1. UNCHANGED <<public, private>>
      BY <1>0, <1>4, <2>1, <2>4 DEF InsertKey, TypeOK
    <3> QED
      BY <1>0, <1>02, <2>2, <2>3, <3>1, KeysCarry DEF KeyCurrent, KeyedSteps, KeyLayer
  <2>5. CASE public[p] = None
    <3>1. public' = [public EXCEPT ![p] = job[r].key] /\ private' = public'
      BY <1>0, <1>4, <2>5 DEF InsertKey, KeysFit
    <3>2. public'[p] = job[r].key /\ \A q \in Polls : q # p => public'[q] = public[q]
      BY <1>0, <2>1, <3>1 DEF TypeOK
    <3>3. job[r].key # None /\ (\A q \in Polls : public[q] # job[r].key)
          /\ \A q \in Reqs : At(q, "insert_key") /\ job[q].key = job[r].key => q = r
      BY <1>0, <1>4 DEF InsertKey, KeysFit
    <3>4. \A q \in Polls : public[q] # None => public'[q] = public[q]
      BY <2>5, <3>2
    <3>5. \A q \in Reqs : pc'[q] = "insert_key" => q # r /\ pc[q] = "insert_key" /\ job'[q] = job[q]
      BY <2>2 DEF Others
    <3>6. (\A q \in Reqs : At(q, "insert_key") =>
             /\ job[q].key # None
             /\ \A o \in Polls : public[o] # job[q].key
             /\ \A q2 \in Reqs : At(q2, "insert_key") /\ job[q2].key = job[q].key => q2 = q)'
      BY <1>0, <3>2, <3>3, <3>5 DEF KeysFit
    <3>7. (\A q \in Reqs : pc[q] \in KeyedSteps => job[q].key = public[job[q].poll])'
      <4> SUFFICES ASSUME NEW q \in Reqs, pc'[q] \in KeyedSteps
                   PROVE  job'[q].key = public'[job'[q].poll]
        OBVIOUS
      <4>1. q # r /\ pc[q] \in KeyedSteps /\ job'[q] = job[q]
        BY <2>2 DEF Others, KeyedSteps
      <4>2. job[q].key # None /\ job[q].key = public[job[q].poll] /\ job[q].poll \in Polls
        BY <1>01, <4>1 DEF JobFits, KeyCurrent
      <4> QED
        BY <3>4, <4>1, <4>2
    <3>8. (\A s \in signed : s.key = public[s.poll])'
      <4> SUFFICES ASSUME NEW s \in signed PROVE s.key = public'[s.poll]
        BY <2>3
      <4>1. s.key \in Keys /\ s.poll \in Polls /\ s.key = public[s.poll]
        BY <1>0 DEF TypeOK, Signature, KeysFit
      <4> QED
        BY <3>4, <4>1, NoneAssumption
    <3>9. (\A o, q \in Polls : public[o] # None /\ public[o] = public[q] => o = q)'
      BY <1>0, <3>2, <3>3 DEF KeysFit
    <3>10. ServedKeyStands'
      <4> SUFFICES ASSUME NEW q \in Polls, NEW k \in served[q] PROVE public'[q] = k
        BY <2>3 DEF ServedKeyStands
      <4>1. k \in Keys /\ public[q] = k
        BY <1>0 DEF TypeOK, ServedKeyStands
      <4> QED
        BY <3>4, <4>1, NoneAssumption
    <3> QED
      BY <3>1, <3>6, <3>7, <3>8, <3>9, <3>10 DEF KeysFit, KeyLayer
  <2> QED
    BY <2>4, <2>5
<1>5. ASSUME NEW r \in Reqs, NEW step \in Steps \ {"insert_key"}, Goto(r, step),
             step \in KeyedSteps => KeyCurrent(r) /\ pc[r] \in KeyedSteps,
             UNCHANGED <<public, private, served>>,
             \A s \in signed' : s \in signed \/ s.key = public[s.poll]
      PROVE  KeyLayer'
  <2>1. Others(r) /\ pc'[r] = step /\ job' = job
    BY <1>0, <1>5, GotoSlot
  <2> QED
    BY <1>0, <1>02, <1>5, <2>1, KeysCarry DEF KeyCurrent, KeyLayer
<1>6. ASSUME NEW r \in Reqs, Finish(r), UNCHANGED <<public, private, signed>> PROVE KeysFit'
  <2>1. Others(r) /\ pc'[r] = "idle"
    BY <1>0, <1>6, FinishSlot
  <2> QED
    BY <1>0, <1>6, <2>1, KeysCarry DEF KeyCurrent, KeyedSteps
<1>7. ASSUME NEW r \in Reqs, NEW step \in {"has_key", "verify"}, NEW j \in Job, Start(r, step, j),
             UNCHANGED <<public, private, signed, served>>
      PROVE  KeyLayer'
  <2>1. Others(r) /\ pc'[r] = step
    BY <1>0, <1>7, StartSlot DEF Steps, IssueSteps, CastSteps
  <2> QED
    BY <1>0, <1>02, <1>7, <2>1, KeysCarry DEF KeyCurrent, KeyedSteps, KeyLayer
<1>8. ASSUME NEW r \in Reqs, Arrival(r) PROVE KeyLayer'
  <2>1. ASSUME NEW u \in Users, NEW p \in Polls, PageStart(r, u, p) PROVE KeyLayer'
    BY <1>7, <2>1, StartJobs DEF PageStart, PageJob
  <2>2. ASSUME NEW u \in Users, NEW p \in Polls, NEW t \in Tokens, IssueStart(r, u, p, t)
        PROVE  KeyLayer'
    BY <1>7, <2>2, IssueJobFits DEF IssueStart, IssueJob
  <2>3. ASSUME NEW p \in Polls, NEW t \in Tokens, NEW k \in Keys \union {None},
               NEW body \in Bodies, CastStart(r, p, t, k, body)
        PROVE  KeyLayer'
    BY <1>7, <2>3, CastJobFits DEF CastStart, CastJob
  <2> QED
    BY <1>8, <2>1, <2>2, <2>3 DEF Arrival
<1>9. ASSUME NEW r \in Reqs, ReadPublic(r) PROVE KeyLayer'
  <2>1. KeysFit'
    BY <1>6, <1>9 DEF ReadPublic
  <2>2. ServedKeyStands'
    BY <1>0, <1>01, <1>9 DEF ReadPublic, ServedKeyStands, TypeOK
  <2> QED
    BY <2>1, <2>2 DEF KeyLayer
<1>10. ASSUME NEW r \in Reqs, ReadPrivate(r) PROVE KeyLayer'
  <2>1. CASE private[job[r].poll] = None
    BY <1>02, <1>6, <1>10, <2>1 DEF ReadPrivate, KeyLayer
  <2>2. CASE private[job[r].poll] # None
    <3>1. private[job[r].poll] \in Keys /\ private = public
      BY <1>0, <1>01, <2>2 DEF TypeOK, KeysFit
    <3>2. Others(r) /\ pc'[r] = "entitle" /\ job'[r].key = public[job[r].poll]
          /\ job'[r].poll = job[r].poll
      BY <1>0, <1>10, <2>2, <3>1, KeySlot DEF ReadPrivate, Steps, IssueSteps
    <3> QED
      BY <1>0, <1>02, <1>10, <3>2, KeysCarry DEF ReadPrivate, KeyCurrent, KeyLayer
  <2> QED
    BY <2>1, <2>2
<1>11. ASSUME NEW r \in Reqs, Entitle(r) PROVE KeyLayer'
  <2>1. CASE Row(r) \in entitled
    BY <1>02, <1>6, <1>11, <2>1 DEF Entitle, KeyLayer
  <2>2. CASE Row(r) \notin entitled
    BY <1>01, <1>5, <1>11, <2>2 DEF Entitle, KeyedSteps, Steps, IssueSteps
  <2> QED
    BY <2>1, <2>2
<1>12. ASSUME NEW r \in Reqs, Sign(r) PROVE KeyLayer'
  <2>1. SignatureOf(r).key = public[SignatureOf(r).poll]
    BY <1>01, <1>12 DEF Sign, SignatureOf, KeyCurrent, KeyedSteps
  <2> QED
    BY <1>01, <1>5, <1>12, <2>1 DEF Sign, KeyedSteps, Steps, IssueSteps
<1>13. ASSUME NEW r \in Reqs, SignFails(r) PROVE KeyLayer'
  BY <1>5, <1>13 DEF SignFails, KeyedSteps, Steps, IssueSteps
<1>14. ASSUME NEW r \in Reqs, DeleteEntitlement(r) \/ Respond(r) \/ Fault(r) PROVE KeyLayer'
  BY <1>02, <1>6, <1>14 DEF DeleteEntitlement, Respond, Fault, Abort, DeleteFails, KeyLayer
<1>15. ASSUME NEW r \in Reqs, VerifyToken(r) PROVE KeyLayer'
  <2>1. CASE public[job[r].poll] = None \/ job[r].key # public[job[r].poll]
    BY <1>02, <1>6, <1>15, <2>1 DEF VerifyToken, KeyLayer
  <2>2. CASE ~(public[job[r].poll] = None \/ job[r].key # public[job[r].poll])
    <3>1. Others(r) /\ pc'[r] = "lock" /\ job' = job
      BY <1>0, <1>15, <2>2, GotoSlot DEF VerifyToken, Steps, CastSteps
    <3> QED
      BY <1>0, <1>02, <1>15, <2>2, <3>1, KeysCarry DEF VerifyToken, KeyCurrent, KeyLayer
  <2> QED
    BY <2>1, <2>2
<1>16. ASSUME NEW r \in Reqs, AcquireLock(r) PROVE KeyLayer'
  BY <1>01, <1>5, <1>16 DEF AcquireLock, KeyedSteps, Steps, CastSteps
<1>17. ASSUME NEW r \in Reqs, ReadHead(r) PROVE KeyLayer'
  <2>1. Others(r) /\ pc'[r] = "record" /\ job'[r].poll = job[r].poll /\ job'[r].key = job[r].key
    BY <1>0, <1>17, HeadSlot
  <2> QED
    BY <1>0, <1>01, <1>02, <1>17, <2>1, KeysCarry DEF ReadHead, KeyCurrent, KeyedSteps, KeyLayer
<1>18. ASSUME NEW r \in Reqs, Record(r) PROVE KeyLayer'
  <2>1. CASE Finish(r)
    BY <1>02, <1>6, <1>18, <2>1 DEF Record, KeyLayer
  <2>2. CASE Goto(r, "failed")
    BY <1>5, <1>18, <2>2 DEF Record, KeyedSteps, Steps
  <2> QED
    BY <1>18, <2>1, <2>2 DEF Record
<1>19. ASSUME Environment PROVE KeyLayer'
  BY <1>1, <1>19 DEF Environment, Verify, Ban, ClosePoll, requests
<1> QED
  BY <1>1, <1>2, <1>3, <1>4, <1>8, <1>9, <1>10, <1>11, <1>12, <1>13, <1>14, <1>15, <1>16, <1>17,
     <1>18, <1>19
  DEF Next, Handler, EnsureIssuerKey, IssueToken, CastBallot, vars, requests

(* The key a page has shown is the poll's for good, whatever requests race *)
(* to generate one.                                                        *)
THEOREM ServedKeyIsThePollsKey == Spec => []ServedKeyStands
<1>1. Spec => [](Requests /\ KeyLayer)
  BY RequestsInit, RequestsStep, KeysInit, KeysStep, PTL DEF Spec
<1>2. Requests /\ KeyLayer => ServedKeyStands
  BY DEF KeyLayer
<1> QED
  BY <1>1, <1>2, PTL

(* A signature that an account spent its only entitlement on verifies      *)
(* under its poll's key for ever, and under no other poll's.               *)
THEOREM SignaturesVerify == Spec => []SignaturesStayValid
<1>1. Spec => [](Requests /\ KeyLayer)
  BY RequestsInit, RequestsStep, KeysInit, KeysStep, PTL DEF Spec
<1>2. Requests /\ KeyLayer => SignaturesStayValid
  <2> SUFFICES ASSUME Requests, KeyLayer, NEW s \in signed, NEW p \in Polls
               PROVE  public[p] = s.key <=> p = s.poll
    BY DEF SignaturesStayValid
  <2>1. s.poll \in Polls /\ s.key \in Keys /\ s.key # None
    BY NoneAssumption DEF Requests, TypeOK, Signature
  <2>2. s.key = public[s.poll]
    BY DEF KeyLayer, KeysFit
  <2> QED
    BY <2>1, <2>2 DEF KeyLayer, KeysFit
<1> QED
  BY <1>1, <1>2, PTL

------------------------------------------------------------------------------
(* Third layer: who owns an entitlement.                                   *)
IssueLayer == EntitlementsOwned /\ OneSignaturePerAccount

LEMMA IssueInit == Init => IssueLayer
BY DEF Init, IssueLayer, EntitlementsOwned, OneSignaturePerAccount, Owns, At

(* A step that leaves the entitlements and signatures alone, and gives     *)
(* slot r nothing to own that it did not own already.                      *)
LEMMA IssueCarry ==
  ASSUME IssueLayer, NEW r \in Reqs, Others(r), UNCHANGED <<entitled, signed, held>>,
         Owns(r)' => Owns(r) /\ job'[r].poll = job[r].poll /\ job'[r].user = job[r].user,
         pc'[r] # "respond"
  PROVE  IssueLayer'
<1>1. \A q \in Reqs : Owns(q)' => Owns(q) /\ Row(q)' = Row(q)
                      /\ job'[q].poll = job[q].poll /\ job'[q].user = job[q].user
  BY DEF Others, Owns, Row
<1>2. \A q \in Reqs : pc'[q] = "respond" => pc[q] = "respond" /\ SignatureOf(q)' = SignatureOf(q)
  BY DEF Others, SignatureOf
<1>3. (\A q \in Reqs : Owns(q) =>
         /\ Row(q) \in entitled
         /\ \A s \in signed : ~(s.poll = job[q].poll /\ s.user = job[q].user)
         /\ \A q2 \in Reqs : Owns(q2) /\ Row(q2) = Row(q) => q2 = q)'
  BY <1>1 DEF IssueLayer, EntitlementsOwned
<1> QED
  BY <1>2, <1>3 DEF IssueLayer, EntitlementsOwned, OneSignaturePerAccount, At

LEMMA IssueStep == Requests /\ IssueLayer /\ [Next]_vars => IssueLayer'
<1> SUFFICES ASSUME Requests, IssueLayer, [Next]_vars PROVE IssueLayer'
  OBVIOUS
<1>0. TypeOK /\ JobsFit /\ EntitlementsOwned /\ OneSignaturePerAccount
  BY DEF Requests, IssueLayer
<1>01. ASSUME NEW r \in Reqs
       PROVE  job[r] \in Job /\ job[r].poll \in Polls /\ JobFits(r)
  BY <1>0 DEF TypeOK, Job, JobsFit
<1> USE DEF At, keyRows, ledger, clients
<1>1. ASSUME UNCHANGED <<entitled, pc, job, signed, held>> PROVE IssueLayer'
  BY <1>0, <1>1 DEF IssueLayer, EntitlementsOwned, OneSignaturePerAccount, Owns, Row, SignatureOf
<1>2. ASSUME NEW r \in Reqs, NEW step \in Steps \ {"sign", "undo", "respond"}, Goto(r, step),
             UNCHANGED <<entitled, signed, held>>
      PROVE  IssueLayer'
  BY <1>0, <1>2, GotoSlot, IssueCarry DEF Owns
<1>3. ASSUME NEW r \in Reqs, Finish(r), UNCHANGED <<entitled, signed, held>> PROVE IssueLayer'
  BY <1>0, <1>3, FinishSlot, IssueCarry DEF Owns
<1>4. ASSUME NEW r \in Reqs, NEW step \in {"has_key", "verify"}, NEW j \in Job, Start(r, step, j),
             UNCHANGED <<entitled, signed, held>>
      PROVE  IssueLayer'
  <2>1. Others(r) /\ pc'[r] = step
    BY <1>0, <1>4, StartSlot DEF Steps, IssueSteps, CastSteps
  <2> QED
    BY <1>4, <2>1, IssueCarry DEF Owns
<1>5. ASSUME NEW r \in Reqs, NEW k \in Keys \union {None},
             NEW step \in Steps \ {"sign", "undo", "respond"}, GotoWithKey(r, step, k),
             UNCHANGED <<entitled, signed, held>>
      PROVE  IssueLayer'
  BY <1>0, <1>5, KeySlot, IssueCarry DEF Owns
<1>6. ASSUME NEW r \in Reqs, Arrival(r) PROVE IssueLayer'
  <2>1. ASSUME NEW u \in Users, NEW p \in Polls, PageStart(r, u, p) PROVE IssueLayer'
    BY <1>4, <2>1, StartJobs DEF PageStart, PageJob
  <2>2. ASSUME NEW u \in Users, NEW p \in Polls, NEW t \in Tokens, IssueStart(r, u, p, t)
        PROVE  IssueLayer'
    BY <1>4, <2>2, IssueJobFits DEF IssueStart, IssueJob
  <2>3. ASSUME NEW p \in Polls, NEW t \in Tokens, NEW k \in Keys \union {None},
               NEW body \in Bodies, CastStart(r, p, t, k, body)
        PROVE  IssueLayer'
    BY <1>4, <2>3, CastJobFits DEF CastStart, CastJob
  <2> QED
    BY <1>6, <2>1, <2>2, <2>3 DEF Arrival
<1>7. ASSUME NEW r \in Reqs, EnsureIssuerKey(r) PROVE IssueLayer'
  <2>1. ASSUME HasKey(r) PROVE IssueLayer'
    BY <1>2, <2>1 DEF HasKey, AfterKey, Steps, IssueSteps
  <2>2. ASSUME Keygen(r) PROVE IssueLayer'
    BY <1>5, <2>2 DEF Keygen, FreshKeys, Steps, IssueSteps
  <2>3. ASSUME InsertKey(r) PROVE IssueLayer'
    BY <1>5, <2>3 DEF InsertKey, AfterKey, Steps, IssueSteps
  <2> QED
    BY <1>7, <2>1, <2>2, <2>3 DEF EnsureIssuerKey
<1>8. ASSUME NEW r \in Reqs, ReadPublic(r) \/ Fault(r) PROVE IssueLayer'
  BY <1>3, <1>8 DEF ReadPublic, Fault, Abort, DeleteFails
<1>9. ASSUME NEW r \in Reqs, ReadPrivate(r) PROVE IssueLayer'
  <2>1. private[job[r].poll] \in Keys \union {None}
    BY <1>0, <1>01 DEF TypeOK
  <2> QED
    BY <1>3, <1>5, <1>9, <2>1 DEF ReadPrivate, Steps, IssueSteps
<1>10. ASSUME NEW r \in Reqs, Entitle(r) PROVE IssueLayer'
  <2>1. CASE Row(r) \in entitled
    BY <1>3, <1>10, <2>1 DEF Entitle
  <2>2. CASE Row(r) \notin entitled
    <3>1. Others(r) /\ pc'[r] = "sign" /\ job' = job
      BY <1>0, <1>10, <2>2, GotoSlot DEF Entitle, Steps, IssueSteps
    <3>2. entitled' = entitled \union {Row(r)} /\ UNCHANGED <<signed, held>>
      BY <1>10, <2>2 DEF Entitle
    <3>3. \A q \in Reqs : Owns(q)' /\ q # r => Owns(q) /\ Row(q) # Row(r)
      BY <1>0, <2>2, <3>1 DEF Others, Owns, EntitlementsOwned
    <3>4. \A q \in Reqs : Row(q)' = Row(q) /\ SignatureOf(q)' = SignatureOf(q)
      BY <3>1 DEF Row, SignatureOf
    <3>5. \A s \in signed : ~(s.poll = job[r].poll /\ s.user = job[r].user)
      BY <1>0, <2>2 DEF EntitlementsOwned, Row
    <3>6. (\A q \in Reqs : Owns(q) =>
             /\ Row(q) \in entitled
             /\ \A s \in signed : ~(s.poll = job[q].poll /\ s.user = job[q].user)
             /\ \A q2 \in Reqs : Owns(q2) /\ Row(q2) = Row(q) => q2 = q)'
      BY <1>0, <3>1, <3>2, <3>3, <3>4, <3>5 DEF EntitlementsOwned
    <3>7. \A q \in Reqs : pc'[q] = "respond" => pc[q] = "respond"
      BY <3>1 DEF Others
    <3> QED
      BY <1>0, <3>2, <3>4, <3>6, <3>7 DEF IssueLayer, EntitlementsOwned, OneSignaturePerAccount
  <2> QED
    BY <2>1, <2>2
<1>11. ASSUME NEW r \in Reqs, Sign(r) PROVE IssueLayer'
  <2>1. Others(r) /\ pc'[r] = "respond" /\ job' = job
    BY <1>0, <1>11, GotoSlot DEF Sign, Steps, IssueSteps
  <2>2. signed' = signed \union {SignatureOf(r)} /\ UNCHANGED <<entitled, held>>
    BY <1>11 DEF Sign
  <2>3. /\ Owns(r) /\ Row(r) \in entitled
        /\ \A s \in signed : ~(s.poll = job[r].poll /\ s.user = job[r].user)
        /\ \A q \in Reqs : Owns(q) /\ Row(q) = Row(r) => q = r
    BY <1>0, <1>11 DEF Sign, Owns, EntitlementsOwned
  <2>4. SignatureOf(r).poll = job[r].poll /\ SignatureOf(r).user = job[r].user
    BY DEF SignatureOf
  <2>5. \A q \in Reqs : Owns(q)' => q # r /\ Owns(q)
    BY <2>1 DEF Others, Owns
  <2>6. \A q \in Reqs : Row(q)' = Row(q) /\ SignatureOf(q)' = SignatureOf(q)
    BY <2>1 DEF Row, SignatureOf
  <2>7. \A q \in Reqs : Owns(q)' => ~(job[r].poll = job[q].poll /\ job[r].user = job[q].user)
    BY <2>3, <2>5 DEF Row
  <2>8. (\A q \in Reqs : Owns(q) =>
           /\ Row(q) \in entitled
           /\ \A s \in signed : ~(s.poll = job[q].poll /\ s.user = job[q].user)
           /\ \A q2 \in Reqs : Owns(q2) /\ Row(q2) = Row(q) => q2 = q)'
    BY <1>0, <2>1, <2>2, <2>4, <2>5, <2>6, <2>7 DEF EntitlementsOwned
  <2>9. (\A q \in Reqs : At(q, "respond") => SignatureOf(q) \in signed)'
    BY <1>0, <2>1, <2>2, <2>6 DEF EntitlementsOwned, Others
  <2>10. (\A s \in signed : [poll |-> s.poll, user |-> s.user] \in entitled)' /\ (held \subseteq signed)'
    BY <1>0, <2>2, <2>3, <2>4 DEF EntitlementsOwned, Row
  <2>11. OneSignaturePerAccount'
    BY <1>0, <2>2, <2>3, <2>4 DEF OneSignaturePerAccount
  <2> QED
    BY <2>8, <2>9, <2>10, <2>11 DEF IssueLayer, EntitlementsOwned
<1>12. ASSUME NEW r \in Reqs, SignFails(r) PROVE IssueLayer'
  <2>1. Others(r) /\ pc'[r] = "undo" /\ job' = job
    BY <1>0, <1>12, GotoSlot DEF SignFails, Steps, IssueSteps
  <2> QED
    BY <1>12, <2>1, IssueCarry DEF SignFails, Owns
<1>13. ASSUME NEW r \in Reqs, DeleteEntitlement(r) PROVE IssueLayer'
  <2>1. Others(r) /\ pc'[r] = "idle"
    BY <1>0, <1>13, FinishSlot DEF DeleteEntitlement
  <2>2. entitled' = entitled \ {Row(r)} /\ UNCHANGED <<signed, held>>
    BY <1>13 DEF DeleteEntitlement
  <2>3. /\ \A s \in signed : ~(s.poll = job[r].poll /\ s.user = job[r].user)
        /\ \A q \in Reqs : Owns(q) /\ Row(q) = Row(r) => q = r
    BY <1>0, <1>13 DEF DeleteEntitlement, Owns, EntitlementsOwned
  <2>4. \A q \in Reqs : Owns(q)' => q # r /\ Owns(q) /\ Row(q)' = Row(q) /\ Row(q) # Row(r)
                        /\ job'[q] = job[q]
    BY <2>1, <2>3 DEF Others, Owns, Row
  <2>5. (\A q \in Reqs : Owns(q) =>
           /\ Row(q) \in entitled
           /\ \A s \in signed : ~(s.poll = job[q].poll /\ s.user = job[q].user)
           /\ \A q2 \in Reqs : Owns(q2) /\ Row(q2) = Row(q) => q2 = q)'
    BY <1>0, <2>2, <2>4 DEF EntitlementsOwned
  <2>6. (\A q \in Reqs : At(q, "respond") => SignatureOf(q) \in signed)'
    BY <1>0, <2>1, <2>2 DEF EntitlementsOwned, Others, SignatureOf
  <2>7. (\A s \in signed : [poll |-> s.poll, user |-> s.user] \in entitled)' /\ (held \subseteq signed)'
    BY <1>0, <2>2, <2>3 DEF EntitlementsOwned, Row
  <2>8. OneSignaturePerAccount'
    BY <1>0, <2>2 DEF OneSignaturePerAccount
  <2> QED
    BY <2>5, <2>6, <2>7, <2>8 DEF IssueLayer, EntitlementsOwned
<1>14. ASSUME NEW r \in Reqs, Respond(r) PROVE IssueLayer'
  <2>1. Others(r) /\ pc'[r] = "idle"
    BY <1>0, <1>14, FinishSlot DEF Respond
  <2>2. held' = held \union {SignatureOf(r)} /\ UNCHANGED <<entitled, signed>> /\ SignatureOf(r) \in signed
    BY <1>0, <1>14 DEF Respond, EntitlementsOwned
  <2>3. \A q \in Reqs : Owns(q)' => Owns(q) /\ Row(q)' = Row(q) /\ job'[q] = job[q]
    BY <2>1 DEF Others, Owns, Row
  <2>4. (\A q \in Reqs : Owns(q) =>
           /\ Row(q) \in entitled
           /\ \A s \in signed : ~(s.poll = job[q].poll /\ s.user = job[q].user)
           /\ \A q2 \in Reqs : Owns(q2) /\ Row(q2) = Row(q) => q2 = q)'
    BY <1>0, <2>2, <2>3 DEF EntitlementsOwned
  <2>5. (\A q \in Reqs : At(q, "respond") => SignatureOf(q) \in signed)'
    BY <1>0, <2>1, <2>2 DEF EntitlementsOwned, Others, SignatureOf
  <2> QED
    BY <1>0, <2>2, <2>4, <2>5 DEF IssueLayer, EntitlementsOwned, OneSignaturePerAccount
<1>15. ASSUME NEW r \in Reqs, CastBallot(r) PROVE IssueLayer'
  <2>1. ASSUME VerifyToken(r) PROVE IssueLayer'
    BY <1>2, <1>3, <2>1 DEF VerifyToken, Steps, CastSteps
  <2>2. ASSUME AcquireLock(r) PROVE IssueLayer'
    BY <1>2, <2>2 DEF AcquireLock, Steps, CastSteps
  <2>3. ASSUME ReadHead(r) PROVE IssueLayer'
    BY <1>0, <2>3, HeadSlot, IssueCarry DEF ReadHead, Owns
  <2>4. ASSUME Record(r) PROVE IssueLayer'
    BY <1>2, <1>3, <2>4 DEF Record, Steps
  <2> QED
    BY <1>15, <2>1, <2>2, <2>3, <2>4 DEF CastBallot
<1>16. ASSUME Environment PROVE IssueLayer'
  BY <1>1, <1>16 DEF Environment, Verify, Ban, ClosePoll, requests
<1> QED
  BY <1>1, <1>6, <1>7, <1>8, <1>9, <1>10, <1>11, <1>12, <1>13, <1>14, <1>15, <1>16
  DEF Next, Handler, IssueToken, vars, requests

(* The one-signature gate: however requests, refused signatures, deletions *)
(* and dropped connections interleave, no account ever gets two signatures *)
(* for one poll.                                                           *)
THEOREM OneSignature == Spec => []OneSignaturePerAccount
<1>1. Spec => [](Requests /\ IssueLayer)
  BY RequestsInit, RequestsStep, IssueInit, IssueStep, PTL DEF Spec
<1>2. Requests /\ IssueLayer => OneSignaturePerAccount
  BY DEF IssueLayer
<1> QED
  BY <1>1, <1>2, PTL

------------------------------------------------------------------------------
(* What became of an entitlement: by itself inductive, as every step of an *)
(* owner either signs, gives back, or still owns.                          *)
LEMMA BurntCarry ==
  ASSUME NoEntitlementBurnt, NEW r \in Reqs, Others(r), UNCHANGED <<entitled, signed>>,
         Owns(r) => Owns(r)' /\ Row(r)' = Row(r)
  PROVE  NoEntitlementBurnt'
<1>1. \A q \in Reqs : Owns(q) => Owns(q)' /\ Row(q)' = Row(q)
  BY DEF Others, Owns, Row
<1> QED
  BY <1>1 DEF NoEntitlementBurnt

LEMMA BurntInit == Init => NoEntitlementBurnt
BY DEF Init, NoEntitlementBurnt

LEMMA BurntStep == Requests /\ NoEntitlementBurnt /\ [Next]_vars => NoEntitlementBurnt'
<1> SUFFICES ASSUME Requests, NoEntitlementBurnt, [Next]_vars PROVE NoEntitlementBurnt'
  OBVIOUS
<1>0. TypeOK
  BY DEF Requests
<1>01. ASSUME NEW r \in Reqs PROVE job[r].poll \in Polls
  BY <1>0 DEF TypeOK, Job
<1> USE DEF At, keyRows, ledger, clients
<1>1. ASSUME UNCHANGED <<entitled, pc, job, signed>> PROVE NoEntitlementBurnt'
  BY <1>1 DEF NoEntitlementBurnt, Owns, Row
<1>2. ASSUME NEW r \in Reqs, ~Owns(r), Others(r), UNCHANGED <<entitled, signed>>
      PROVE  NoEntitlementBurnt'
  BY <1>2, BurntCarry
<1>3. ASSUME NEW r \in Reqs, Arrival(r) PROVE NoEntitlementBurnt'
  <2>1. ASSUME NEW step \in Steps, NEW j \in Job, Start(r, step, j), UNCHANGED <<entitled, signed>>
        PROVE  NoEntitlementBurnt'
    BY <1>0, <1>2, <2>1, StartSlot DEF Owns
  <2>2. ASSUME NEW u \in Users, NEW p \in Polls, PageStart(r, u, p) PROVE NoEntitlementBurnt'
    BY <2>1, <2>2, StartJobs DEF PageStart, PageJob, Steps, IssueSteps
  <2>3. ASSUME NEW u \in Users, NEW p \in Polls, NEW t \in Tokens, IssueStart(r, u, p, t)
        PROVE  NoEntitlementBurnt'
    BY <2>1, <2>3, IssueJobFits DEF IssueStart, IssueJob, Steps, IssueSteps
  <2>4. ASSUME NEW p \in Polls, NEW t \in Tokens, NEW k \in Keys \union {None},
               NEW body \in Bodies, CastStart(r, p, t, k, body)
        PROVE  NoEntitlementBurnt'
    BY <2>1, <2>4, CastJobFits DEF CastStart, CastJob, Steps, CastSteps
  <2> QED
    BY <1>3, <2>2, <2>3, <2>4 DEF Arrival
<1>4. ASSUME NEW r \in Reqs, NEW step \in Steps, Goto(r, step), ~Owns(r), UNCHANGED <<entitled, signed>>
      PROVE  NoEntitlementBurnt'
  BY <1>0, <1>2, <1>4, GotoSlot
<1>5. ASSUME NEW r \in Reqs, NEW k \in Keys \union {None}, NEW step \in Steps, GotoWithKey(r, step, k),
             ~Owns(r), UNCHANGED <<entitled, signed>>
      PROVE  NoEntitlementBurnt'
  BY <1>0, <1>2, <1>5, KeySlot
<1>6. ASSUME NEW r \in Reqs, Finish(r), ~Owns(r), UNCHANGED <<entitled, signed>>
      PROVE  NoEntitlementBurnt'
  BY <1>0, <1>2, <1>6, FinishSlot
<1>7. ASSUME NEW r \in Reqs, EnsureIssuerKey(r) PROVE NoEntitlementBurnt'
  <2>1. ASSUME HasKey(r) PROVE NoEntitlementBurnt'
    BY <1>4, <2>1 DEF HasKey, AfterKey, Steps, IssueSteps, Owns
  <2>2. ASSUME Keygen(r) PROVE NoEntitlementBurnt'
    BY <1>5, <2>2 DEF Keygen, FreshKeys, Steps, IssueSteps, Owns
  <2>3. ASSUME InsertKey(r) PROVE NoEntitlementBurnt'
    BY <1>5, <2>3 DEF InsertKey, AfterKey, Steps, IssueSteps, Owns
  <2> QED
    BY <1>7, <2>1, <2>2, <2>3 DEF EnsureIssuerKey
<1>8. ASSUME NEW r \in Reqs, ReadPublic(r) PROVE NoEntitlementBurnt'
  BY <1>6, <1>8 DEF ReadPublic, Owns
<1>9. ASSUME NEW r \in Reqs, ReadPrivate(r) PROVE NoEntitlementBurnt'
  <2>1. private[job[r].poll] \in Keys \union {None}
    BY <1>0, <1>01 DEF TypeOK
  <2> QED
    BY <1>5, <1>6, <1>9, <2>1 DEF ReadPrivate, Steps, IssueSteps, Owns
<1>10. ASSUME NEW r \in Reqs, Entitle(r) PROVE NoEntitlementBurnt'
  <2>1. CASE Row(r) \in entitled
    BY <1>6, <1>10, <2>1 DEF Entitle, Owns
  <2>2. CASE Row(r) \notin entitled
    <3>1. Others(r) /\ pc'[r] = "sign" /\ job' = job
      BY <1>0, <1>10, <2>2, GotoSlot DEF Entitle, Steps, IssueSteps
    <3>2. entitled' = entitled \union {Row(r)} /\ UNCHANGED signed
      BY <1>10, <2>2 DEF Entitle
    <3>3. \A q \in Reqs : (Owns(q) \/ q = r => Owns(q)') /\ Row(q)' = Row(q)
      BY <3>1 DEF Others, Owns, Row
    <3> QED
      BY <3>2, <3>3 DEF NoEntitlementBurnt
  <2> QED
    BY <2>1, <2>2
<1>11. ASSUME NEW r \in Reqs, Sign(r) PROVE NoEntitlementBurnt'
  <2>1. Others(r) /\ job' = job
    BY <1>0, <1>11, GotoSlot DEF Sign, Steps, IssueSteps
  <2>2. signed' = signed \union {SignatureOf(r)} /\ UNCHANGED entitled
    BY <1>11 DEF Sign
  <2>3. \A q \in Reqs : q # r /\ Owns(q) => Owns(q)' /\ Row(q)' = Row(q)
    BY <2>1 DEF Others, Owns, Row
  <2>4. SignatureOf(r).poll = Row(r).poll /\ SignatureOf(r).user = Row(r).user
    BY DEF SignatureOf, Row
  <2> QED
    BY <2>2, <2>3, <2>4 DEF NoEntitlementBurnt
<1>12. ASSUME NEW r \in Reqs, SignFails(r) PROVE NoEntitlementBurnt'
  <2>1. Others(r) /\ pc'[r] = "undo" /\ job' = job
    BY <1>0, <1>12, GotoSlot DEF SignFails, Steps, IssueSteps
  <2> QED
    BY <1>12, <2>1, BurntCarry DEF SignFails, Owns, Row
<1>13. ASSUME NEW r \in Reqs, DeleteEntitlement(r) PROVE NoEntitlementBurnt'
  <2>1. Others(r)
    BY <1>0, <1>13, FinishSlot DEF DeleteEntitlement
  <2>2. entitled' = entitled \ {Row(r)} /\ UNCHANGED signed
    BY <1>13 DEF DeleteEntitlement
  <2>3. \A q \in Reqs : q # r /\ Owns(q) => Owns(q)' /\ Row(q)' = Row(q)
    BY <2>1 DEF Others, Owns, Row
  <2> QED
    BY <2>2, <2>3 DEF NoEntitlementBurnt
<1>14. ASSUME NEW r \in Reqs, Respond(r) PROVE NoEntitlementBurnt'
  BY <1>6, <1>14 DEF Respond, Owns
<1>15. ASSUME NEW r \in Reqs, CastBallot(r) PROVE NoEntitlementBurnt'
  <2>1. ASSUME VerifyToken(r) PROVE NoEntitlementBurnt'
    BY <1>4, <1>6, <2>1 DEF VerifyToken, Steps, CastSteps, Owns
  <2>2. ASSUME AcquireLock(r) PROVE NoEntitlementBurnt'
    BY <1>4, <2>2 DEF AcquireLock, Steps, CastSteps, Owns
  <2>3. ASSUME ReadHead(r) PROVE NoEntitlementBurnt'
    BY <1>0, <1>2, <2>3, HeadSlot DEF ReadHead, Owns
  <2>4. ASSUME Record(r) PROVE NoEntitlementBurnt'
    BY <1>4, <1>6, <2>4 DEF Record, Steps, Owns
  <2> QED
    BY <1>15, <2>1, <2>2, <2>3, <2>4 DEF CastBallot
<1>16. ASSUME Environment PROVE NoEntitlementBurnt'
  BY <1>1, <1>16 DEF Environment, Verify, Ban, ClosePoll, requests
<1>17. ASSUME NEW r \in Reqs, Fault(r) PROVE NoEntitlementBurnt'
  BY <1>17 DEF Fault, Abort, DeleteFails, NoEntitlementBurnt
<1> QED
  BY <1>1, <1>3, <1>7, <1>8, <1>9, <1>10, <1>11, <1>12, <1>13, <1>14, <1>15, <1>16, <1>17
  DEF Next, Handler, IssueToken, vars, requests

(* Where no connection drops and no statement fails, an entitlement is     *)
(* never burnt: however requests interleave, and also when the library     *)
(* refuses a blinded message, it is signed for, given back or still owned  *)
(* by the request that recorded it (issue_token, pages/votes.rs).          *)
THEOREM EntitlementsNotBurnt == Spec => []NoEntitlementBurnt
<1>1. Spec => []Requests
  BY RequestsInit, RequestsStep, PTL DEF Spec
<1> QED
  BY <1>1, BurntInit, BurntStep, PTL DEF Spec

------------------------------------------------------------------------------
(* The casting side, on top of the layers so far: what a cast presents,    *)
(* what the advisory lock protects, the bound on spent tokens, and the     *)
(* refinement of BallotBox.                                                *)
(* The layers proved so far, as one fact.                                  *)
Issued == Requests /\ KeyLayer /\ IssueLayer

LEMMA IssuedInvariant == Spec => []Issued
<1>1. Init => Issued
  BY RequestsInit, KeysInit, IssueInit DEF Issued
<1>2. Issued /\ [Next]_vars => Issued'
  BY RequestsStep, KeysStep, IssueStep DEF Issued
<1> QED
  BY <1>1, <1>2, PTL DEF Spec

------------------------------------------------------------------------------
(* Appending to a chain.                                                   *)
Appends(r) == ballots' = [ballots EXCEPT ![job[r].poll] = Append(@, NewBallot(r))]

LEMMA AppendedRows ==
  ASSUME TypeOK, NEW r \in Reqs, job[r].poll \in Polls, Appends(r),
         NEW p \in Polls, NEW i \in DOMAIN ballots'[p]
  PROVE  \/ i \in DOMAIN ballots[p] /\ ballots'[p][i] = ballots[p][i]
         \/ /\ p = job[r].poll /\ i = Len(ballots[p]) + 1 /\ i \notin DOMAIN ballots[p]
            /\ ballots'[p][i] = NewBallot(r)
<1>1. ballots[p] \in Seq(Ballot) /\ ballots \in [Polls -> Seq(Ballot)]
  BY DEF TypeOK
<1>2. CASE p = job[r].poll
  <2>1. ballots'[p] = Append(ballots[p], NewBallot(r))
    BY <1>1, <1>2 DEF Appends
  <2> QED
    BY <1>1, <1>2, <2>1
<1>3. CASE p # job[r].poll
  BY <1>1, <1>3 DEF Appends
<1> QED
  BY <1>2, <1>3

LEMMA KeptRows ==
  ASSUME TypeOK, NEW r \in Reqs, job[r].poll \in Polls, Appends(r), NEW p \in Polls
  PROVE  /\ \A i \in DOMAIN ballots[p] : i \in DOMAIN ballots'[p] /\ ballots'[p][i] = ballots[p][i]
         /\ p # job[r].poll => ballots'[p] = ballots[p]
<1>1. ballots[p] \in Seq(Ballot) /\ ballots \in [Polls -> Seq(Ballot)]
  BY DEF TypeOK
<1>2. CASE p = job[r].poll
  <2>1. ballots'[p] = Append(ballots[p], NewBallot(r))
    BY <1>1, <1>2 DEF Appends
  <2> QED
    BY <1>1, <1>2, <2>1
<1>3. CASE p # job[r].poll
  BY <1>1, <1>3 DEF Appends
<1> QED
  BY <1>2, <1>3

------------------------------------------------------------------------------
(* Fourth layer: what a cast presents.                                     *)
CastLayer == CastsBacked /\ BallotsAuthentic

Backed(r) ==
  pc[r] \in CastSteps /\ job[r].key # None =>
    \E s \in signed : s.token = job[r].token /\ s.key = job[r].key

LEMMA CastsInit == Init => CastLayer
BY DEF Init, CastLayer, CastsBacked, BallotsAuthentic, CastSteps

LEMMA BackedCarry ==
  ASSUME CastsBacked, NEW r \in Reqs, Others(r), signed \subseteq signed', Backed(r)'
  PROVE  CastsBacked'
BY DEF CastsBacked, Others, Backed

LEMMA AuthenticCarry ==
  ASSUME BallotsAuthentic, UNCHANGED ballots, signed \subseteq signed'
  PROVE  BallotsAuthentic'
BY DEF BallotsAuthentic

(* A cast past the signature check presents a signature for its own poll.  *)
LEMMA CastBacked ==
  ASSUME Issued, CastsBacked, NEW r \in Reqs, pc[r] \in CastSteps \ {"verify"}
  PROVE  \E s \in signed : s.token = job[r].token /\ s.poll = job[r].poll
<1>1. job[r].key # None /\ job[r].key = public[job[r].poll] /\ job[r].poll \in Polls
  BY DEF Issued, Requests, KeyLayer, KeysFit, JobsFit, JobFits, TypeOK, Job, CastSteps, KeyedSteps
<1>2. PICK s \in signed : s.token = job[r].token /\ s.key = job[r].key
  BY <1>1 DEF CastsBacked
<1>3. s.key = public[s.poll] /\ s.poll \in Polls
  BY DEF Issued, Requests, KeyLayer, KeysFit, TypeOK, Signature
<1> QED
  BY <1>1, <1>2, <1>3 DEF Issued, KeyLayer, KeysFit

LEMMA CastsStep == Issued /\ CastLayer /\ [Next]_vars => CastLayer'
<1> SUFFICES ASSUME Issued, CastLayer, [Next]_vars PROVE CastLayer'
  OBVIOUS
<1>0. Requests /\ TypeOK /\ CastsBacked /\ BallotsAuthentic /\ held \subseteq signed
  BY DEF Issued, Requests, CastLayer, IssueLayer, EntitlementsOwned
<1>01. ASSUME NEW r \in Reqs PROVE job[r] \in Job /\ job[r].poll \in Polls /\ Backed(r)
  BY <1>0 DEF TypeOK, Job, CastsBacked, Backed
<1> USE DEF At, keyRows, ledger, clients
<1>1. ASSUME UNCHANGED <<pc, job, signed, ballots>> PROVE CastLayer'
  BY <1>0, <1>1 DEF CastLayer, CastsBacked, BallotsAuthentic
<1>2. ASSUME NEW r \in Reqs, Others(r), UNCHANGED ballots, signed \subseteq signed', Backed(r)'
      PROVE  CastLayer'
  BY <1>0, <1>2, BackedCarry, AuthenticCarry DEF CastLayer
<1>3. ASSUME NEW r \in Reqs, NEW step \in Steps, Goto(r, step),
             step \in CastSteps => pc[r] \in CastSteps,
             UNCHANGED ballots, signed \subseteq signed'
      PROVE  CastLayer'
  <2>1. Others(r) /\ pc'[r] = step /\ job' = job
    BY <1>0, <1>3, GotoSlot
  <2>2. Backed(r)'
    BY <1>01, <1>3, <2>1 DEF Backed
  <2> QED
    BY <1>2, <1>3, <2>1, <2>2
<1>4. ASSUME NEW r \in Reqs, Finish(r), UNCHANGED <<signed, ballots>> PROVE CastLayer'
  <2>1. Others(r) /\ pc'[r] = "idle"
    BY <1>0, <1>4, FinishSlot
  <2> QED
    BY <1>2, <1>4, <2>1 DEF Backed, CastSteps
<1>5. ASSUME NEW r \in Reqs, NEW j \in Job, Start(r, "has_key", j), UNCHANGED <<signed, ballots>>
      PROVE  CastLayer'
  <2>1. Others(r) /\ pc'[r] = "has_key"
    BY <1>0, <1>5, StartSlot DEF Steps, IssueSteps
  <2> QED
    BY <1>2, <1>5, <2>1 DEF Backed, CastSteps
<1>6. ASSUME NEW r \in Reqs, NEW k \in Keys \union {None}, NEW step \in Steps \ CastSteps,
             GotoWithKey(r, step, k), UNCHANGED <<signed, ballots>>
      PROVE  CastLayer'
  <2>1. Others(r) /\ pc'[r] = step
    BY <1>0, <1>6, KeySlot
  <2> QED
    BY <1>2, <1>6, <2>1 DEF Backed
<1>7. ASSUME NEW r \in Reqs, Arrival(r) PROVE CastLayer'
  <2>1. ASSUME NEW u \in Users, NEW p \in Polls, PageStart(r, u, p) PROVE CastLayer'
    BY <1>5, <2>1, StartJobs DEF PageStart, PageJob
  <2>2. ASSUME NEW u \in Users, NEW p \in Polls, NEW t \in Tokens, IssueStart(r, u, p, t)
        PROVE  CastLayer'
    BY <1>5, <2>2, IssueJobFits DEF IssueStart, IssueJob
  <2>3. ASSUME NEW p \in Polls, NEW t \in Tokens, NEW k \in Keys \union {None},
               NEW body \in Bodies, CastStart(r, p, t, k, body)
        PROVE  CastLayer'
    <3>0. Start(r, "verify", CastJob(p, t, k, body)) /\ Chosen(p, body) # {}
      BY <2>3 DEF CastStart, CastJob
    <3>1. Others(r) /\ pc'[r] = "verify" /\ job'[r].token = t /\ job'[r].key = k
      <4>1. /\ CastJob(p, t, k, body) \in Job
            /\ CastJob(p, t, k, body).token = t /\ CastJob(p, t, k, body).key = k
        BY <3>0, CastJobFits
      <4> QED
        BY <1>0, <3>0, <4>1, StartSlot DEF Steps, CastSteps
    <3>2. Backed(r)'
      BY <1>0, <2>3, <3>1 DEF CastStart, Backed
    <3> QED
      BY <1>2, <2>3, <3>1, <3>2 DEF CastStart
  <2> QED
    BY <1>7, <2>1, <2>2, <2>3 DEF Arrival
<1>8. ASSUME NEW r \in Reqs, EnsureIssuerKey(r) PROVE CastLayer'
  <2>1. ASSUME HasKey(r) PROVE CastLayer'
    BY <1>3, <2>1 DEF HasKey, AfterKey, Steps, IssueSteps, CastSteps
  <2>2. ASSUME Keygen(r) PROVE CastLayer'
    BY <1>6, <2>2 DEF Keygen, FreshKeys, Steps, IssueSteps, CastSteps
  <2>3. ASSUME InsertKey(r) PROVE CastLayer'
    <3>1. job[r].key \in Keys \union {None}
      BY <1>01 DEF Job
    <3> QED
      BY <1>6, <2>3, <3>1 DEF InsertKey, AfterKey, Steps, IssueSteps, CastSteps
  <2> QED
    BY <1>8, <2>1, <2>2, <2>3 DEF EnsureIssuerKey
<1>9. ASSUME NEW r \in Reqs, ReadPublic(r) \/ Fault(r) PROVE CastLayer'
  BY <1>4, <1>9 DEF ReadPublic, Fault, Abort, DeleteFails
<1>10. ASSUME NEW r \in Reqs, IssueToken(r) PROVE CastLayer'
  <2>1. ASSUME ReadPrivate(r) PROVE CastLayer'
    <3>1. private[job[r].poll] \in Keys \union {None}
      BY <1>0, <1>01 DEF TypeOK
    <3> QED
      BY <1>4, <1>6, <2>1, <3>1 DEF ReadPrivate, Steps, IssueSteps, CastSteps
  <2>2. ASSUME Entitle(r) PROVE CastLayer'
    BY <1>3, <1>4, <2>2 DEF Entitle, Steps, IssueSteps, CastSteps
  <2>3. ASSUME Sign(r) \/ SignFails(r) PROVE CastLayer'
    BY <1>3, <2>3 DEF Sign, SignFails, Steps, IssueSteps, CastSteps
  <2>4. ASSUME DeleteEntitlement(r) \/ Respond(r) PROVE CastLayer'
    BY <1>4, <2>4 DEF DeleteEntitlement, Respond
  <2> QED
    BY <1>10, <2>1, <2>2, <2>3, <2>4 DEF IssueToken
<1>11. ASSUME NEW r \in Reqs, VerifyToken(r) \/ AcquireLock(r) PROVE CastLayer'
  BY <1>3, <1>4, <1>11 DEF VerifyToken, AcquireLock, Steps, CastSteps
<1>12. ASSUME NEW r \in Reqs, ReadHead(r) PROVE CastLayer'
  <2>1. Others(r) /\ pc'[r] = "record" /\ job'[r].token = job[r].token /\ job'[r].key = job[r].key
    BY <1>0, <1>12, HeadSlot
  <2>2. Backed(r)'
    BY <1>01, <1>12, <2>1 DEF ReadHead, Backed, CastSteps
  <2> QED
    BY <1>2, <1>12, <2>1, <2>2 DEF ReadHead
<1>13. ASSUME NEW r \in Reqs, Record(r) PROVE CastLayer'
  <2>1. CASE Finish(r) /\ UNCHANGED ballots
    BY <1>4, <1>13, <2>1 DEF Record
  <2>2. CASE Goto(r, "failed") /\ UNCHANGED ballots
    BY <1>3, <1>13, <2>2 DEF Record, Steps, CastSteps
  <2>3. CASE Finish(r) /\ Appends(r)
    <3>1. Others(r) /\ pc'[r] = "idle" /\ UNCHANGED signed
      BY <1>0, <1>13, <2>3, FinishSlot DEF Record
    <3>2. CastsBacked'
      BY <1>0, <3>1, BackedCarry DEF Backed, CastSteps
    <3>3. PICK s \in signed : s.token = job[r].token /\ s.poll = job[r].poll
      BY <1>0, <1>13, CastBacked DEF Record, CastSteps
    <3>4. BallotsAuthentic'
      <4> SUFFICES ASSUME NEW p \in Polls, NEW i \in DOMAIN ballots'[p]
                   PROVE  \E x \in signed : x.poll = p /\ x.token = ballots'[p][i].token
        BY <3>1 DEF BallotsAuthentic
      <4>1. NewBallot(r).token = job[r].token
        BY DEF NewBallot
      <4>2. CASE i \in DOMAIN ballots[p] /\ ballots'[p][i] = ballots[p][i]
        BY <1>0, <4>2 DEF BallotsAuthentic
      <4>3. CASE p = job[r].poll /\ ballots'[p][i] = NewBallot(r)
        BY <3>3, <4>1, <4>3
      <4> QED
        BY <1>0, <1>01, <2>3, <4>2, <4>3, AppendedRows
    <3> QED
      BY <3>2, <3>4 DEF CastLayer
  <2> QED
    BY <1>13, <2>1, <2>2, <2>3 DEF Record, Appends
<1>14. ASSUME Environment PROVE CastLayer'
  BY <1>1, <1>14 DEF Environment, Verify, Ban, ClosePoll, requests
<1> QED
  BY <1>1, <1>7, <1>8, <1>9, <1>10, <1>11, <1>12, <1>13, <1>14
  DEF Next, Handler, CastBallot, vars, requests

(* Ballot stuffing is impossible: every ballot in a poll's chain spends a  *)
(* signature that was issued for that very poll.                           *)
THEOREM EveryBallotAuthentic == Spec => []BallotsAuthentic
<1>1. Spec => []Issued
  BY IssuedInvariant
<1>2. Spec /\ []Issued => []CastLayer
  BY CastsInit, CastsStep, PTL DEF Spec
<1>3. CastLayer => BallotsAuthentic
  BY DEF CastLayer
<1> QED
  BY <1>1, <1>2, <1>3, PTL

------------------------------------------------------------------------------
(* Fifth layer: what the lock protects.                                    *)
ChainLayer ==
  /\ LockFits /\ ChainLinear /\ OneBallotPerToken
  /\ CastChoiceFits /\ ChoicesFit /\ NoCastFails

ChoiceAt(r) == pc[r] \in CastSteps => Fits(job[r].poll, job[r].choice)

HeadKnown(r) ==
  At(r, "record") => job[r].seq = HeadSeq(job[r].poll) + 1 /\ job[r].prev = HeadHash(job[r].poll)

LockedBy(r) == \A p \in Polls : lock[p] = r <=> InLock(r) /\ job[r].poll = p

LEMMA ChainInit == Init => ChainLayer
BY NoneAssumption
DEF Init, ChainLayer, LockFits, ChainLinear, OneBallotPerToken, CastChoiceFits, ChoicesFit,
    NoCastFails, InLock, At, CastSteps

(* The head of a linear chain is its length.                               *)
LEMMA HeadIsLast ==
  ASSUME TypeOK, ChainLinear, NEW p \in Polls
  PROVE  /\ HeadSeq(p) = Len(ballots[p])
         /\ HeadHash(p) = IF Len(ballots[p]) = 0 THEN BallotGenesis(p)
                          ELSE ballots[p][Len(ballots[p])].content
<1>1. ballots[p] \in Seq(Ballot)
  BY DEF TypeOK
<1> QED
  BY <1>1 DEF HeadSeq, HeadHash, ChainLinear

(* A step of slot r that records nothing need only look at slot r's lock.  *)
LEMMA ChainCarry ==
  ASSUME ChainLayer, NEW r \in Reqs, Others(r), UNCHANGED ballots,
         LockedBy(r)', \A p \in Polls, q \in Reqs : q # r => (lock'[p] = q <=> lock[p] = q),
         HeadKnown(r)', ChoiceAt(r)', pc'[r] # "failed"
  PROVE  ChainLayer'
<1>1. (\A p \in Polls, q \in Reqs : lock[p] = q <=> InLock(q) /\ job[q].poll = p)'
  BY DEF ChainLayer, LockFits, LockedBy, Others, InLock
<1>2. (\A q \in Reqs : HeadKnown(q))'
  BY DEF ChainLayer, LockFits, HeadKnown, Others, At, HeadSeq, HeadHash
<1>3. CastChoiceFits' /\ NoCastFails'
  BY DEF ChainLayer, CastChoiceFits, ChoiceAt, Fits, NoCastFails, Others
<1>4. ChainLinear' /\ OneBallotPerToken' /\ ChoicesFit'
  BY DEF ChainLayer, ChainLinear, OneBallotPerToken, ChoicesFit, Fits
<1> QED
  BY <1>1, <1>2, <1>3, <1>4 DEF ChainLayer, LockFits, HeadKnown

(* The seq a cast computed from the head it read is free when it records.  *)
LEMMA SeqFree ==
  ASSUME TypeOK, ChainLayer, NEW r \in Reqs, At(r, "record"), job[r].poll \in Polls
  PROVE  ~SeqTaken(job[r].poll, job[r].seq)
<1> DEFINE p == job[r].poll
<1>1. ballots[p] \in Seq(Ballot)
  BY DEF TypeOK
<1>2. job[r].seq = Len(ballots[p]) + 1
  BY HeadIsLast DEF ChainLayer, LockFits
<1>3. \A i \in DOMAIN ballots[p] : ballots[p][i].seq = i
  BY DEF ChainLayer, ChainLinear
<1> QED
  BY <1>1, <1>2, <1>3 DEF SeqTaken

LEMMA RecordAppends ==
  ASSUME TypeOK, ChainLayer, NEW r \in Reqs, job[r].poll \in Polls, At(r, "record"),
         ~TokenSpent(job[r].poll, job[r].token), Appends(r)
  PROVE  ChainLinear' /\ OneBallotPerToken' /\ ChoicesFit'
<1> DEFINE p == job[r].poll
           n == Len(ballots[p])
<1>1. ballots[p] \in Seq(Ballot) /\ n \in Nat
  BY DEF TypeOK
<1>2. /\ job[r].seq = n + 1
      /\ job[r].prev = IF n = 0 THEN BallotGenesis(p) ELSE ballots[p][n].content
  BY HeadIsLast DEF ChainLayer, LockFits
<1>3. /\ NewBallot(r).token = job[r].token /\ NewBallot(r).choice = job[r].choice
      /\ NewBallot(r).seq = job[r].seq /\ NewBallot(r).prev = job[r].prev
      /\ NewBallot(r).content = BallotHash(job[r].prev, job[r].token, job[r].choice, job[r].seq)
  BY DEF NewBallot
<1> HIDE DEF n
<1>4. ChainLinear'
  <2> SUFFICES ASSUME NEW q \in Polls, NEW i \in DOMAIN ballots'[q]
               PROVE  /\ ballots'[q][i].seq = i
                      /\ ballots'[q][i].prev = IF i = 1 THEN BallotGenesis(q)
                                               ELSE ballots'[q][i - 1].content
                      /\ ballots'[q][i].content
                           = BallotHash(ballots'[q][i].prev, ballots'[q][i].token,
                                        ballots'[q][i].choice, ballots'[q][i].seq)
    BY DEF ChainLinear
  <2>1. CASE i \in DOMAIN ballots[q] /\ ballots'[q][i] = ballots[q][i]
    <3>1. ballots[q] \in Seq(Ballot)
      BY DEF TypeOK
    <3>2. i # 1 => i - 1 \in DOMAIN ballots[q]
      BY <2>1, <3>1
    <3>3. i # 1 => ballots'[q][i - 1] = ballots[q][i - 1]
      BY <3>2, KeptRows
    <3> QED
      BY <2>1, <3>3 DEF ChainLayer, ChainLinear
  <2>2. CASE q = p /\ i = n + 1 /\ ballots'[q][i] = NewBallot(r)
    <3>1. i # 1 => n \in DOMAIN ballots[p] /\ i - 1 = n
      BY <1>1, <2>2 DEF n
    <3>2. i # 1 => ballots'[p][n] = ballots[p][n]
      BY <3>1, KeptRows
    <3>3. i = 1 <=> n = 0
      BY <1>1, <2>2
    <3> QED
      BY <1>2, <1>3, <2>2, <3>1, <3>2, <3>3
  <2> QED
    BY <2>1, <2>2, AppendedRows DEF n
<1>5. OneBallotPerToken'
  <2> SUFFICES ASSUME NEW q \in Polls, NEW i \in DOMAIN ballots'[q], NEW j \in DOMAIN ballots'[q],
                      ballots'[q][i].token = ballots'[q][j].token
               PROVE  i = j
    BY DEF OneBallotPerToken
  <2>1. \A k \in DOMAIN ballots[p] : ballots[p][k].token # job[r].token
    BY DEF TokenSpent
  <2>2. \A k \in DOMAIN ballots'[q] :
           \/ k \in DOMAIN ballots[q] /\ ballots'[q][k] = ballots[q][k]
           \/ q = p /\ k = n + 1 /\ ballots'[q][k] = NewBallot(r)
    BY AppendedRows DEF n
  <2>3. \A k, m \in DOMAIN ballots[q] : ballots[q][k].token = ballots[q][m].token => k = m
    BY DEF ChainLayer, OneBallotPerToken
  <2>4. CASE i \in DOMAIN ballots[q] /\ j \in DOMAIN ballots[q]
             /\ ballots'[q][i] = ballots[q][i] /\ ballots'[q][j] = ballots[q][j]
    BY <2>3, <2>4
  <2>5. CASE q = p /\ i = n + 1 /\ j = n + 1
    BY <2>5
  <2>6. CASE q = p /\ ballots'[q][i] = NewBallot(r)
             /\ j \in DOMAIN ballots[q] /\ ballots'[q][j] = ballots[q][j]
    BY <1>3, <2>1, <2>6
  <2>7. CASE q = p /\ ballots'[q][j] = NewBallot(r)
             /\ i \in DOMAIN ballots[q] /\ ballots'[q][i] = ballots[q][i]
    BY <1>3, <2>1, <2>7
  <2> QED
    BY <2>2, <2>4, <2>5, <2>6, <2>7
<1>6. ChoicesFit'
  <2> SUFFICES ASSUME NEW q \in Polls, NEW i \in DOMAIN ballots'[q]
               PROVE  Fits(q, ballots'[q][i].choice)
    BY DEF ChoicesFit, Fits
  <2>1. Fits(p, job[r].choice)
    BY DEF ChainLayer, CastChoiceFits, At, CastSteps
  <2>2. CASE i \in DOMAIN ballots[q] /\ ballots'[q][i] = ballots[q][i]
    BY <2>2 DEF ChainLayer, ChoicesFit
  <2>3. CASE q = p /\ ballots'[q][i] = NewBallot(r)
    BY <1>3, <2>1, <2>3
  <2> QED
    BY <2>2, <2>3, AppendedRows
<1> QED
  BY <1>4, <1>5, <1>6

LEMMA ChainStep == Issued /\ ChainLayer /\ [Next]_vars => ChainLayer'
<1> SUFFICES ASSUME Issued, ChainLayer, [Next]_vars PROVE ChainLayer'
  OBVIOUS
<1>0. Requests /\ TypeOK /\ LockFits
  BY DEF Issued, Requests, ChainLayer
<1>01. ASSUME NEW r \in Reqs
       PROVE  /\ job[r] \in Job /\ job[r].poll \in Polls /\ pc[r] # "failed"
              /\ LockedBy(r) /\ HeadKnown(r) /\ ChoiceAt(r) /\ r # None
  BY <1>0, NoneAssumption
  DEF TypeOK, Job, ChainLayer, LockFits, LockedBy, HeadKnown, CastChoiceFits, ChoiceAt, NoCastFails
<1> USE DEF At, keyRows, ledger, clients
<1>1. ASSUME UNCHANGED <<pc, job, ballots, lock>> PROVE ChainLayer'
  BY <1>1
  DEF ChainLayer, LockFits, ChainLinear, OneBallotPerToken, CastChoiceFits, ChoicesFit, Fits,
      NoCastFails, InLock, HeadSeq, HeadHash
<1>2. ASSUME NEW r \in Reqs, Others(r), UNCHANGED <<ballots, lock>>, ~InLock(r), ~InLock(r)',
             pc'[r] # "failed", ChoiceAt(r)'
      PROVE  ChainLayer'
  <2>1. LockedBy(r)' /\ HeadKnown(r)'
    BY <1>01, <1>2 DEF LockedBy, HeadKnown, InLock
  <2> QED
    BY <1>2, <2>1, ChainCarry
<1>3. ASSUME NEW r \in Reqs, NEW step \in Steps, Goto(r, step), UNCHANGED <<ballots, lock>>,
             ~InLock(r), step \notin {"read_head", "record", "failed"},
             step \in CastSteps => pc[r] \in CastSteps
      PROVE  ChainLayer'
  <2>1. Others(r) /\ pc'[r] = step /\ job' = job
    BY <1>0, <1>3, GotoSlot
  <2>2. ChoiceAt(r)' /\ ~InLock(r)'
    BY <1>01, <1>3, <2>1 DEF ChoiceAt, Fits, InLock
  <2> QED
    BY <1>2, <1>3, <2>1, <2>2
<1>4. ASSUME NEW r \in Reqs, Finish(r), UNCHANGED <<ballots, lock>>, ~InLock(r) PROVE ChainLayer'
  <2>1. Others(r) /\ pc'[r] = "idle"
    BY <1>0, <1>4, FinishSlot
  <2>2. ChoiceAt(r)' /\ ~InLock(r)'
    BY <2>1 DEF ChoiceAt, CastSteps, InLock
  <2> QED
    BY <1>2, <1>4, <2>1, <2>2
<1>5. ASSUME NEW r \in Reqs, NEW j \in Job, Start(r, "has_key", j), UNCHANGED <<ballots, lock>>
      PROVE  ChainLayer'
  <2>1. Others(r) /\ pc[r] = "idle" /\ pc'[r] = "has_key"
    BY <1>0, <1>5, StartSlot DEF Steps, IssueSteps
  <2>2. ChoiceAt(r)' /\ ~InLock(r)' /\ ~InLock(r)
    BY <2>1 DEF ChoiceAt, CastSteps, InLock
  <2> QED
    BY <1>2, <1>5, <2>1, <2>2
<1>6. ASSUME NEW r \in Reqs, NEW k \in Keys \union {None},
             NEW step \in IssueSteps, GotoWithKey(r, step, k), ~InLock(r), UNCHANGED <<ballots, lock>>
      PROVE  ChainLayer'
  <2>1. Others(r) /\ pc'[r] = step
    BY <1>0, <1>6, KeySlot DEF Steps
  <2>2. ChoiceAt(r)' /\ ~InLock(r)' /\ step # "failed"
    BY <2>1 DEF ChoiceAt, CastSteps, IssueSteps, InLock
  <2> QED
    BY <1>2, <1>6, <2>1, <2>2
<1>7. ASSUME NEW r \in Reqs, Arrival(r) PROVE ChainLayer'
  <2>1. ASSUME NEW u \in Users, NEW p \in Polls, PageStart(r, u, p) PROVE ChainLayer'
    BY <1>5, <2>1, StartJobs DEF PageStart, PageJob
  <2>2. ASSUME NEW u \in Users, NEW p \in Polls, NEW t \in Tokens, IssueStart(r, u, p, t)
        PROVE  ChainLayer'
    BY <1>5, <2>2, IssueJobFits DEF IssueStart, IssueJob
  <2>3. ASSUME NEW p \in Polls, NEW t \in Tokens, NEW k \in Keys \union {None},
               NEW body \in Bodies, CastStart(r, p, t, k, body)
        PROVE  ChainLayer'
    <3>1. Start(r, "verify", CastJob(p, t, k, body)) /\ Chosen(p, body) # {}
      BY <2>3 DEF CastStart, CastJob
    <3>2. /\ CastJob(p, t, k, body) \in Job /\ CastJob(p, t, k, body).poll = p
          /\ CastJob(p, t, k, body).choice = Chosen(p, body)
      BY <3>1, CastJobFits
    <3>3. Others(r) /\ pc[r] = "idle" /\ pc'[r] = "verify" /\ job'[r] = CastJob(p, t, k, body)
      BY <1>0, <3>1, <3>2, StartSlot DEF Steps, CastSteps
    <3>4. Fits(p, Chosen(p, body))
      BY <3>1, ChosenFits
    <3>5. ChoiceAt(r)' /\ ~InLock(r)' /\ ~InLock(r)
      BY <3>2, <3>3, <3>4 DEF ChoiceAt, InLock
    <3> QED
      BY <1>2, <2>3, <3>3, <3>5 DEF CastStart
  <2> QED
    BY <1>7, <2>1, <2>2, <2>3 DEF Arrival
<1>8. ASSUME NEW r \in Reqs, EnsureIssuerKey(r) PROVE ChainLayer'
  <2>1. ASSUME HasKey(r) PROVE ChainLayer'
    BY <1>3, <2>1 DEF HasKey, AfterKey, Steps, IssueSteps, CastSteps, InLock
  <2>2. ASSUME Keygen(r) PROVE ChainLayer'
    BY <1>6, <2>2 DEF Keygen, FreshKeys, IssueSteps, InLock
  <2>3. ASSUME InsertKey(r) PROVE ChainLayer'
    <3>1. job[r].key \in Keys \union {None}
      BY <1>01 DEF Job
    <3> QED
      BY <1>6, <2>3, <3>1 DEF InsertKey, AfterKey, IssueSteps, InLock
  <2> QED
    BY <1>8, <2>1, <2>2, <2>3 DEF EnsureIssuerKey
<1>9. ASSUME NEW r \in Reqs, ReadPublic(r) \/ DeleteFails(r) PROVE ChainLayer'
  BY <1>4, <1>9 DEF ReadPublic, DeleteFails, InLock
<1>10. ASSUME NEW r \in Reqs, IssueToken(r) PROVE ChainLayer'
  <2>1. ASSUME ReadPrivate(r) PROVE ChainLayer'
    <3>1. private[job[r].poll] \in Keys \union {None}
      BY <1>0, <1>01 DEF TypeOK
    <3> QED
      BY <1>4, <1>6, <2>1, <3>1 DEF ReadPrivate, IssueSteps, InLock
  <2>2. ASSUME Entitle(r) PROVE ChainLayer'
    BY <1>3, <1>4, <2>2 DEF Entitle, Steps, IssueSteps, CastSteps, InLock
  <2>3. ASSUME Sign(r) \/ SignFails(r) PROVE ChainLayer'
    BY <1>3, <2>3 DEF Sign, SignFails, Steps, IssueSteps, CastSteps, InLock
  <2>4. ASSUME DeleteEntitlement(r) \/ Respond(r) PROVE ChainLayer'
    BY <1>4, <2>4 DEF DeleteEntitlement, Respond, InLock
  <2> QED
    BY <1>10, <2>1, <2>2, <2>3, <2>4 DEF IssueToken
<1>11. ASSUME NEW r \in Reqs, VerifyToken(r) PROVE ChainLayer'
  BY <1>3, <1>4, <1>11 DEF VerifyToken, Steps, CastSteps, InLock
<1>12. ASSUME NEW r \in Reqs, AcquireLock(r) PROVE ChainLayer'
  <2>1. Others(r) /\ pc'[r] = "read_head" /\ job' = job
    BY <1>0, <1>12, GotoSlot DEF AcquireLock, Steps, CastSteps
  <2>2. lock' = [lock EXCEPT ![job[r].poll] = r] /\ lock[job[r].poll] = None /\ UNCHANGED ballots
    BY <1>12 DEF AcquireLock
  <2>3. LockedBy(r)'
    BY <1>0, <1>01, <1>12, <2>1, <2>2 DEF AcquireLock, LockedBy, InLock, TypeOK
  <2>4. \A p \in Polls, q \in Reqs : q # r => (lock'[p] = q <=> lock[p] = q)
    BY <1>0, <1>01, <2>2 DEF TypeOK
  <2>5. HeadKnown(r)' /\ ChoiceAt(r)'
    BY <1>01, <1>12, <2>1 DEF AcquireLock, HeadKnown, ChoiceAt, Fits, CastSteps
  <2> QED
    BY <2>1, <2>2, <2>3, <2>4, <2>5, ChainCarry
<1>13. ASSUME NEW r \in Reqs, ReadHead(r) PROVE ChainLayer'
  <2>1. /\ Others(r) /\ pc'[r] = "record"
        /\ job'[r].seq = HeadSeq(job[r].poll) + 1 /\ job'[r].prev = HeadHash(job[r].poll)
        /\ job'[r].poll = job[r].poll /\ job'[r].choice = job[r].choice
    BY <1>0, <1>13, HeadSlot
  <2>2. UNCHANGED <<ballots, lock>> /\ pc[r] = "read_head"
    BY <1>13 DEF ReadHead
  <2>3. LockedBy(r)' /\ ChoiceAt(r)'
    BY <1>01, <2>1, <2>2 DEF LockedBy, InLock, ChoiceAt, Fits, CastSteps
  <2>4. HeadKnown(r)'
    BY <2>1, <2>2 DEF HeadKnown, HeadSeq, HeadHash
  <2> QED
    BY <2>1, <2>2, <2>3, <2>4, ChainCarry
<1>14. ASSUME NEW r \in Reqs, Record(r) PROVE ChainLayer'
  <2> DEFINE p == job[r].poll
  <2>0. pc[r] = "record" /\ lock' = [lock EXCEPT ![p] = None] /\ InLock(r)
    BY <1>14 DEF Record, Release, InLock
  <2>1. ~SeqTaken(p, job[r].seq)
    BY <1>0, <1>01, <2>0, SeqFree
  <2>2. Finish(r)
    BY <1>14, <2>1 DEF Record
  <2>3. Others(r) /\ pc'[r] = "idle"
    BY <1>0, <2>2, FinishSlot
  <2>4. LockedBy(r)'
    BY <1>0, <1>01, <2>0, <2>3 DEF LockedBy, InLock, TypeOK
  <2>5. lock[p] = r
    BY <1>01, <2>0 DEF LockedBy
  <2>6. \A o \in Polls, q \in Reqs : q # r => (lock'[o] = q <=> lock[o] = q)
    BY <1>0, <1>01, <2>0, <2>5 DEF TypeOK
  <2>7. HeadKnown(r)' /\ ChoiceAt(r)'
    BY <2>3 DEF HeadKnown, ChoiceAt, CastSteps
  <2>8. CASE UNCHANGED ballots
    BY <2>3, <2>4, <2>6, <2>7, <2>8, ChainCarry
  <2>9. CASE ~TokenSpent(p, job[r].token) /\ Appends(r)
    <3>1. ChainLinear' /\ OneBallotPerToken' /\ ChoicesFit'
      BY <1>0, <1>01, <2>0, <2>9, RecordAppends
    <3>2. \A q \in Reqs : q # r /\ pc[q] = "record" => ballots'[job[q].poll] = ballots[job[q].poll]
      <4> SUFFICES ASSUME NEW q \in Reqs, q # r, pc[q] = "record"
                   PROVE  ballots'[job[q].poll] = ballots[job[q].poll]
        OBVIOUS
      <4>1. lock[job[q].poll] = q
        BY <1>01 DEF LockedBy, InLock
      <4>2. job[q].poll # p /\ job[q].poll \in Polls
        BY <1>01, <2>5, <4>1
      <4> QED
        BY <1>0, <1>01, <2>9, <4>2, KeptRows
    <3>3. (\A q \in Reqs : HeadKnown(q))'
      BY <1>01, <2>3, <2>7, <3>2 DEF HeadKnown, Others, HeadSeq, HeadHash
    <3>4. (\A o \in Polls, q \in Reqs : lock[o] = q <=> InLock(q) /\ job[q].poll = o)'
      BY <1>01, <2>3, <2>4, <2>6 DEF LockedBy, Others, InLock
    <3>5. CastChoiceFits' /\ NoCastFails'
      BY <1>01, <2>3, <2>7 DEF ChoiceAt, Fits, CastChoiceFits, NoCastFails, Others
    <3> QED
      BY <3>1, <3>3, <3>4, <3>5 DEF ChainLayer, LockFits, HeadKnown
  <2> QED
    BY <1>14, <2>1, <2>8, <2>9 DEF Record, Appends
<1>15. ASSUME NEW r \in Reqs, Abort(r) PROVE ChainLayer'
  <2>1. Others(r) /\ pc'[r] = "idle"
    BY <1>0, <1>15, FinishSlot DEF Abort
  <2>2. lock' = [p \in Polls |-> IF lock[p] = r THEN None ELSE lock[p]] /\ UNCHANGED ballots
    BY <1>15 DEF Abort
  <2>3. LockedBy(r)' /\ HeadKnown(r)' /\ ChoiceAt(r)'
    BY <1>01, <2>1, <2>2 DEF LockedBy, InLock, HeadKnown, ChoiceAt, CastSteps
  <2>4. \A p \in Polls, q \in Reqs : q # r => (lock'[p] = q <=> lock[p] = q)
    BY <1>01, <2>2
  <2> QED
    BY <2>1, <2>2, <2>3, <2>4, ChainCarry
<1>16. ASSUME Environment PROVE ChainLayer'
  BY <1>1, <1>16 DEF Environment, Verify, Ban, ClosePoll, requests
<1> QED
  BY <1>1, <1>7, <1>8, <1>9, <1>10, <1>11, <1>12, <1>13, <1>14, <1>15, <1>16
  DEF Next, Handler, Fault, CastBallot, vars, requests

(* The full inductive invariant of the voting component holds in every     *)
(* reachable state.                                                        *)
THEOREM InvariantHolds == Spec => []IInv
<1>1. Spec => []Issued
  BY IssuedInvariant
<1>2. Spec /\ []Issued => [](CastLayer /\ ChainLayer)
  BY CastsInit, CastsStep, ChainInit, ChainStep, PTL DEF Spec
<1>3. Issued /\ CastLayer /\ ChainLayer => IInv
  BY DEF Issued, Requests, KeyLayer, IssueLayer, CastLayer, ChainLayer, IInv
<1> QED
  BY <1>1, <1>2, <1>3, PTL

(* A replayed token changes nothing: no poll's chain holds it twice, also  *)
(* when several requests with it were past the signature check at once.    *)
THEOREM NoDoubleVote == Spec => []OneBallotPerToken
<1>1. IInv => OneBallotPerToken
  BY DEF IInv
<1> QED
  BY <1>1, InvariantHolds, PTL

(* The published chain stays linear and gap-free, each hash covering       *)
(* exactly the ballots up to it, whatever casts race.                      *)
THEOREM ChainStaysLinear == Spec => []ChainLinear
<1>1. IInv => ChainLinear
  BY DEF IInv
<1> QED
  BY <1>1, InvariantHolds, PTL

(* The advisory lock does its job: no cast runs into unique (poll_id, seq).*)
THEOREM CastsNeverCollide == Spec => []NoCastFails
<1>1. IInv => NoCastFails
  BY DEF IInv
<1> QED
  BY <1>1, InvariantHolds, PTL

------------------------------------------------------------------------------
(* The bound on spent tokens.                                              *)

(* Only finitely many entitlements exist at any time.                      *)
EntitledFinite == IsFiniteSet(entitled)

LEMMA FiniteStep == EntitledFinite /\ [Next]_vars => EntitledFinite'
<1> SUFFICES ASSUME IsFiniteSet(entitled), [Next]_vars PROVE IsFiniteSet(entitled')
  BY DEF EntitledFinite
<1>1. ASSUME NEW r \in Reqs, entitled' = entitled \union {Row(r)} PROVE IsFiniteSet(entitled')
  BY <1>1, FS_AddElement
<1>2. ASSUME entitled' \subseteq entitled PROVE IsFiniteSet(entitled')
  BY <1>2, FS_Subset
<1>3. \/ entitled' \subseteq entitled
      \/ \E r \in Reqs : entitled' = entitled \union {Row(r)}
  <2>1. ASSUME NEW r \in Reqs, Arrival(r) \/ Fault(r) \/ CastBallot(r) \/ EnsureIssuerKey(r)
                                \/ ReadPublic(r)
        PROVE  entitled' = entitled
    BY <2>1
    DEF Arrival, PageStart, IssueStart, CastStart, Fault, Abort, DeleteFails, CastBallot,
        VerifyToken, AcquireLock, ReadHead, Record, EnsureIssuerKey, HasKey, Keygen, InsertKey,
        ReadPublic
  <2>2. ASSUME NEW r \in Reqs, IssueToken(r)
        PROVE  entitled' \subseteq entitled \/ entitled' = entitled \union {Row(r)}
    BY <2>2 DEF IssueToken, ReadPrivate, Entitle, Sign, SignFails, DeleteEntitlement, Respond
  <2>3. ASSUME Environment \/ UNCHANGED vars PROVE entitled' = entitled
    BY <2>3 DEF Environment, Verify, Ban, ClosePoll, vars
  <2> QED
    BY <2>1, <2>2, <2>3 DEF Next, Handler
<1> QED
  BY <1>1, <1>2, <1>3

LEMMA FiniteEntitlements == Spec => []EntitledFinite
<1>1. Init => EntitledFinite
  BY FS_EmptySet DEF Init, EntitledFinite
<1> QED
  BY <1>1, FiniteStep, PTL DEF Spec

(* Each ballot of a poll is charged to an entitlement of its own: that of  *)
(* the account whose signature it spends.                                  *)
LEMMA BallotsCharged ==
  ASSUME IInv, IsFiniteSet(entitled), NEW p \in Polls
  PROVE  Len(ballots[p]) <= Cardinality({e \in entitled : e.poll = p})
<1> DEFINE E == {e \in entitled : e.poll = p}
           D == DOMAIN ballots[p]
           Spends(i) == CHOOSE s \in signed : s.poll = p /\ s.token = ballots[p][i].token
           f == [i \in D |-> [poll |-> p, user |-> Spends(i).user]]
<1>1. ballots[p] \in Seq(Ballot) /\ D = 1..Len(ballots[p]) /\ Len(ballots[p]) \in Nat
  BY DEF IInv, TypeOK
<1>2. ASSUME NEW i \in D
      PROVE  Spends(i) \in signed /\ Spends(i).poll = p /\ Spends(i).token = ballots[p][i].token
  BY DEF IInv, BallotsAuthentic
<1>3. ASSUME NEW i \in D PROVE f[i] \in E
  BY <1>2 DEF IInv, EntitlementsOwned
<1>4. ASSUME NEW i \in D, NEW j \in D, f[i] = f[j] PROVE i = j
  <2>1. Spends(i).user = Spends(j).user
    BY <1>4
  <2>2. Spends(i) = Spends(j)
    BY <1>2, <2>1 DEF IInv, OneSignaturePerAccount
  <2> QED
    BY <1>2, <2>2 DEF IInv, OneBallotPerToken
<1>5. f \in Injection(D, E)
  <2> HIDE DEF Spends, E
  <2>1. f \in [D -> E]
    BY <1>3
  <2> HIDE DEF f
  <2> QED
    BY <1>4, <2>1 DEF Injection, IsInjective
<1>6. IsFiniteSet(E) /\ E \subseteq entitled
  BY FS_Subset
<1> HIDE DEF f, E
<1>7. Cardinality(D) <= Cardinality(E)
  BY <1>5, <1>6, FS_Injection
<1>8. Cardinality(D) = Len(ballots[p])
  BY <1>1, FS_Interval
<1> QED
  BY <1>7, <1>8 DEF E

(* The reconciliation table's bound: a poll never counts more spent tokens *)
(* than issued ones.                                                       *)
THEOREM SpentBounded == Spec => []SpentWithinIssued
<1>1. IInv /\ EntitledFinite => SpentWithinIssued
  BY BallotsCharged DEF SpentWithinIssued, EntitledFinite
<1> QED
  BY <1>1, InvariantHolds, FiniteEntitlements, PTL

------------------------------------------------------------------------------
(* The refinement of BallotBox.                                            *)
TicketOf(s) == [poll |-> s.poll, user |-> s.user, token |-> s.token]
SlipOf(b) == [token |-> b.token, choice |-> b.choice]

LEMMA SignGivesTicket ==
  ASSUME IInv, NEW r \in Reqs, Sign(r)
  PROVE  Box!Next
<1>1. job[r].poll \in Polls /\ job[r].user \in Users /\ job[r].token \in Tokens
  BY DEF IInv, TypeOK, Job, JobsFit, JobFits, Sign, At, IssueSteps
<1>2. PICK p \in Polls, u \in Users, t \in Tokens :
        p = job[r].poll /\ u = job[r].user /\ t = job[r].token
  BY <1>1
<1>3. \A s \in signed : ~(s.poll = p /\ s.user = u)
  BY <1>2 DEF IInv, EntitlementsOwned, Sign, Owns, At
<1>4. ~Box!HasTicket(p, u)
  BY <1>3 DEF Box!HasTicket
<1>5. /\ signed' = signed \union {SignatureOf(r)} /\ UNCHANGED ballots
      /\ [poll |-> SignatureOf(r).poll, user |-> SignatureOf(r).user, token |-> SignatureOf(r).token]
           = [poll |-> p, user |-> u, token |-> t]
  BY <1>2 DEF Sign, SignatureOf, ledger
<1>6. Box!GiveTicket(p, u, t)
  BY <1>4, <1>5 DEF Box!GiveTicket
<1> QED
  BY <1>6 DEF Box!Next

(* Mapping a chain to its slips commutes with appending.                   *)
LEMMA SlipsAppend ==
  ASSUME NEW s \in Seq(Ballot), NEW b \in Ballot
  PROVE  [i \in DOMAIN Append(s, b) |-> [token |-> Append(s, b)[i].token, choice |-> Append(s, b)[i].choice]]
           = Append([i \in DOMAIN s |-> [token |-> s[i].token, choice |-> s[i].choice]],
                    [token |-> b.token, choice |-> b.choice])
<1> DEFINE Slip == [token: Tokens, choice: SUBSET OptionIds]
           m == [i \in DOMAIN s |-> [token |-> s[i].token, choice |-> s[i].choice]]
           e == [token |-> b.token, choice |-> b.choice]
           n == Len(s)
           left == [i \in DOMAIN Append(s, b) |->
                      [token |-> Append(s, b)[i].token, choice |-> Append(s, b)[i].choice]]
<1>1. n \in Nat /\ DOMAIN s = 1..n /\ \A i \in 1..n : s[i] \in Ballot
  OBVIOUS
<1>2. m \in Seq(Slip) /\ Len(m) = n /\ e \in Slip
  BY <1>1 DEF Ballot
<1>3. /\ DOMAIN Append(s, b) = 1..(n + 1)
      /\ \A i \in 1..n : Append(s, b)[i] = s[i]
      /\ Append(s, b)[n + 1] = b
  BY <1>1
<1>4. left = [i \in 1..(n + 1) |-> IF i = n + 1 THEN e ELSE m[i]]
  BY <1>1, <1>3
<1> HIDE DEF m, e, n, left
<1>5. Append(m, e) = [i \in 1..(n + 1) |-> IF i = n + 1 THEN e ELSE m[i]]
  <2> HIDE DEF Slip
  <2>1. Append(m, e) \in Seq(Slip) /\ Len(Append(m, e)) = n + 1
        /\ DOMAIN Append(m, e) = 1..(n + 1)
    BY <1>2
  <2>2. \A i \in 1..(n + 1) : Append(m, e)[i] = IF i = n + 1 THEN e ELSE m[i]
    BY <1>1, <1>2
  <2>3. Append(m, e) = [i \in 1..(n + 1) |-> Append(m, e)[i]]
    <3> DEFINE a == Append(m, e)
    <3>1. a \in Seq(Slip) /\ Len(a) = n + 1
      BY <2>1
    <3> HIDE DEF a
    <3>2. a = [i \in 1..Len(a) |-> a[i]]
      BY <3>1, SeqDef
    <3> QED
      BY <3>1, <3>2 DEF a
  <2> QED
    BY <2>2, <2>3
<1> QED
  BY <1>4, <1>5 DEF left, m, e

LEMMA RecordDropsTicket ==
  ASSUME IInv, NEW r \in Reqs, Record(r), ~TokenSpent(job[r].poll, job[r].token), Appends(r)
  PROVE  Box!Next
<1> DEFINE box == [q \in Polls |-> [i \in DOMAIN ballots[q] |->
                     [token |-> ballots[q][i].token, choice |-> ballots[q][i].choice]]]
<1>0. Issued /\ Requests /\ TypeOK /\ At(r, "record")
  BY DEF IInv, Issued, Requests, KeyLayer, IssueLayer, Record
<1>1. /\ job[r].poll \in Polls /\ job[r].token \in Tokens
      /\ job[r].choice \in (SUBSET OptionIds) \ {{}}
  <2>1. job[r].poll \in Polls /\ job[r].token \in Tokens
    BY <1>0 DEF TypeOK, Job, Requests, JobsFit, JobFits, At, CastSteps
  <2>2. Fits(job[r].poll, job[r].choice)
    BY <1>0 DEF IInv, CastChoiceFits, At, CastSteps
  <2> QED
    BY <2>1, <2>2, OptionsAssumption DEF Fits
<1>2. PICK p \in Polls, t \in Tokens, c \in (SUBSET OptionIds) \ {{}} :
        p = job[r].poll /\ t = job[r].token /\ c = job[r].choice
  BY <1>1
<1>3. \E k \in {[poll |-> s1.poll, user |-> s1.user, token |-> s1.token] : s1 \in signed} :
        k.poll = p /\ k.token = t
  <2>1. PICK s \in signed : s.token = t /\ s.poll = p
    BY <1>0, <1>2, CastBacked DEF IInv, At, CastSteps
  <2> DEFINE k == [poll |-> s.poll, user |-> s.user, token |-> s.token]
  <2>2. k \in {[poll |-> s1.poll, user |-> s1.user, token |-> s1.token] : s1 \in signed}
    OBVIOUS
  <2>3. k.poll = p /\ k.token = t
    BY <2>1
  <2> QED
    BY <2>2, <2>3
<1>4. ~Box!Dropped(p, t)
  BY <1>2 DEF Box!Dropped, TokenSpent
<1>5. NewBallot(r) \in Ballot
  BY <1>0, NewBallotType DEF Requests, JobsFit, JobFits, At, CastSteps, KeyedSteps
<1>6. NewBallot(r).token = t /\ NewBallot(r).choice = c
  BY <1>2 DEF NewBallot
<1>7. box' = [box EXCEPT ![p] = Append(box[p], [token |-> t, choice |-> c])]
  <2>1. ballots \in [Polls -> Seq(Ballot)] /\ ballots[p] \in Seq(Ballot)
    BY <1>0 DEF TypeOK
  <2>2. ballots'[p] = Append(ballots[p], NewBallot(r)) /\ \A q \in Polls : q # p => ballots'[q] = ballots[q]
    BY <1>2, <2>1 DEF Appends
  <2>3. box'[p] = [i \in DOMAIN Append(ballots[p], NewBallot(r)) |->
                     [token |-> Append(ballots[p], NewBallot(r))[i].token,
                      choice |-> Append(ballots[p], NewBallot(r))[i].choice]]
    BY <2>2
  <2>4. box'[p] = Append(box[p], [token |-> t, choice |-> c])
    <3>1. box'[p] = Append([i \in DOMAIN ballots[p] |->
                              [token |-> ballots[p][i].token, choice |-> ballots[p][i].choice]],
                           [token |-> NewBallot(r).token, choice |-> NewBallot(r).choice])
      <4> HIDE DEF box
      <4> QED
        BY <1>5, <2>1, <2>3, SlipsAppend
    <3> QED
      BY <1>6, <3>1
  <2>5. \A q \in Polls : q # p => box'[q] = box[q]
    BY <2>2
  <2> QED
    BY <2>4, <2>5
<1>8. UNCHANGED signed
  BY DEF Record, clients
<1>9. Box!Drop(p, t, c)
  BY <1>3, <1>4, <1>7, <1>8 DEF Box!Drop
<1> QED
  BY <1>9 DEF Box!Next

LEMMA BoxStep == IInv /\ [Next]_vars => [Box!Next]_(Box!vars)
<1> SUFFICES ASSUME IInv, [Next]_vars PROVE [Box!Next]_(Box!vars)
  OBVIOUS
<1>1. ASSUME UNCHANGED <<signed, ballots>> PROVE UNCHANGED Box!vars
  BY <1>1 DEF Box!vars
<1>2. ASSUME NEW r \in Reqs, Sign(r) PROVE Box!Next
  BY <1>2, SignGivesTicket
<1>3. ASSUME NEW r \in Reqs, Record(r) PROVE Box!Next \/ UNCHANGED <<signed, ballots>>
  BY <1>3, RecordDropsTicket DEF Record, Appends, clients
<1>4. ASSUME NEW r \in Reqs, Arrival(r) \/ Fault(r) \/ EnsureIssuerKey(r) \/ ReadPublic(r)
      PROVE  UNCHANGED <<signed, ballots>>
  BY <1>4
  DEF Arrival, PageStart, IssueStart, CastStart, Fault, Abort, DeleteFails, EnsureIssuerKey, HasKey,
      Keygen, InsertKey, ReadPublic, ledger, clients
<1>5. ASSUME NEW r \in Reqs, VerifyToken(r) \/ AcquireLock(r) \/ ReadHead(r) \/ ReadPrivate(r)
                             \/ Entitle(r) \/ SignFails(r) \/ DeleteEntitlement(r) \/ Respond(r)
      PROVE  UNCHANGED <<signed, ballots>>
  BY <1>5
  DEF VerifyToken, AcquireLock, ReadHead, ReadPrivate, Entitle, SignFails, DeleteEntitlement,
      Respond, ledger, clients
<1>6. ASSUME Environment \/ UNCHANGED vars PROVE UNCHANGED <<signed, ballots>>
  BY <1>6 DEF Environment, Verify, Ban, ClosePoll, vars, ledger, clients
<1> QED
  BY <1>1, <1>2, <1>3, <1>4, <1>5, <1>6 DEF Next, Handler, IssueToken, CastBallot

(* What anyone may check of a poll holds in every state: one signature an  *)
(* account, one ballot a token, a linear chain under one key, and no more  *)
(* ballots than entitlements.                                              *)
THEOREM BallotsSoundAlways == Spec => []BallotsSound
<1>1. /\ OneSignaturePerAccount /\ IssuedWithinVerified
      /\ SignaturesStayValid
      /\ OneBallotPerToken /\ ChainLinear
      /\ SpentWithinIssued
      => BallotsSound
  BY DEF BallotsSound
<1> QED
  BY <1>1, OneSignature, IssuedToVerified, SignaturesVerify, NoDoubleVote, ChainStaysLinear,
     SpentBounded, PTL

(* Anonymous voting implements the ballot box: an account is given at most *)
(* one ticket for a poll, a ticket is dropped at most once, and nothing    *)
(* leaves the box or moves inside it.                                      *)
THEOREM Refinement == Spec => ImplementsBallotBox
<1>1. Init => Box!Init
  BY DEF Init, Box!Init
<1> QED
  BY <1>1, BoxStep, InvariantHolds, PTL DEF Spec, ImplementsBallotBox, Box!Spec
==============================================================================
