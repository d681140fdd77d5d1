------------------------------ MODULE Moderation ------------------------------
(***************************************************************************)
(* Polls proposed by users: crates/db/src/submissions.rs, the review loop  *)
(* of crates/server/src/reviewer.rs, the upload form of pages/submit.rs,   *)
(* the two decisions of pages/admin.rs and the slugs of service/polls.rs.  *)
(*                                                                         *)
(* A process is a request in flight or a review loop; each statement of a  *)
(* transaction is a step.  PostgreSQL runs READ COMMITTED: a statement     *)
(* sees what is committed and its own transaction's writes, and waits for  *)
(* a row or a unique key another open transaction has written.  "holds"    *)
(* is what each transaction has locked; its writes appear when it commits. *)
(*                                                                         *)
(* A definition named after another with a suffix (ClaimUnlocked, ...) is  *)
(* a mistake one could make there; a property must tell it from the code.  *)
(***************************************************************************)
EXTENDS Naturals, Sequences, FiniteSets

CONSTANTS
  Submissions,  (* rows of poll_submissions, "none" before they exist      *)
  Users,        (* rows of users                                           *)
  Author,       (* submitter_id                                            *)
  Assets,       (* content hashes of images                                *)
  Images,       (* a submission's images: options in order, then question  *)
  Bases,        (* slugified questions                                     *)
  Slugs,        (* addresses of polls                                      *)
  Candidates,   (* the addresses tried for a base: itself, then numbered   *)
  Base,         (* the slug base of a submission's question                *)
  Requests,     (* requests in flight, users' and admins'                  *)
  Workers,      (* review loops, one per running instance                  *)
  StrikeLimit,  (* STRIKE_LIMIT                                            *)
  MaxAttempts,  (* MAX_AI_ATTEMPTS                                         *)
  BatchLimit,   (* the batch of a sweep                                    *)
  MaxFaults,    (* bound: dropped requests, failed statements, crashes     *)
  MaxPolls,     (* bound: polls an admin writes by hand                    *)
  None

Processes == Requests \union Workers

ASSUME ModerationAssumption ==
  /\ IsFiniteSet(Submissions) /\ Bases # {} /\ Requests \intersect Workers = {}
  /\ Author \in [Submissions -> Users]
  /\ Images \in [Submissions -> Seq(Assets)]
  /\ Base \in [Submissions -> Bases]
  /\ Candidates \in [Bases -> Seq(Slugs)]
  /\ \A b \in Bases : Len(Candidates[b]) > Cardinality(Submissions) + MaxPolls
  /\ \A b \in Bases : \A m, n \in DOMAIN Candidates[b] :
       Candidates[b][m] = Candidates[b][n] => m = n
  /\ {StrikeLimit, MaxAttempts, BatchLimit} \subseteq Nat \ {0}
  /\ {MaxFaults, MaxPolls} \subseteq Nat
  /\ None \notin Submissions \union Users

VARIABLES
  status, decision, violation, attempts,  (* columns of poll_submissions   *)
  queue,        (* the submissions in order of created_at                  *)
  banned,       (* users.banned_at is set                                  *)
  owner,        (* assets.uploaded_by, None without a row                  *)
  published,    (* assets.published                                        *)
  polls,        (* rows of polls: their slug and the submission they are of*)
  holds,        (* per process, the rows and keys its transaction locks    *)
  pc, job,      (* what each process does next, and its local values       *)
  faults        (* faults so far, up to MaxFaults                          *)

submissions == <<status, decision, violation, attempts, queue>>
media == <<owner, published>>
processes == <<pc, job>>
vars == <<submissions, banned, media, polls, holds, processes, faults>>

Statuses == {"none", "pending_ai", "ai_rejected", "pending_admin", "approved", "rejected"}
Decided == {"ai_rejected", "approved", "rejected"}
Resources == ({"submission"} \X Submissions) \union ({"slug"} \X Slugs)
               \union ({"asset"} \X Assets) \union ({"user"} \X Users)
Steps == {"idle", "upload", "create", "claim", "slug", "insert", "publish", "approved",
          "mark", "count", "ban", "marked", "next", "review", "allow", "bump", "defer"}
Job == [kind: {"idle", "submit", "approve", "reject", "write", "screen"},
        sub: Submissions \union {None}, base: Bases, slug: Slugs,
        violation: BOOLEAN, ban: BOOLEAN, images: Seq(Assets), batch: Seq(Submissions)]

------------------------------------------------------------------------------
(* Processes and their transactions.                                       *)

At(p, step) == pc[p] = step

NoBase == CHOOSE b \in Bases : TRUE
NoJob == [kind |-> "idle", sub |-> None, base |-> NoBase, slug |-> Candidates[NoBase][1],
          violation |-> FALSE, ban |-> FALSE, images |-> <<>>, batch |-> <<>>]

Start(p, step, j) ==
  /\ At(p, "idle")
  /\ pc' = [pc EXCEPT ![p] = step]
  /\ job' = [job EXCEPT ![p] = j]

Goto(p, step) == pc' = [pc EXCEPT ![p] = step] /\ UNCHANGED job

(* A request is answered; a review loop goes on with its batch.            *)
Done(p) ==
  IF p \in Workers
  THEN /\ pc' = [pc EXCEPT ![p] = "next"]
       /\ job' = [job EXCEPT ![p] = [NoJob EXCEPT !.kind = "screen", !.batch = job[p].batch]]
  ELSE /\ pc' = [pc EXCEPT ![p] = "idle"]
       /\ job' = [job EXCEPT ![p] = NoJob]

(* An error ends a request, and with ? the whole sweep of a review loop.   *)
GiveUp(p) ==
  /\ pc' = [pc EXCEPT ![p] = "idle"]
  /\ job' = [job EXCEPT ![p] = NoJob]

Free(p, x) == \A q \in Processes \ {p} : x \notin holds[q]
Hold(p, x) == Free(p, x) /\ holds' = [holds EXCEPT ![p] = @ \union {x}]
Release(p) == holds' = [holds EXCEPT ![p] = {}]

(* What the next statement of a process locks.                             *)
Wants(p) ==
  CASE pc[p] \in {"claim", "mark", "allow", "bump", "defer"} -> {<<"submission", job[p].sub>>}
    [] At(p, "insert") -> {<<"slug", job[p].slug>>}
    [] pc[p] \in {"publish", "upload"} /\ job[p].images # <<>> -> {<<"asset", Head(job[p].images)>>}
    [] At(p, "ban") -> {<<"user", Author[job[p].sub]>>}
    [] OTHER -> {}

------------------------------------------------------------------------------
(* The form: session, images, row.                                         *)

(* A banned account's session does not resolve; the request reads it once. *)
SubmitStart(r, s) ==
  /\ status[s] = "none"
  /\ Author[s] \notin banned
  /\ \A q \in Requests : ~(job[q].kind = "submit" /\ job[q].sub = s)
  /\ Start(r, "upload", [NoJob EXCEPT !.kind = "submit", !.sub = s, !.images = Images[s]])
  /\ UNCHANGED <<submissions, banned, media, polls, holds, faults>>

(* store_upload: the first uploader of the bytes stays the owner.          *)
Upload(r) ==
  /\ At(r, "upload")
  /\ IF job[r].images = <<>>
     THEN Goto(r, "create") /\ UNCHANGED owner
     ELSE LET a == Head(job[r].images)
          IN /\ Free(r, <<"asset", a>>)
             /\ owner' = [owner EXCEPT ![a] = IF @ = None THEN Author[job[r].sub] ELSE @]
             /\ job' = [job EXCEPT ![r].images = Tail(@)]
             /\ UNCHANGED pc
  /\ UNCHANGED <<submissions, banned, published, polls, holds, faults>>

Create(r) ==
  LET s == job[r].sub
  IN /\ At(r, "create")
     /\ status' = [status EXCEPT ![s] = "pending_ai"]
     /\ queue' = Append(queue, s)
     /\ Done(r)
     /\ UNCHANGED <<decision, violation, attempts, banned, media, polls, holds, faults>>

------------------------------------------------------------------------------
(* approve.                                                                *)

(* An admin decides on any row ever shown to one, or twice on the same.    *)
ApproveStart(r, s) ==
  /\ status[s] # "none"
  /\ Start(r, "claim", [NoJob EXCEPT !.kind = "approve", !.sub = s, !.base = Base[s],
                                     !.images = Images[s]])
  /\ UNCHANGED <<submissions, banned, media, polls, holds, faults>>

ClaimUnlocked(r) ==
  LET s == job[r].sub
  IN /\ At(r, "claim")
     /\ IF status[s] = "pending_admin" THEN Goto(r, "slug") ELSE Done(r)
     /\ UNCHANGED <<submissions, banned, media, polls, holds, faults>>

(* select ... where status = 'pending_admin' for update.                   *)
Claim(r) ==
  LET s == job[r].sub
  IN /\ At(r, "claim")
     /\ IF status[s] = "pending_admin"
        THEN Hold(r, <<"submission", s>>) /\ Goto(r, "slug")
        ELSE Free(r, <<"submission", s>>) /\ Done(r) /\ UNCHANGED holds
     /\ UNCHANGED <<submissions, banned, media, polls, faults>>

Taken(slug) == \E p \in polls : p.slug = slug

(* The base, or the base with the first number that is free.  The address  *)
(* "q-2" may be numbered from the question "q" or be that of "q 2".        *)
FreeSlug(b) ==
  Candidates[b][CHOOSE n \in DOMAIN Candidates[b] :
    ~Taken(Candidates[b][n]) /\ \A m \in 1 .. n - 1 : Taken(Candidates[b][m])]

ChooseSlug(r) ==
  /\ At(r, "slug")
  /\ job' = [job EXCEPT ![r].slug = FreeSlug(job[r].base)]
  /\ pc' = [pc EXCEPT ![r] = "insert"]
  /\ UNCHANGED <<submissions, banned, media, polls, holds, faults>>

(* insert into polls: a slug taken since then fails the transaction.       *)
InsertPoll(r) ==
  /\ At(r, "insert")
  /\ Free(r, <<"slug", job[r].slug>>)
  /\ IF Taken(job[r].slug)
     THEN GiveUp(r) /\ Release(r)
     ELSE Hold(r, <<"slug", job[r].slug>>) /\ Goto(r, "publish")
  /\ UNCHANGED <<submissions, banned, media, polls, faults>>

PublishOptionsOnly(r) ==
  /\ At(r, "publish")
  /\ IF Len(job[r].images) <= 1
     THEN Goto(r, "approved") /\ UNCHANGED holds
     ELSE /\ Hold(r, <<"asset", Head(job[r].images)>>)
          /\ job' = [job EXCEPT ![r].images = Tail(@)]
          /\ UNCHANGED pc
  /\ UNCHANGED <<submissions, banned, media, polls, faults>>

(* update assets set published = true, image by image.                     *)
Publish(r) ==
  /\ At(r, "publish")
  /\ IF job[r].images = <<>>
     THEN Goto(r, "approved") /\ UNCHANGED holds
     ELSE /\ Hold(r, <<"asset", Head(job[r].images)>>)
          /\ job' = [job EXCEPT ![r].images = Tail(@)]
          /\ UNCHANGED pc
  /\ UNCHANGED <<submissions, banned, media, polls, faults>>

ImagesLocked(r) == {a \in Assets : <<"asset", a>> \in holds[r]}

(* The commit of an approval, or of a poll written by hand.                *)
CommitPoll(r) ==
  LET s == job[r].sub
  IN /\ At(r, "approved")
     /\ polls' = polls \union {[slug |-> job[r].slug, sub |-> s]}
     /\ published' = published \union ImagesLocked(r)
     /\ status' = IF s = None THEN status ELSE [status EXCEPT ![s] = "approved"]
     /\ Release(r) /\ Done(r)
     /\ UNCHANGED <<decision, violation, attempts, queue, banned, owner, faults>>

(* The admin's own polls take their slugs from the same table: unique_slug *)
(* reads outside the transaction that inserts.                             *)
WriteStart(r, b) ==
  /\ Cardinality({p \in polls : p.sub = None})
       + Cardinality({q \in Requests : job[q].kind = "write"}) < MaxPolls
  /\ Start(r, "slug", [NoJob EXCEPT !.kind = "write", !.base = b])
  /\ UNCHANGED <<submissions, banned, media, polls, holds, faults>>

------------------------------------------------------------------------------
(* reject, record_ai_reject and enforce_ban.                               *)

RejectStart(r, s, v) ==
  /\ status[s] # "none"
  /\ Start(r, "mark", [NoJob EXCEPT !.kind = "reject", !.sub = s, !.violation = v])
  /\ UNCHANGED <<submissions, banned, media, polls, holds, faults>>

Awaited(p) == IF job[p].kind = "screen" THEN "pending_ai" ELSE "pending_admin"

(* update ... where status = <awaited> returning submitter_id.             *)
Mark(p) ==
  LET s == job[p].sub
  IN /\ At(p, "mark")
     /\ IF status[s] = Awaited(p)
        THEN /\ Hold(p, <<"submission", s>>)
             /\ Goto(p, IF job[p].violation THEN "count" ELSE "marked")
        ELSE Free(p, <<"submission", s>>) /\ Done(p) /\ UNCHANGED holds
     /\ UNCHANGED <<submissions, banned, media, polls, faults>>

Strikes(u) == {s \in Submissions : Author[s] = u /\ violation[s]}

CountStrikesEarly(p) ==
  /\ At(p, "count")
  /\ Goto(p, IF Cardinality(Strikes(Author[job[p].sub]) \union {job[p].sub}) + 1 < StrikeLimit
             THEN "marked" ELSE "ban")
  /\ UNCHANGED <<submissions, banned, media, polls, holds, faults>>

(* The count sees the committed violations and the one just marked.       *)
CountStrikes(p) ==
  /\ At(p, "count")
  /\ Goto(p, IF Cardinality(Strikes(Author[job[p].sub]) \union {job[p].sub}) < StrikeLimit
             THEN "marked" ELSE "ban")
  /\ UNCHANGED <<submissions, banned, media, polls, holds, faults>>

(* update users ... where banned_at is null.                               *)
BanAuthor(p) ==
  /\ At(p, "ban")
  /\ Hold(p, <<"user", Author[job[p].sub]>>)
  /\ pc' = [pc EXCEPT ![p] = "marked"]
  /\ job' = [job EXCEPT ![p].ban = TRUE]
  /\ UNCHANGED <<submissions, banned, media, polls, faults>>

CommitRejection(p) ==
  LET s == job[p].sub
      screened == job[p].kind = "screen"
  IN /\ At(p, "marked")
     /\ status' = [status EXCEPT ![s] = IF screened THEN "ai_rejected" ELSE "rejected"]
     /\ decision' = IF screened THEN [decision EXCEPT ![s] = "reject"] ELSE decision
     /\ violation' = [violation EXCEPT ![s] = job[p].violation]
     /\ banned' = IF job[p].ban THEN banned \union {Author[s]} ELSE banned
     /\ Release(p) /\ Done(p)
     /\ UNCHANGED <<attempts, queue, media, polls, faults>>

------------------------------------------------------------------------------
(* The review loop: run and process_pending.                               *)

(* The places in the queue of what waits for the screen.                   *)
PendingUntried ==
  {i \in DOMAIN queue : status[queue[i]] = "pending_ai" /\ attempts[queue[i]] < MaxAttempts}

Pending == {i \in DOMAIN queue : status[queue[i]] = "pending_ai"}

Ahead(i) == {j \in Pending : j <= i}
Oldest(n) == [k \in 1 .. n |-> queue[CHOOSE i \in Pending : Cardinality(Ahead(i)) = k]]

(* by_status("pending_ai", limit): the oldest, read once for the sweep.    *)
Sweep(w) ==
  /\ Pending # {}
  /\ LET n == IF Cardinality(Pending) < BatchLimit THEN Cardinality(Pending) ELSE BatchLimit
     IN Start(w, "next", [NoJob EXCEPT !.kind = "screen", !.batch = Oldest(n)])
  /\ UNCHANGED <<submissions, banned, media, polls, holds, faults>>

(* The labels are read and the provider asked, for thirty seconds at most. *)
NextInBatch(w) ==
  /\ At(w, "next")
  /\ IF job[w].batch = <<>>
     THEN GiveUp(w)
     ELSE /\ pc' = [pc EXCEPT ![w] = "review"]
          /\ job' = [job EXCEPT ![w].sub = Head(job[w].batch), ![w].batch = Tail(@)]
  /\ UNCHANGED <<submissions, banned, media, polls, holds, faults>>

(* An allowing or a rejecting verdict, or an error: no reply, a bad one.   *)
Verdict(w) ==
  /\ At(w, "review")
  /\ \/ Goto(w, "allow")
     \/ /\ pc' = [pc EXCEPT ![w] = "mark"]
        /\ job' = [job EXCEPT ![w].violation = TRUE]
     \/ Goto(w, "bump")
  /\ UNCHANGED <<submissions, banned, media, polls, holds, faults>>

(* record_ai_allow, a no-op unless the row is still pending_ai.            *)
RecordAllow(w) ==
  LET s == job[w].sub
  IN /\ At(w, "allow")
     /\ Free(w, <<"submission", s>>)
     /\ IF status[s] = "pending_ai"
        THEN /\ status' = [status EXCEPT ![s] = "pending_admin"]
             /\ decision' = [decision EXCEPT ![s] = "allow"]
        ELSE UNCHANGED <<status, decision>>
     /\ Done(w)
     /\ UNCHANGED <<violation, attempts, queue, banned, media, polls, holds, faults>>

GivesUpOnEarly(n) == n + 1 >= MaxAttempts
GivesUpOn(n) == n >= MaxAttempts

(* bump_ai_attempt counts whatever the row's status has become.            *)
BumpAttempt(w) ==
  LET s == job[w].sub
      n == attempts[s] + 1
  IN /\ At(w, "bump")
     /\ Free(w, <<"submission", s>>)
     /\ attempts' = [attempts EXCEPT ![s] = n]
     /\ IF GivesUpOn(n) THEN Goto(w, "defer") ELSE Done(w)
     /\ UNCHANGED <<status, decision, violation, queue, banned, media, polls, holds, faults>>

DeferAnyway(w) ==
  LET s == job[w].sub
  IN /\ At(w, "defer")
     /\ Free(w, <<"submission", s>>)
     /\ status' = [status EXCEPT ![s] = "pending_admin"]
     /\ Done(w)
     /\ UNCHANGED <<decision, violation, attempts, queue, banned, media, polls, holds, faults>>

(* defer_to_admin.                                                         *)
Defer(w) ==
  LET s == job[w].sub
  IN /\ At(w, "defer")
     /\ Free(w, <<"submission", s>>)
     /\ status' = IF status[s] = "pending_ai"
                  THEN [status EXCEPT ![s] = "pending_admin"] ELSE status
     /\ Done(w)
     /\ UNCHANGED <<decision, violation, attempts, queue, banned, media, polls, holds, faults>>

------------------------------------------------------------------------------
(* Faults.                                                                 *)

(* A request is dropped, a statement fails or the process goes away: the   *)
(* open transaction rolls back.                                            *)
Fail(p) ==
  /\ faults < MaxFaults
  /\ ~At(p, "idle")
  /\ faults' = faults + 1
  /\ GiveUp(p) /\ Release(p)
  /\ UNCHANGED <<submissions, banned, media, polls>>

(* Each process waits for one holder at most, so a smallest closed set of  *)
(* waiting processes is a cycle.                                           *)
Waiting(S) == S # {} /\ \A p \in S : \E q \in S \ {p} : Wants(p) \intersect holds[q] # {}
Deadlocked(p) ==
  \E S \in SUBSET Processes :
    p \in S /\ Waiting(S) /\ \A T \in SUBSET S : Waiting(T) => T = S

(* PostgreSQL fails one transaction of a cycle of waiting ones.            *)
BreakDeadlock(p) ==
  /\ Deadlocked(p)
  /\ GiveUp(p) /\ Release(p)
  /\ UNCHANGED <<submissions, banned, media, polls, faults>>

------------------------------------------------------------------------------
Init ==
  /\ status = [s \in Submissions |-> "none"]
  /\ decision = [s \in Submissions |-> None]
  /\ violation = [s \in Submissions |-> FALSE]
  /\ attempts = [s \in Submissions |-> 0]
  /\ queue = <<>>
  /\ banned = {}
  /\ owner = [a \in Assets |-> None]
  /\ published = {}
  /\ polls = {}
  /\ holds = [p \in Processes |-> {}]
  /\ pc = [p \in Processes |-> "idle"]
  /\ job = [p \in Processes |-> NoJob]
  /\ faults = 0

Arrival(r) ==
  \/ \E s \in Submissions : SubmitStart(r, s) \/ ApproveStart(r, s)
  \/ \E s \in Submissions, v \in BOOLEAN : RejectStart(r, s, v)
  \/ \E b \in Bases : WriteStart(r, b)

Submit(r) == Upload(r) \/ Create(r)
Approve(r) == Claim(r) \/ ChooseSlug(r) \/ InsertPoll(r) \/ Publish(r) \/ CommitPoll(r)
Reject(p) == Mark(p) \/ CountStrikes(p) \/ BanAuthor(p) \/ CommitRejection(p)
Review(w) ==
  \/ Sweep(w) \/ NextInBatch(w) \/ Verdict(w)
  \/ RecordAllow(w) \/ BumpAttempt(w) \/ Defer(w)

Work(p) ==
  \/ p \in Requests /\ (Submit(p) \/ Approve(p))
  \/ p \in Workers /\ Review(p)
  \/ Reject(p)
  \/ BreakDeadlock(p)

Next ==
  \/ \E r \in Requests : Arrival(r)
  \/ \E p \in Processes : Work(p) \/ Fail(p)

Spec == Init /\ [][Next]_vars

(* The runtime polls every future that can make progress, the loop sleeps  *)
(* fifteen seconds between sweeps, and PostgreSQL queues the waiters of a  *)
(* lock first come, first served.  People are under no fairness.           *)
FairSpec == Spec /\ \A p \in Processes : SF_vars(Work(p))

------------------------------------------------------------------------------
(* Properties.                                                             *)

TypeOK ==
  /\ status \in [Submissions -> Statuses]
  /\ decision \in [Submissions -> {None, "allow", "reject"}]
  /\ violation \in [Submissions -> BOOLEAN]
  /\ attempts \in [Submissions -> Nat]
  /\ queue \in Seq(Submissions)
  /\ banned \subseteq Users
  /\ owner \in [Assets -> Users \union {None}]
  /\ published \subseteq Assets
  /\ polls \subseteq [slug: Slugs, sub: Submissions \union {None}]
  /\ holds \in [Processes -> SUBSET Resources]
  /\ pc \in [Processes -> Steps]
  /\ job \in [Processes -> Job]
  /\ faults \in 0 .. MaxFaults

(* An account is suspended only for STRIKE_LIMIT violations that stand:    *)
(* none of them is rolled back after enforce_ban counted it.               *)
BannedDeserved == \A u \in banned : Cardinality(Strikes(u)) >= StrikeLimit

(* "a double submit cannot create a duplicate poll": the approved          *)
(* submissions and the polls made of submissions pair off, whoever clicks  *)
(* twice, and no two polls share an address.                               *)
PollsMatchApprovals ==
  /\ \A s \in Submissions :
       status[s] = "approved" <=> \E p \in polls : p.sub = s
  /\ \A p, q \in polls : p.slug = q.slug \/ (p.sub = q.sub /\ p.sub # None) => p = q

(* "nothing a user wrote or uploaded is public until it has passed both":  *)
(* every public image belongs to a submission that was approved, also when *)
(* an approval fails half way.                                             *)
PublishedThroughApproval ==
  \A a \in published : \E s \in Submissions :
    status[s] = "approved" /\ \E i \in DOMAIN Images[s] : Images[s][i] = a

(* The images "become public at this moment": no approved poll shows an    *)
(* image the server refuses to serve.                                      *)
ApprovedImagesPublic ==
  \A s \in Submissions : status[s] = "approved" =>
    \A i \in DOMAIN Images[s] : Images[s][i] \in published /\ owner[Images[s][i]] # None

(* A submission reaches a human by the screen's word or after the screen   *)
(* failed MAX_AI_ATTEMPTS times.                                           *)
ScreenedFirst ==
  \A s \in Submissions : status[s] \in {"pending_admin", "approved", "rejected"} =>
    decision[s] = "allow" \/ attempts[s] >= MaxAttempts

(* Nothing skips the screen or a person, also when an approval fails.      *)
ReviewedFirst == TypeOK /\ PublishedThroughApproval /\ ScreenedFirst

(* A decision stands: no verdict that comes late, from another instance or *)
(* from a stale page, changes it or its strike.                            *)
DecisionsFinal ==
  [][\A s \in Submissions : status[s] \in Decided =>
       status'[s] = status[s] /\ violation'[s] = violation[s]]_vars

(* "a reviewer outage never leaves it stuck": whatever the provider        *)
(* answers, a submission leaves the screen's queue.                        *)
NeverStuck == \A s \in Submissions : status[s] = "pending_ai" ~> status[s] # "pending_ai"

(* Every request is answered, whatever waits for whatever.                 *)
RequestsEnd == \A r \in Requests : pc[r] # "idle" ~> pc[r] = "idle"

(* Both: nothing waits for ever, in the queue or in a handler.             *)
NothingWaits == NeverStuck /\ RequestsEnd

(* "once a submitter reaches STRIKE_LIMIT violations the account is        *)
(* suspended".                                                             *)
StrikesSuspend ==
  \A u \in Users : Cardinality(Strikes(u)) >= StrikeLimit => u \in banned
==============================================================================
