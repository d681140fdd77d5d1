--------------------------- MODULE ModerationProofs ---------------------------
(***************************************************************************)
(* Proofs about Moderation for any number of submissions, requests and     *)
(* review loops, with faults or without: nothing is public that was not    *)
(* approved, an approval makes one poll with all its images, decisions     *)
(* stand, and a suspension rests on violations that stand.                 *)
(*                                                                         *)
(* The inductive invariant says of every process what the rows it has      *)
(* locked hold (Fits); the rest speaks of the tables alone.  A step of one *)
(* process leaves what the others rely on as it is: they hold the locks.   *)
(***************************************************************************)
EXTENDS Moderation, FiniteSetTheorems, SequenceTheorems, WellFoundedInduction, TLAPS

Of(s) == {s[i] : i \in DOMAIN s}
Row(s) == <<"submission", s>>

(* What a process is doing at each step.                                   *)
Approving == {"slug", "insert", "publish", "approved"}
Rejecting == {"count", "ban", "marked"}

KindFits(p) ==
  /\ pc[p] = "idle" => job[p].kind = "idle"
  /\ pc[p] \in {"upload", "create"} =>
       p \in Requests /\ job[p].kind = "submit" /\ job[p].sub \in Submissions
  /\ pc[p] = "claim" => job[p].kind = "approve" /\ job[p].sub \in Submissions
  /\ pc[p] \in Approving =>
       \/ job[p].kind = "approve" /\ job[p].sub \in Submissions
       \/ job[p].kind = "write" /\ job[p].sub = None /\ job[p].images = <<>>
  /\ pc[p] \in Rejecting \union {"mark"} =>
       job[p].kind \in {"reject", "screen"} /\ job[p].sub \in Submissions
  /\ pc[p] \in {"next", "review", "allow", "bump", "defer"} => job[p].kind = "screen"
  /\ pc[p] \in {"review", "allow", "bump", "defer"} => job[p].sub \in Submissions

(* A transaction that decides has locked its row, which no step of another *)
(* one can change, and one that inserts a poll has its address to itself.  *)
HoldsFit(p) ==
  /\ pc[p] \notin Approving \union Rejecting => holds[p] = {}
  /\ pc[p] \in Approving /\ job[p].sub # None =>
       Row(job[p].sub) \in holds[p] /\ status[job[p].sub] = "pending_admin"
  /\ pc[p] \in Rejecting =>
       Row(job[p].sub) \in holds[p] /\ status[job[p].sub] = Awaited(p)
  /\ pc[p] \in {"publish", "approved"} =>
       <<"slug", job[p].slug>> \in holds[p] /\ ~Taken(job[p].slug)

(* What is left to upload or to publish, and what has been.                *)
UploadFits(p) ==
  pc[p] \in {"upload", "create"} =>
    /\ status[job[p].sub] = "none"
    /\ \A a \in Of(Images[job[p].sub]) :
         owner[a] # None \/ (pc[p] = "upload" /\ a \in Of(job[p].images))

ImagesFit(p) ==
  /\ pc[p] \in {"claim", "slug", "insert"} /\ job[p].sub # None => job[p].images = Images[job[p].sub]
  /\ pc[p] \in {"publish", "approved"} /\ job[p].sub # None =>
       \A a \in Of(Images[job[p].sub]) :
         a \in ImagesLocked(p) \/ (pc[p] = "publish" /\ a \in Of(job[p].images))
  /\ pc[p] = "publish" /\ job[p].sub # None => Of(job[p].images) \subseteq Of(Images[job[p].sub])
  /\ \A a \in ImagesLocked(p) :
       pc[p] \in Approving /\ job[p].sub # None /\ a \in Of(Images[job[p].sub])

(* What a suspension and a handing over to the admins rest on.             *)
Enough(s) == Cardinality(Strikes(Author[s]) \union {s}) >= StrikeLimit
CountFits(p) ==
  /\ pc[p] \in {"count", "ban"} => job[p].violation
  /\ job[p].ban => pc[p] = "marked" /\ job[p].violation
  /\ pc[p] = "ban" \/ job[p].ban => Enough(job[p].sub)
  /\ pc[p] = "defer" => attempts[job[p].sub] >= MaxAttempts

Fits(p) == KindFits(p) /\ HoldsFit(p) /\ UploadFits(p) /\ ImagesFit(p) /\ CountFits(p)

JobsFit == \A p \in Processes : Fits(p)
Exclusive == \A p, q \in Processes : p # q => holds[p] \intersect holds[q] = {}
OneForm == \A p, q \in Processes :
  pc[p] \in {"upload", "create"} /\ pc[q] \in {"upload", "create"} /\ job[p].sub = job[q].sub => p = q

ViolationsRejected == \A s \in Submissions : violation[s] => status[s] \in {"ai_rejected", "rejected"}
ImagesOwned == \A s \in Submissions : status[s] # "none" => \A a \in Of(Images[s]) : owner[a] # None

(* Polls written by hand keep within their bound, which is why an address  *)
(* is always free.                                                         *)
ByHand == {p \in polls : p.sub = None}
Writing == {q \in Requests : job[q].kind = "write"}
WritingBounded ==
  /\ IsFiniteSet(ByHand) /\ IsFiniteSet(Writing)
  /\ Cardinality(ByHand) + Cardinality(Writing) <= MaxPolls

IInv ==
  /\ TypeOK /\ JobsFit /\ Exclusive /\ OneForm
  /\ ViolationsRejected /\ ImagesOwned /\ WritingBounded
  /\ PollsMatchApprovals /\ PublishedThroughApproval /\ ApprovedImagesPublic
  /\ ScreenedFirst /\ BannedDeserved

------------------------------------------------------------------------------
(* Slots: what a move of a process does to pc and job.                     *)

SlotTypes == pc' \in [Processes -> Steps] /\ job' \in [Processes -> Job]
OtherSlots(p) == \A q \in Processes : q # p => pc'[q] = pc[q] /\ job'[q] = job[q]
Others(p) == OtherSlots(p) /\ \A q \in Processes : q # p => holds'[q] = holds[q]

LEMMA NoJobFits ==
  /\ NoJob \in Job /\ NoBase \in Bases
  /\ NoJob.kind = "idle" /\ NoJob.sub = None /\ NoJob.images = <<>> /\ NoJob.batch = <<>>
  /\ ~NoJob.ban /\ ~NoJob.violation
<1>1. NoBase \in Bases
  BY ModerationAssumption DEF NoBase
<1>2. Candidates[NoBase] \in Seq(Slugs) /\ Len(Candidates[NoBase]) > Cardinality(Submissions) + MaxPolls
  BY <1>1, ModerationAssumption
<1>3. Cardinality(Submissions) \in Nat /\ MaxPolls \in Nat
  BY ModerationAssumption, FS_CardinalityType
<1>4. Candidates[NoBase][1] \in Slugs
  BY <1>2, <1>3
<1>5. <<>> \in Seq(Assets) /\ <<>> \in Seq(Submissions)
  BY EmptySeq
<1> QED
  BY <1>1, <1>4, <1>5 DEF NoJob, Job

LEMMA JobSlot ==
  ASSUME TypeOK, NEW p \in Processes, NEW step \in Steps, NEW j \in Job,
         pc' = [pc EXCEPT ![p] = step], job' = [job EXCEPT ![p] = j]
  PROVE  SlotTypes /\ OtherSlots(p) /\ pc'[p] = step /\ job'[p] = j
BY DEF TypeOK, SlotTypes, OtherSlots

LEMMA StartSlot ==
  ASSUME TypeOK, NEW p \in Processes, NEW step \in Steps, NEW j \in Job, Start(p, step, j)
  PROVE  SlotTypes /\ OtherSlots(p) /\ pc[p] = "idle" /\ pc'[p] = step /\ job'[p] = j
BY JobSlot DEF Start, At

LEMMA GotoSlot ==
  ASSUME TypeOK, NEW p \in Processes, NEW step \in Steps, Goto(p, step)
  PROVE  SlotTypes /\ OtherSlots(p) /\ pc'[p] = step /\ job' = job /\ job'[p] = job[p]
BY DEF TypeOK, Goto, SlotTypes, OtherSlots

LEMMA GiveUpSlot ==
  ASSUME TypeOK, NEW p \in Processes, GiveUp(p)
  PROVE  SlotTypes /\ OtherSlots(p) /\ pc'[p] = "idle" /\ job'[p] = NoJob
BY NoJobFits, JobSlot DEF GiveUp, Steps

LEMMA DoneSlot ==
  ASSUME TypeOK, NEW p \in Processes, Done(p)
  PROVE  /\ SlotTypes /\ OtherSlots(p)
         /\ \/ pc'[p] = "idle" /\ job'[p].kind = "idle"
            \/ pc'[p] = "next" /\ job'[p].kind = "screen"
         /\ ~job'[p].ban /\ ~job'[p].violation
<1> DEFINE j == [NoJob EXCEPT !.kind = "screen", !.batch = job[p].batch]
<1>1. job[p].batch \in Seq(Submissions)
  BY DEF TypeOK, Job
<1>2. j \in Job /\ j.kind = "screen" /\ ~j.ban /\ ~j.violation
  BY <1>1, NoJobFits DEF Job
<1>3. CASE p \in Workers
  <2>1. pc' = [pc EXCEPT ![p] = "next"] /\ job' = [job EXCEPT ![p] = j]
    BY <1>3 DEF Done
  <2> HIDE DEF j
  <2> QED
    BY <1>2, <2>1, JobSlot DEF Steps
<1>4. CASE p \notin Workers
  BY <1>4, NoJobFits, JobSlot DEF Done, Steps
<1> QED
  BY <1>3, <1>4

(* Between two requests a process holds nothing and owes nothing.          *)
LEMMA AtRest ==
  ASSUME NEW p \in Processes, holds'[p] = {}, ~job'[p].ban,
         \/ pc'[p] = "idle" /\ job'[p].kind = "idle"
         \/ pc'[p] = "next" /\ job'[p].kind = "screen"
  PROVE  Fits(p)'
BY DEF Fits, KindFits, HoldsFit, UploadFits, ImagesFit, CountFits, ImagesLocked, Approving, Rejecting

------------------------------------------------------------------------------
(* What a step of p may do to the tables so that the others still fit.     *)
Forms == {"upload", "create"}
Deciding(q, s) == pc[q] \in Approving \union Rejecting /\ job[q].sub = s
Stable(p) ==
  /\ \A s \in Submissions : status'[s] # status[s] =>
       \A q \in Processes : q # p => ~Deciding(q, s) /\ ~(pc[q] \in Forms /\ job[q].sub = s)
  /\ \A a \in Assets : owner[a] # None => owner'[a] # None
  /\ \A s \in Submissions : (violation[s] => violation'[s]) /\ attempts[s] <= attempts'[s]
  /\ \A q \in Processes : q # p => \A x \in Slugs : <<"slug", x>> \in holds[q] /\ Taken(x)' => Taken(x)

LEMMA EnoughGrows ==
  ASSUME TypeOK, NEW s \in Submissions, Enough(s),
         \A x \in Submissions : violation[x] => violation'[x]
  PROVE  Enough(s)'
<1> DEFINE old == Strikes(Author[s]) \union {s}
           new == {x \in Submissions : Author[x] = Author[s] /\ violation'[x]} \union {s}
<1>1. old \subseteq new /\ new \subseteq Submissions
  BY DEF Strikes
<1>2. IsFiniteSet(new) /\ IsFiniteSet(old)
  BY <1>1, FS_Subset, ModerationAssumption
<1>3. Cardinality(old) <= Cardinality(new) /\ Cardinality(old) \in Nat /\ Cardinality(new) \in Nat
  BY <1>1, <1>2, FS_Subset, FS_CardinalityType
<1>4. Cardinality(old) >= StrikeLimit /\ StrikeLimit \in Nat
  BY ModerationAssumption DEF Enough
<1>5. Cardinality(new) >= StrikeLimit
  BY <1>3, <1>4
<1> QED
  BY <1>5 DEF Enough, Strikes

LEMMA OthersFit ==
  ASSUME IInv, NEW p \in Processes, Others(p), Stable(p), TypeOK'
  PROVE  \A q \in Processes : q # p => Fits(q)'
<1> SUFFICES ASSUME NEW q \in Processes, q # p PROVE Fits(q)'
  OBVIOUS
<1>1. pc'[q] = pc[q] /\ job'[q] = job[q] /\ holds'[q] = holds[q] /\ ImagesLocked(q)' = ImagesLocked(q)
  BY DEF Others, OtherSlots, ImagesLocked
<1>2. Fits(q) /\ TypeOK /\ job[q] \in Job /\ Awaited(q)' = Awaited(q)
  BY <1>1 DEF IInv, JobsFit, TypeOK, Awaited
<1>3. KindFits(q)'
  BY <1>1, <1>2 DEF Fits, KindFits
<1>4. HoldsFit(q)'
  <2>1. ASSUME NEW s \in Submissions, Deciding(q, s) PROVE status'[s] = status[s]
    BY <2>1 DEF Stable
  <2>2. PICK x \in Slugs : x = job[q].slug
    BY <1>2 DEF Job
  <2>3. pc[q] \in {"publish", "approved"} => <<"slug", x>> \in holds[q] /\ ~(Taken(x)')
    BY <1>2, <2>2 DEF Fits, HoldsFit, Stable
  <2>4. (pc[q] \in Approving /\ job[q].sub # None) \/ pc[q] \in Rejecting => job[q].sub \in Submissions
    BY <1>2 DEF Fits, KindFits
  <2>5. Taken(job[q].slug)' = Taken(x)'
    BY <1>1, <2>2 DEF Taken
  <2>6. pc[q] \in {"publish", "approved"} =>
          <<"slug", job'[q].slug>> \in holds'[q] /\ ~(Taken(job[q].slug)')
    BY <1>1, <2>2, <2>3, <2>5
  <2>7. /\ pc[q] \notin Approving \union Rejecting => holds'[q] = {}
        /\ pc[q] \in Approving /\ job[q].sub # None =>
             Row(job[q].sub) \in holds[q] /\ status'[job[q].sub] = "pending_admin"
        /\ pc[q] \in Rejecting => Row(job[q].sub) \in holds[q] /\ status'[job[q].sub] = Awaited(q)
    BY <1>1, <1>2, <2>1, <2>4 DEF Fits, HoldsFit, Deciding
  <2> QED
    BY <1>1, <1>2, <2>6, <2>7 DEF HoldsFit
<1>5. UploadFits(q)'
  <2> SUFFICES ASSUME pc[q] \in Forms PROVE UploadFits(q)'
    BY <1>1 DEF UploadFits, Forms
  <2>1. job[q].sub \in Submissions /\ status[job[q].sub] = "none"
    BY <1>2 DEF Fits, KindFits, UploadFits, Forms
  <2>2. status'[job[q].sub] = "none"
    BY <2>1 DEF Stable
  <2>3. Of(Images[job[q].sub]) \subseteq Assets
    BY <2>1, ModerationAssumption DEF Of
  <2>4. \A a \in Of(Images[job[q].sub]) :
          owner'[a] # None \/ (pc[q] = "upload" /\ a \in Of(job[q].images))
    BY <1>2, <2>3 DEF Fits, UploadFits, Stable, Forms
  <2> QED
    BY <1>1, <2>2, <2>4 DEF UploadFits
<1>6. ImagesFit(q)'
  BY <1>1, <1>2 DEF Fits, ImagesFit
<1>7. CountFits(q)'
  <2>1. pc[q] = "ban" \/ job[q].ban => job[q].sub \in Submissions /\ Enough(job[q].sub)
    BY <1>2 DEF Fits, KindFits, CountFits, Rejecting
  <2>2. pc[q] = "ban" \/ job[q].ban => Enough(job[q].sub)'
    <3> SUFFICES ASSUME pc[q] = "ban" \/ job[q].ban PROVE Enough(job[q].sub)'
      OBVIOUS
    <3>1. PICK s \in Submissions : s = job[q].sub
      BY <2>1
    <3>2. Enough(s)'
      BY <1>2, <2>1, <3>1, EnoughGrows DEF Stable
    <3> QED
      BY <1>1, <3>1, <3>2 DEF Enough, Strikes
  <2>3. pc[q] = "defer" => job[q].sub \in Submissions /\ attempts[job[q].sub] >= MaxAttempts
    BY <1>2 DEF Fits, KindFits, CountFits
  <2>4. pc[q] = "defer" => attempts'[job[q].sub] >= MaxAttempts
    BY <1>2, <2>3, ModerationAssumption, SMTT(30) DEF Stable, TypeOK
  <2> QED
    BY <1>1, <1>2, <2>2, <2>4 DEF Fits, CountFits, Enough, Strikes
<1> QED
  BY <1>3, <1>4, <1>5, <1>6, <1>7 DEF Fits

------------------------------------------------------------------------------
(* A step that leaves the tables alone.                                    *)
Tables == <<submissions, banned, media, polls>>
MayHold(p) ==
  /\ holds' \in [Processes -> SUBSET Resources]
  /\ \A q \in Processes : q # p => holds'[q] = holds[q] /\ holds'[p] \intersect holds[q] = {}
MayForm(p) ==
  pc'[p] \in Forms => \A q \in Processes : q # p => ~(pc[q] \in Forms /\ job[q].sub = job'[p].sub)

LEMMA WritingKept ==
  ASSUME IInv, NEW p \in Processes, OtherSlots(p), ByHand' = ByHand,
         job'[p].kind = "write" => job[p].kind = "write"
  PROVE  WritingBounded'
<1>1. Writing' \subseteq Writing /\ ByHand' = ByHand
  BY DEF OtherSlots, Writing, Processes
<1>2. IsFiniteSet(Writing) /\ IsFiniteSet(ByHand) /\ Cardinality(ByHand) + Cardinality(Writing) <= MaxPolls
  BY DEF IInv, WritingBounded
<1>3. IsFiniteSet(Writing') /\ Cardinality(Writing') <= Cardinality(Writing)
  BY <1>1, <1>2, FS_Subset
<1>4. Cardinality(Writing') \in Nat /\ Cardinality(Writing) \in Nat /\ Cardinality(ByHand) \in Nat
      /\ MaxPolls \in Nat
  BY <1>2, <1>3, FS_CardinalityType, ModerationAssumption
<1>5. Cardinality(ByHand') + Cardinality(Writing') <= MaxPolls
  BY <1>1, <1>2, <1>3, <1>4
<1> QED
  BY <1>1, <1>2, <1>3, <1>5 DEF WritingBounded

LEMMA LocalTypes ==
  ASSUME TypeOK, SlotTypes, holds' \in [Processes -> SUBSET Resources],
         UNCHANGED Tables, faults' \in 0 .. MaxFaults
  PROVE  TypeOK'
BY DEF TypeOK, SlotTypes, Tables, submissions, media

LEMMA StableTables ==
  ASSUME TypeOK, NEW p \in Processes, UNCHANGED Tables
  PROVE  Stable(p)
BY DEF TypeOK, Stable, Tables, submissions, media, Taken

LEMMA LocalStep ==
  ASSUME IInv, NEW p \in Processes, SlotTypes, OtherSlots(p), MayHold(p), MayForm(p),
         UNCHANGED Tables, faults' \in 0 .. MaxFaults, Fits(p)', WritingBounded'
  PROVE  IInv'
<1>1. TypeOK /\ TypeOK'
  BY LocalTypes DEF IInv, MayHold
<1>2. Stable(p) /\ Others(p)
  BY <1>1, StableTables DEF Others, MayHold
<1>3. JobsFit'
  BY <1>1, <1>2, OthersFit DEF JobsFit
<1>4. Exclusive'
  BY DEF IInv, Exclusive, MayHold
<1>5. OneForm'
  BY DEF IInv, OneForm, OtherSlots, MayForm, Forms
<1>6. /\ ViolationsRejected' /\ ImagesOwned'
      /\ PollsMatchApprovals' /\ PublishedThroughApproval' /\ ApprovedImagesPublic'
      /\ ScreenedFirst' /\ BannedDeserved'
  BY DEF IInv, Tables, submissions, media, ViolationsRejected, ImagesOwned, PollsMatchApprovals,
         PublishedThroughApproval, ApprovedImagesPublic, ScreenedFirst, BannedDeserved, Strikes
<1> QED
  BY <1>1, <1>3, <1>4, <1>5, <1>6 DEF IInv

(* What a process holds after a step of its own.                           *)
LEMMA HoldKeeps ==
  ASSUME TypeOK, Exclusive, NEW p \in Processes, holds' = holds
  PROVE  MayHold(p)
BY DEF TypeOK, Exclusive, MayHold

LEMMA HoldAdds ==
  ASSUME TypeOK, Exclusive, NEW p \in Processes, NEW x \in Resources, Hold(p, x)
  PROVE  MayHold(p) /\ holds'[p] = holds[p] \union {x}
BY DEF TypeOK, Exclusive, MayHold, Hold, Free

LEMMA HoldEnds ==
  ASSUME TypeOK, Exclusive, NEW p \in Processes, Release(p)
  PROVE  MayHold(p) /\ holds'[p] = {}
BY DEF TypeOK, Exclusive, MayHold, Release

(* A step after which p is at rest, the tables as they were.               *)
LEMMA Rests ==
  ASSUME IInv, NEW p \in Processes, UNCHANGED Tables, faults' \in 0 .. MaxFaults,
         GiveUp(p) \/ Done(p), Release(p) \/ (holds' = holds /\ holds[p] = {})
  PROVE  IInv'
<1>1. TypeOK /\ Exclusive
  BY DEF IInv
<1>2. /\ SlotTypes /\ OtherSlots(p) /\ ~job'[p].ban
      /\ \/ pc'[p] = "idle" /\ job'[p].kind = "idle"
         \/ pc'[p] = "next" /\ job'[p].kind = "screen"
  BY <1>1, GiveUpSlot, DoneSlot, NoJobFits
<1>3. MayHold(p) /\ holds'[p] = {}
  BY <1>1, HoldEnds, HoldKeeps
<1>4. Fits(p)'
  BY <1>2, <1>3, AtRest
<1>5. MayForm(p)
  BY <1>2 DEF MayForm, Forms
<1>6. WritingBounded'
  BY <1>2, WritingKept DEF Tables, ByHand
<1> QED
  BY <1>2, <1>3, <1>4, <1>5, <1>6, LocalStep

(* A step that leaves the tables and the forms alone.                      *)
LEMMA PlainStep ==
  ASSUME IInv, NEW p \in Processes, SlotTypes, OtherSlots(p), MayHold(p), pc'[p] \notin Forms,
         job'[p].kind = "write" => job[p].kind = "write",
         UNCHANGED Tables, faults' = faults, Fits(p)'
  PROVE  IInv'
<1>1. MayForm(p)
  BY DEF MayForm
<1>2. WritingBounded'
  BY WritingKept DEF Tables, ByHand
<1>3. faults' \in 0 .. MaxFaults
  BY DEF IInv, TypeOK
<1> QED
  BY <1>1, <1>2, <1>3, LocalStep

------------------------------------------------------------------------------
(* Requests that arrive.                                                   *)

LEMMA SubmitStartStep ==
  ASSUME IInv, NEW r \in Requests, NEW s \in Submissions, SubmitStart(r, s)
  PROVE  IInv'
<1> DEFINE j == [NoJob EXCEPT !.kind = "submit", !.sub = s, !.images = Images[s]]
<1>0. TypeOK /\ Exclusive /\ r \in Processes /\ Images[s] \in Seq(Assets)
  BY ModerationAssumption DEF IInv, Processes
<1>1. /\ j \in Job /\ j.kind = "submit" /\ j.sub = s /\ j.images = Images[s] /\ ~j.ban
      /\ Start(r, "upload", j)
  BY <1>0, NoJobFits DEF Job, SubmitStart
<1> HIDE DEF j
<1>2. SlotTypes /\ OtherSlots(r) /\ pc[r] = "idle" /\ pc'[r] = "upload" /\ job'[r] = j
  BY <1>0, <1>1, StartSlot DEF Steps
<1>3. holds' = holds /\ holds[r] = {} /\ status'[s] = "none" /\ faults' \in 0 .. MaxFaults
  BY <1>0, <1>2 DEF SubmitStart, submissions, IInv, JobsFit, Fits, HoldsFit, TypeOK, Approving, Rejecting
<1>4. MayHold(r) /\ UNCHANGED Tables
  BY <1>0, <1>3, HoldKeeps DEF SubmitStart, Tables
<1>5. Fits(r)'
  BY <1>1, <1>2, <1>3
  DEF Fits, KindFits, HoldsFit, UploadFits, ImagesFit, CountFits, ImagesLocked, Approving, Rejecting
<1>6. MayForm(r)
  <2>1. \A q \in Requests : ~(job[q].kind = "submit" /\ job[q].sub = s)
    BY DEF SubmitStart
  <2>2. \A q \in Processes : pc[q] \in Forms => q \in Requests /\ job[q].kind = "submit"
    BY DEF IInv, JobsFit, Fits, KindFits, Forms
  <2> QED
    BY <1>1, <1>2, <2>1, <2>2 DEF MayForm
<1>7. WritingBounded'
  BY <1>0, <1>1, <1>2, <1>4, WritingKept DEF Tables, ByHand
<1> QED
  BY <1>0, <1>2, <1>3, <1>4, <1>5, <1>6, <1>7, LocalStep

LEMMA ApproveStartStep ==
  ASSUME IInv, NEW r \in Requests, NEW s \in Submissions, ApproveStart(r, s)
  PROVE  IInv'
<1> DEFINE j == [NoJob EXCEPT !.kind = "approve", !.sub = s, !.base = Base[s], !.images = Images[s]]
<1>0. TypeOK /\ Exclusive /\ r \in Processes /\ Images[s] \in Seq(Assets) /\ Base[s] \in Bases
  BY ModerationAssumption DEF IInv, Processes
<1>1. /\ j \in Job /\ j.kind = "approve" /\ j.sub = s /\ j.images = Images[s] /\ ~j.ban
      /\ Start(r, "claim", j)
  BY <1>0, NoJobFits DEF Job, ApproveStart
<1> HIDE DEF j
<1>2. SlotTypes /\ OtherSlots(r) /\ pc[r] = "idle" /\ pc'[r] = "claim" /\ job'[r] = j
  BY <1>0, <1>1, StartSlot DEF Steps
<1>3. holds' = holds /\ holds[r] = {} /\ faults' = faults /\ UNCHANGED Tables
  BY <1>0, <1>2 DEF ApproveStart, Tables, IInv, JobsFit, Fits, HoldsFit, Approving, Rejecting
<1>4. MayHold(r)
  BY <1>0, <1>3, HoldKeeps
<1>5. Fits(r)'
  BY <1>1, <1>2, <1>3
  DEF Fits, KindFits, HoldsFit, UploadFits, ImagesFit, CountFits, ImagesLocked, Approving, Rejecting
<1> QED
  BY <1>0, <1>1, <1>2, <1>3, <1>4, <1>5, PlainStep DEF Forms

LEMMA RejectStartStep ==
  ASSUME IInv, NEW r \in Requests, NEW s \in Submissions, NEW v \in BOOLEAN, RejectStart(r, s, v)
  PROVE  IInv'
<1> DEFINE j == [NoJob EXCEPT !.kind = "reject", !.sub = s, !.violation = v]
<1>0. TypeOK /\ Exclusive /\ r \in Processes
  BY DEF IInv, Processes
<1>1. j \in Job /\ j.kind = "reject" /\ j.sub = s /\ ~j.ban /\ Start(r, "mark", j)
  BY <1>0, NoJobFits DEF Job, RejectStart
<1> HIDE DEF j
<1>2. SlotTypes /\ OtherSlots(r) /\ pc[r] = "idle" /\ pc'[r] = "mark" /\ job'[r] = j
  BY <1>0, <1>1, StartSlot DEF Steps
<1>3. holds' = holds /\ holds[r] = {} /\ faults' = faults /\ UNCHANGED Tables
  BY <1>0, <1>2 DEF RejectStart, Tables, IInv, JobsFit, Fits, HoldsFit, Approving, Rejecting
<1>4. MayHold(r)
  BY <1>0, <1>3, HoldKeeps
<1>5. Fits(r)'
  BY <1>1, <1>2, <1>3
  DEF Fits, KindFits, HoldsFit, UploadFits, ImagesFit, CountFits, ImagesLocked, Approving, Rejecting
<1> QED
  BY <1>0, <1>1, <1>2, <1>3, <1>4, <1>5, PlainStep DEF Forms

LEMMA WriteStartStep ==
  ASSUME IInv, NEW r \in Requests, NEW b \in Bases, WriteStart(r, b)
  PROVE  IInv'
<1> DEFINE j == [NoJob EXCEPT !.kind = "write", !.base = b]
<1>0. TypeOK /\ Exclusive /\ r \in Processes
  BY DEF IInv, Processes
<1>1. /\ j \in Job /\ j.kind = "write" /\ j.sub = None /\ j.images = <<>> /\ ~j.ban
      /\ Start(r, "slug", j)
  BY <1>0, NoJobFits DEF Job, WriteStart
<1> HIDE DEF j
<1>2. SlotTypes /\ OtherSlots(r) /\ pc[r] = "idle" /\ pc'[r] = "slug" /\ job'[r] = j
  BY <1>0, <1>1, StartSlot DEF Steps
<1>3. holds' = holds /\ holds[r] = {} /\ faults' \in 0 .. MaxFaults /\ UNCHANGED Tables
  BY <1>0, <1>2 DEF WriteStart, Tables, IInv, JobsFit, Fits, HoldsFit, Approving, Rejecting, TypeOK
<1>4. MayHold(r)
  BY <1>0, <1>3, HoldKeeps
<1>5. Fits(r)'
  BY <1>1, <1>2, <1>3
  DEF Fits, KindFits, HoldsFit, UploadFits, ImagesFit, CountFits, ImagesLocked, Approving, Rejecting
<1>6. WritingBounded'
  <2>1. Writing' \subseteq Writing \union {r} /\ ByHand' = ByHand
    BY <1>2, <1>3 DEF OtherSlots, Writing, ByHand, Processes, Tables
  <2>2. /\ IsFiniteSet(Writing) /\ IsFiniteSet(ByHand)
        /\ Cardinality(ByHand) + Cardinality(Writing) < MaxPolls
    BY DEF IInv, WritingBounded, WriteStart, ByHand, Writing
  <2>3. /\ IsFiniteSet(Writing \union {r})
        /\ Cardinality(Writing \union {r}) <= Cardinality(Writing) + 1
        /\ Cardinality(Writing) \in Nat /\ Cardinality(ByHand) \in Nat
        /\ Cardinality(Writing \union {r}) \in Nat
    <3>1. /\ IsFiniteSet(Writing \union {r})
          /\ Cardinality(Writing \union {r}) =
               IF r \in Writing THEN Cardinality(Writing) ELSE Cardinality(Writing) + 1
      BY <2>2, FS_AddElement
    <3>2. Cardinality(Writing) \in Nat /\ Cardinality(ByHand) \in Nat
      BY <2>2, FS_CardinalityType
    <3> QED
      BY <3>1, <3>2
  <2>4. /\ IsFiniteSet(Writing') /\ Cardinality(Writing') <= Cardinality(Writing \union {r})
        /\ Cardinality(Writing') \in Nat
    BY <2>1, <2>3, FS_Subset, FS_CardinalityType
  <2>5. Cardinality(ByHand') + Cardinality(Writing') <= MaxPolls
    BY <2>1, <2>2, <2>3, <2>4, ModerationAssumption
  <2> QED
    BY <2>1, <2>2, <2>4, <2>5 DEF WritingBounded
<1>7. MayForm(r)
  BY <1>2 DEF MayForm, Forms
<1> QED
  BY <1>0, <1>2, <1>3, <1>4, <1>5, <1>6, <1>7, LocalStep

------------------------------------------------------------------------------
(* Approvals and polls written by hand, up to their commit.                *)

(* The steps of a transaction that has not locked anything yet.            *)
LEMMA ClaimStep ==
  ASSUME IInv, NEW r \in Requests, Claim(r)
  PROVE  IInv'
<1>0. TypeOK /\ Exclusive /\ r \in Processes /\ Fits(r)
  BY DEF IInv, Processes, JobsFit
<1>1. /\ pc[r] = "claim" /\ holds[r] = {} /\ job[r].sub \in Submissions /\ job[r].kind = "approve"
      /\ faults' = faults /\ UNCHANGED Tables
      /\ job[r].images = Images[job[r].sub] /\ ~job[r].ban
  BY <1>0, ModerationAssumption
  DEF Claim, At, Fits, KindFits, HoldsFit, ImagesFit, CountFits, Approving, Rejecting, Tables
<1>2. CASE status[job[r].sub] = "pending_admin"
  <2>1. Hold(r, Row(job[r].sub)) /\ Goto(r, "slug") /\ Row(job[r].sub) \in Resources
    BY <1>1, <1>2 DEF Claim, Row, Resources
  <2>2. MayHold(r) /\ holds'[r] = {Row(job[r].sub)}
    BY <1>0, <1>1, <2>1, HoldAdds
  <2>3. SlotTypes /\ OtherSlots(r) /\ pc'[r] = "slug" /\ job'[r] = job[r]
    BY <1>0, <2>1, GotoSlot DEF Steps
  <2>4. Fits(r)'
    BY <1>1, <1>2, <2>2, <2>3
    DEF Fits, KindFits, HoldsFit, UploadFits, ImagesFit, CountFits, ImagesLocked, Approving,
        Rejecting, Row, Tables, submissions
  <2> QED
    BY <1>0, <1>1, <2>2, <2>3, <2>4, PlainStep DEF Forms
<1>3. CASE status[job[r].sub] # "pending_admin"
  <2>1. Done(r) /\ holds' = holds /\ faults' \in 0 .. MaxFaults
    BY <1>0, <1>1, <1>3 DEF Claim, TypeOK
  <2> QED
    BY <1>0, <1>1, <2>1, Rests
<1> QED
  BY <1>2, <1>3

LEMMA InsertPollStep ==
  ASSUME IInv, NEW r \in Requests, InsertPoll(r)
  PROVE  IInv'
<1>0. TypeOK /\ Exclusive /\ r \in Processes /\ Fits(r) /\ job[r] \in Job
  BY DEF IInv, Processes, JobsFit, TypeOK
<1>1. pc[r] = "insert" /\ faults' = faults /\ UNCHANGED Tables
  BY DEF InsertPoll, At, Tables
<1>2. CASE Taken(job[r].slug)
  <2>1. GiveUp(r) /\ Release(r) /\ faults' \in 0 .. MaxFaults
    BY <1>0, <1>1, <1>2 DEF InsertPoll, TypeOK
  <2> QED
    BY <1>0, <1>1, <2>1, Rests
<1>3. CASE ~Taken(job[r].slug)
  <2>1. Hold(r, <<"slug", job[r].slug>>) /\ Goto(r, "publish") /\ <<"slug", job[r].slug>> \in Resources
    BY <1>0, <1>1, <1>3 DEF InsertPoll, Resources, Job
  <2>2. MayHold(r) /\ holds'[r] = holds[r] \union {<<"slug", job[r].slug>>}
    BY <1>0, <1>1, <2>1, HoldAdds
  <2>3. SlotTypes /\ OtherSlots(r) /\ pc'[r] = "publish" /\ job'[r] = job[r]
    BY <1>0, <2>1, GotoSlot DEF Steps
  <2>4. ImagesLocked(r)' = ImagesLocked(r)
    BY <2>2 DEF ImagesLocked
  <2>5. ~(Taken(job[r].slug)')
    BY <1>1, <1>3, <2>3 DEF Taken, Tables
  <2>6. KindFits(r)' /\ UploadFits(r)' /\ CountFits(r)'
    BY <1>0, <1>1, <2>3 DEF Fits, KindFits, UploadFits, CountFits, Approving, Rejecting
  <2>7. HoldsFit(r)'
    BY <1>0, <1>1, <2>2, <2>3, <2>5 DEF Fits, HoldsFit, Approving, Rejecting, Tables, submissions
  <2>8. ImagesFit(r)'
    BY <1>0, <1>1, <2>3, <2>4 DEF Fits, ImagesFit, Approving
  <2> QED
    BY <1>0, <1>1, <2>2, <2>3, <2>6, <2>7, <2>8, PlainStep DEF Forms, Fits
<1> QED
  BY <1>2, <1>3

LEMMA OfTail ==
  ASSUME NEW S, NEW s \in Seq(S), s # <<>>
  PROVE  /\ Head(s) \in S /\ Tail(s) \in Seq(S) /\ Head(s) \in Of(s)
         /\ Of(s) = {Head(s)} \union Of(Tail(s))
<1>1. Len(s) \in Nat /\ Len(s) > 0 /\ s[1] = Head(s) /\ Head(s) \in S /\ Tail(s) \in Seq(S)
      /\ Len(Tail(s)) = Len(s) - 1 /\ DOMAIN s = 1 .. Len(s) /\ DOMAIN Tail(s) = 1 .. Len(s) - 1
  OBVIOUS
<1>2. \A i \in 1 .. Len(s) - 1 : Tail(s)[i] = s[i + 1]
  BY <1>1
<1>3. ASSUME NEW i \in 1 .. Len(s) PROVE s[i] \in {Head(s)} \union Of(Tail(s))
  <2>1. CASE i = 1
    BY <1>1, <2>1
  <2>2. CASE i # 1
    <3>1. i - 1 \in 1 .. Len(s) - 1 /\ Tail(s)[i - 1] = s[i]
      BY <1>1, <1>2, <2>2
    <3> QED
      BY <1>1, <3>1 DEF Of
  <2> QED
    BY <2>1, <2>2
<1>4. ASSUME NEW i \in 1 .. Len(s) - 1 PROVE Tail(s)[i] \in Of(s)
  <2>1. i + 1 \in 1 .. Len(s) /\ Tail(s)[i] = s[i + 1]
    BY <1>1, <1>2
  <2> QED
    BY <1>1, <2>1 DEF Of
<1>5. Head(s) \in Of(s)
  BY <1>1 DEF Of
<1>6. Of(s) \subseteq {Head(s)} \union Of(Tail(s))
  BY <1>1, <1>3 DEF Of
<1>7. Of(Tail(s)) \subseteq Of(s)
  BY <1>1, <1>4 DEF Of
<1> QED
  BY <1>1, <1>5, <1>6, <1>7

LEMMA PublishStep ==
  ASSUME IInv, NEW r \in Requests, Publish(r)
  PROVE  IInv'
<1>0. TypeOK /\ Exclusive /\ r \in Processes /\ Fits(r) /\ job[r] \in Job
  BY DEF IInv, Processes, JobsFit, TypeOK
<1>1. pc[r] = "publish" /\ faults' = faults /\ UNCHANGED Tables
  BY DEF Publish, At, Tables
<1>2. CASE job[r].images = <<>>
  <2>1. Goto(r, "approved") /\ holds' = holds
    BY <1>2 DEF Publish
  <2>2. MayHold(r)
    BY <1>0, <2>1, HoldKeeps
  <2>3. SlotTypes /\ OtherSlots(r) /\ pc'[r] = "approved" /\ job'[r] = job[r]
    BY <1>0, <2>1, GotoSlot DEF Steps
  <2>4. ImagesLocked(r)' = ImagesLocked(r) /\ Of(job[r].images) = {}
    BY <1>2, <2>1 DEF ImagesLocked, Of
  <2>5. Taken(job[r].slug)' = Taken(job[r].slug)
    BY <1>1, <2>3 DEF Taken, Tables
  <2>6. KindFits(r)' /\ UploadFits(r)' /\ CountFits(r)'
    BY <1>0, <1>1, <2>3 DEF Fits, KindFits, UploadFits, CountFits, Approving, Rejecting
  <2>7. HoldsFit(r)'
    BY <1>0, <1>1, <2>1, <2>3, <2>5 DEF Fits, HoldsFit, Approving, Rejecting, Tables, submissions
  <2>8. ImagesFit(r)'
    BY <1>0, <1>1, <2>3, <2>4 DEF Fits, ImagesFit, Approving
  <2> QED
    BY <1>0, <1>1, <2>2, <2>3, <2>6, <2>7, <2>8, PlainStep DEF Forms, Fits
<1>3. CASE job[r].images # <<>>
  <2> DEFINE a == Head(job[r].images)
             j == [job[r] EXCEPT !.images = Tail(job[r].images)]
  <2>1. job[r].images \in Seq(Assets)
    BY <1>0 DEF Job
  <2>2. /\ a \in Assets /\ Tail(job[r].images) \in Seq(Assets) /\ a \in Of(job[r].images)
        /\ Of(job[r].images) = {a} \union Of(Tail(job[r].images))
    BY <1>3, <2>1, OfTail
  <2>3. /\ j \in Job /\ j.images = Tail(job[r].images) /\ j.sub = job[r].sub /\ j.kind = job[r].kind
        /\ j.ban = job[r].ban /\ j.slug = job[r].slug /\ j.violation = job[r].violation
    BY <1>0, <2>2 DEF Job
  <2>4. /\ Hold(r, <<"asset", a>>) /\ <<"asset", a>> \in Resources
        /\ pc' = [pc EXCEPT ![r] = "publish"] /\ job' = [job EXCEPT ![r] = j]
    BY <1>0, <1>1, <1>3, <2>2 DEF Publish, Resources, TypeOK
  <2> HIDE DEF j, a
  <2>5. SlotTypes /\ OtherSlots(r) /\ pc'[r] = "publish" /\ job'[r] = j
    BY <1>0, <2>3, <2>4, JobSlot DEF Steps
  <2>6. MayHold(r) /\ holds'[r] = holds[r] \union {<<"asset", a>>}
    BY <1>0, <2>4, HoldAdds
  <2>7. ImagesLocked(r)' = ImagesLocked(r) \union {a}
    BY <2>2, <2>6 DEF ImagesLocked
  <2>8. Taken(job[r].slug)' = Taken(job[r].slug)
    BY <1>1, <2>3, <2>5 DEF Taken, Tables
  <2>9. KindFits(r)' /\ UploadFits(r)' /\ CountFits(r)'
    <3>1. job[r].sub # None
      BY <1>0, <1>1, <1>3, ModerationAssumption DEF Fits, KindFits, Approving
    <3> QED
      BY <1>0, <1>1, <2>3, <2>5, <3>1 DEF Fits, KindFits, UploadFits, CountFits, Approving, Rejecting
  <2>10. HoldsFit(r)'
    BY <1>0, <1>1, <2>3, <2>5, <2>6, <2>8 DEF Fits, HoldsFit, Approving, Rejecting, Tables, submissions
  <2>11. ImagesFit(r)'
    <3>1. job[r].sub # None
      BY <1>0, <1>1, <1>3, ModerationAssumption DEF Fits, KindFits, Approving
    <3> QED
      BY <1>0, <1>1, <2>2, <2>3, <2>5, <2>7, <3>1 DEF Fits, ImagesFit, Approving
  <2> QED
    BY <1>0, <1>1, <2>3, <2>5, <2>6, <2>9, <2>10, <2>11, PlainStep DEF Forms, Fits
<1> QED
  BY <1>2, <1>3

LEMMA LeastNat ==
  ASSUME NEW S \in SUBSET Nat, S # {}
  PROVE  \E n \in S : \A m \in S : n <= m
<1> DEFINE R == OpToRel(<, Nat)
<1>1. IsWellFoundedOn(R, Nat)
  BY NatLessThanWellFounded
<1>2. \A m, n \in Nat : <<m, n>> \in R <=> m < n
  BY DEF OpToRel
<1> HIDE DEF R
<1>3. \E n \in S : \A m \in S : ~ (<<m, n>> \in R)
  BY <1>1, WFMin
<1>4. PICK n \in S : \A m \in S : ~ (<<m, n>> \in R)
  BY <1>3
<1>5. \A m \in S : ~ (m < n)
  BY <1>2, <1>4
<1> QED
  BY <1>5

(* There are fewer polls than addresses to try: those of submissions pair  *)
(* off with them and those written by hand keep within their bound.        *)
LEMMA FewPolls ==
  ASSUME TypeOK, PollsMatchApprovals, WritingBounded
  PROVE  IsFiniteSet(polls) /\ Cardinality(polls) <= Cardinality(Submissions) + MaxPolls
<1> DEFINE Rest == {p \in polls : p.sub # None}
           g == [p \in Rest |-> p.sub]
<1>1. g \in Injection(Rest, Submissions)
  <2>1. \A p \in Rest : p.sub \in Submissions
    BY DEF TypeOK
  <2>2. \A p, q \in Rest : p.sub = q.sub => p = q
    BY DEF PollsMatchApprovals
  <2> QED
    BY <2>1, <2>2 DEF Injection, IsInjective
<1>2. IsFiniteSet(Rest) /\ Cardinality(Rest) <= Cardinality(Submissions)
  BY <1>1, FS_Injection, ModerationAssumption
<1>3. IsFiniteSet(ByHand) /\ IsFiniteSet(Writing) /\ Cardinality(ByHand) + Cardinality(Writing) <= MaxPolls
  BY DEF WritingBounded
<1>4. polls = ByHand \union Rest /\ ByHand \intersect Rest = {}
  BY DEF ByHand
<1>5. /\ Cardinality(Rest) \in Nat /\ Cardinality(Submissions) \in Nat /\ Cardinality(ByHand) \in Nat
      /\ Cardinality(Writing) \in Nat /\ MaxPolls \in Nat
  BY <1>2, <1>3, FS_CardinalityType, ModerationAssumption
<1> HIDE DEF Rest
<1>6. /\ IsFiniteSet(ByHand \union Rest)
      /\ Cardinality(ByHand \union Rest)
           = Cardinality(ByHand) + Cardinality(Rest) - Cardinality(ByHand \intersect Rest)
  BY <1>2, <1>3, FS_Union
<1>7. Cardinality(ByHand \intersect Rest) = 0
  BY <1>4, FS_EmptySet
<1> QED
  BY <1>2, <1>3, <1>4, <1>5, <1>6, <1>7

LEMMA FreeSlugType ==
  ASSUME IInv, NEW b \in Bases
  PROVE  FreeSlug(b) \in Slugs
<1> DEFINE C == Candidates[b]
           L == Len(C)
           free == {n \in 1 .. L : ~Taken(C[n])}
<1>1. C \in Seq(Slugs) /\ L \in Nat /\ DOMAIN C = 1 .. L /\ L > Cardinality(Submissions) + MaxPolls
      /\ \A m, n \in 1 .. L : C[m] = C[n] => m = n
  BY ModerationAssumption
<1>2. IsFiniteSet(polls) /\ Cardinality(polls) <= Cardinality(Submissions) + MaxPolls
  BY FewPolls DEF IInv
<1>3. /\ Cardinality(polls) \in Nat /\ Cardinality(Submissions) \in Nat /\ MaxPolls \in Nat
      /\ IsFiniteSet(1 .. L) /\ Cardinality(1 .. L) = L
  <2>1. IsFiniteSet(1 .. L) /\ Cardinality(1 .. L) = IF 1 > L THEN 0 ELSE L - 1 + 1
    BY <1>1, FS_Interval, SMTT(30)
  <2> QED
    BY <1>1, <1>2, <2>1, FS_CardinalityType, ModerationAssumption
<1> HIDE DEF C, L
<1>4. free # {}
  <2> SUFFICES ASSUME \A n \in 1 .. L : Taken(C[n]) PROVE FALSE
    OBVIOUS
  <2> DEFINE f == [n \in 1 .. L |-> CHOOSE p \in polls : p.slug = C[n]]
  <2>1. \A n \in 1 .. L : f[n] \in polls /\ f[n].slug = C[n]
    BY DEF Taken
  <2> HIDE DEF f
  <2>2. f \in [1 .. L -> polls]
    BY <2>1 DEF f
  <2>3. Cardinality(polls) < Cardinality(1 .. L)
    BY <1>1, <1>2, <1>3
  <2>4. \E m, n \in 1 .. L : m # n /\ f[m] = f[n]
    BY <1>2, <1>3, <2>2, <2>3, FS_PigeonHole
  <2> QED
    BY <1>1, <2>1, <2>4
<1>5. PICK n \in free : \A m \in free : n <= m
  <2>1. free \in SUBSET Nat
    OBVIOUS
  <2> HIDE DEF free
  <2> QED
    BY <1>4, <2>1, LeastNat
<1>6. n \in 1 .. L /\ ~Taken(C[n]) /\ \A m \in 1 .. n - 1 : Taken(C[m])
  BY <1>1, <1>5
<1>7. \E k \in 1 .. L : ~Taken(C[k]) /\ \A m \in 1 .. k - 1 : Taken(C[m])
  BY <1>6
<1>8. (CHOOSE k \in 1 .. L : ~Taken(C[k]) /\ \A m \in 1 .. k - 1 : Taken(C[m])) \in 1 .. L
  BY <1>7
<1>9. FreeSlug(b) = C[CHOOSE k \in 1 .. L : ~Taken(C[k]) /\ \A m \in 1 .. k - 1 : Taken(C[m])]
  BY <1>1 DEF FreeSlug, C
<1> QED
  BY <1>1, <1>8, <1>9

LEMMA ChooseSlugStep ==
  ASSUME IInv, NEW r \in Requests, ChooseSlug(r)
  PROVE  IInv'
<1> DEFINE j == [job[r] EXCEPT !.slug = FreeSlug(job[r].base)]
<1>0. TypeOK /\ Exclusive /\ r \in Processes /\ Fits(r) /\ job[r] \in Job
  BY DEF IInv, Processes, JobsFit, TypeOK
<1>1. FreeSlug(job[r].base) \in Slugs
  BY <1>0, FreeSlugType DEF Job
<1>2. /\ j \in Job /\ j.sub = job[r].sub /\ j.kind = job[r].kind /\ j.images = job[r].images
      /\ j.ban = job[r].ban /\ j.violation = job[r].violation
  BY <1>0, <1>1 DEF Job
<1>3. /\ pc[r] = "slug" /\ pc' = [pc EXCEPT ![r] = "insert"] /\ job' = [job EXCEPT ![r] = j]
      /\ holds' = holds /\ faults' = faults /\ UNCHANGED Tables
  BY <1>0 DEF ChooseSlug, At, Tables, TypeOK
<1> HIDE DEF j
<1>4. SlotTypes /\ OtherSlots(r) /\ pc'[r] = "insert" /\ job'[r] = j
  BY <1>0, <1>2, <1>3, JobSlot DEF Steps
<1>5. MayHold(r) /\ ImagesLocked(r)' = ImagesLocked(r)
  BY <1>0, <1>3, HoldKeeps DEF ImagesLocked
<1>6. KindFits(r)' /\ UploadFits(r)' /\ CountFits(r)' /\ ImagesFit(r)'
  BY <1>0, <1>2, <1>3, <1>4, <1>5
  DEF Fits, KindFits, UploadFits, CountFits, ImagesFit, Approving, Rejecting
<1>7. HoldsFit(r)'
  BY <1>0, <1>2, <1>3, <1>4 DEF Fits, HoldsFit, Approving, Rejecting, Tables, submissions
<1> QED
  BY <1>0, <1>2, <1>3, <1>4, <1>5, <1>6, <1>7, PlainStep DEF Forms, Fits

------------------------------------------------------------------------------
(* Rejections up to their commit.                                          *)

LEMMA MarkStep ==
  ASSUME IInv, NEW p \in Processes, Mark(p)
  PROVE  IInv'
<1> DEFINE step == IF job[p].violation THEN "count" ELSE "marked"
<1>0. TypeOK /\ Exclusive /\ Fits(p) /\ job[p] \in Job
  BY DEF IInv, JobsFit, TypeOK
<1>1. /\ pc[p] = "mark" /\ holds[p] = {} /\ job[p].sub \in Submissions
      /\ job[p].kind \in {"reject", "screen"} /\ ~job[p].ban
      /\ faults' = faults /\ UNCHANGED Tables
  BY <1>0 DEF Mark, At, Fits, KindFits, HoldsFit, CountFits, Approving, Rejecting, Tables
<1>2. CASE status[job[p].sub] = Awaited(p)
  <2>1. Hold(p, Row(job[p].sub)) /\ Goto(p, step) /\ Row(job[p].sub) \in Resources /\ step \in Steps
    BY <1>1, <1>2 DEF Mark, Row, Resources, Steps
  <2>2. step \in {"count", "marked"} /\ (step = "count" => job[p].violation)
    OBVIOUS
  <2> HIDE DEF step
  <2>3. MayHold(p) /\ holds'[p] = {Row(job[p].sub)}
    BY <1>0, <1>1, <2>1, HoldAdds
  <2>4. SlotTypes /\ OtherSlots(p) /\ pc'[p] = step /\ job'[p] = job[p]
    BY <1>0, <2>1, GotoSlot
  <2>5. ImagesLocked(p)' = {} /\ Awaited(p)' = Awaited(p)
    BY <2>3, <2>4 DEF ImagesLocked, Row, Awaited
  <2>6. KindFits(p)' /\ UploadFits(p)' /\ CountFits(p)' /\ ImagesFit(p)'
    BY <1>0, <1>1, <2>2, <2>4, <2>5
    DEF Fits, KindFits, UploadFits, CountFits, ImagesFit, Approving, Rejecting
  <2>7. HoldsFit(p)'
    BY <1>1, <1>2, <2>2, <2>3, <2>4, <2>5 DEF HoldsFit, Approving, Rejecting, Tables, submissions
  <2> QED
    BY <1>0, <1>1, <2>2, <2>3, <2>4, <2>6, <2>7, PlainStep DEF Forms, Fits
<1>3. CASE status[job[p].sub] # Awaited(p)
  <2>1. Done(p) /\ holds' = holds /\ faults' \in 0 .. MaxFaults
    BY <1>0, <1>1, <1>3 DEF Mark, TypeOK
  <2> QED
    BY <1>0, <1>1, <2>1, Rests
<1> QED
  BY <1>2, <1>3

LEMMA CountStrikesStep ==
  ASSUME IInv, NEW p \in Processes, CountStrikes(p)
  PROVE  IInv'
<1> DEFINE n == Cardinality(Strikes(Author[job[p].sub]) \union {job[p].sub})
           step == IF n < StrikeLimit THEN "marked" ELSE "ban"
<1>0. TypeOK /\ Exclusive /\ Fits(p) /\ job[p] \in Job
  BY DEF IInv, JobsFit, TypeOK
<1>1. /\ pc[p] = "count" /\ job[p].sub \in Submissions
      /\ job[p].kind \in {"reject", "screen"} /\ ~job[p].ban /\ job[p].violation
      /\ holds' = holds /\ faults' = faults /\ UNCHANGED Tables /\ Goto(p, step)
  BY <1>0 DEF CountStrikes, At, Fits, KindFits, HoldsFit, CountFits, Approving, Rejecting, Tables
<1>2. n \in Nat /\ StrikeLimit \in Nat
  <2>1. Strikes(Author[job[p].sub]) \union {job[p].sub} \subseteq Submissions
    BY <1>1 DEF Strikes
  <2> QED
    BY <2>1, FS_Subset, FS_CardinalityType, ModerationAssumption
<1>3. step \in {"marked", "ban"} /\ (step = "ban" => Enough(job[p].sub)) /\ step \in Steps
  BY <1>2 DEF Enough, Steps
<1> HIDE DEF n, step
<1>4. SlotTypes /\ OtherSlots(p) /\ pc'[p] = step /\ job'[p] = job[p]
  BY <1>0, <1>1, <1>3, GotoSlot
<1>5. MayHold(p) /\ ImagesLocked(p)' = ImagesLocked(p) /\ Awaited(p)' = Awaited(p)
      /\ Enough(job[p].sub)' = Enough(job[p].sub)
  BY <1>0, <1>1, <1>4, HoldKeeps
  DEF ImagesLocked, Awaited, Enough, Strikes, Tables, submissions
<1>6. KindFits(p)' /\ UploadFits(p)' /\ CountFits(p)' /\ ImagesFit(p)'
  BY <1>0, <1>1, <1>3, <1>4, <1>5
  DEF Fits, KindFits, UploadFits, CountFits, ImagesFit, Approving, Rejecting
<1>7. HoldsFit(p)'
  BY <1>0, <1>1, <1>3, <1>4, <1>5 DEF Fits, HoldsFit, Approving, Rejecting, Tables, submissions
<1> QED
  BY <1>0, <1>1, <1>3, <1>4, <1>5, <1>6, <1>7, PlainStep DEF Forms, Fits

LEMMA BanAuthorStep ==
  ASSUME IInv, NEW p \in Processes, BanAuthor(p)
  PROVE  IInv'
<1> DEFINE j == [job[p] EXCEPT !.ban = TRUE]
           u == <<"user", Author[job[p].sub]>>
<1>0. TypeOK /\ Exclusive /\ Fits(p) /\ job[p] \in Job
  BY DEF IInv, JobsFit, TypeOK
<1>1. /\ j \in Job /\ j.sub = job[p].sub /\ j.kind = job[p].kind /\ j.ban
      /\ j.violation = job[p].violation
  BY <1>0 DEF Job
<1>2. /\ pc[p] = "ban" /\ job[p].sub \in Submissions /\ job[p].violation /\ Enough(job[p].sub)
      /\ pc' = [pc EXCEPT ![p] = "marked"] /\ job' = [job EXCEPT ![p] = j]
      /\ Hold(p, u) /\ faults' = faults /\ UNCHANGED Tables
  BY <1>0 DEF BanAuthor, At, Fits, KindFits, CountFits, Approving, Rejecting, Tables, TypeOK
<1>3. u \in Resources
  BY <1>2, ModerationAssumption DEF Resources
<1> HIDE DEF j
<1>4. SlotTypes /\ OtherSlots(p) /\ pc'[p] = "marked" /\ job'[p] = j
  BY <1>0, <1>1, <1>2, JobSlot DEF Steps
<1>5. MayHold(p) /\ holds'[p] = holds[p] \union {u}
  BY <1>0, <1>2, <1>3, HoldAdds
<1>6. ImagesLocked(p)' = ImagesLocked(p) /\ Awaited(p)' = Awaited(p)
      /\ Enough(job[p].sub)'
  BY <1>1, <1>2, <1>4, <1>5 DEF ImagesLocked, Awaited, Enough, Strikes, Tables, submissions
<1>7. KindFits(p)' /\ UploadFits(p)' /\ CountFits(p)' /\ ImagesFit(p)'
  BY <1>0, <1>1, <1>2, <1>4, <1>6
  DEF Fits, KindFits, UploadFits, CountFits, ImagesFit, Approving, Rejecting
<1>8. HoldsFit(p)'
  BY <1>0, <1>1, <1>2, <1>4, <1>5, <1>6 DEF Fits, HoldsFit, Approving, Rejecting, Tables, submissions
<1> QED
  BY <1>0, <1>1, <1>2, <1>4, <1>5, <1>7, <1>8, PlainStep DEF Forms, Fits

------------------------------------------------------------------------------
(* The review loop up to what it writes, and faults.                       *)

(* The n-th oldest waiting place exists: the places rank one after another.*)
LEMMA OldestType ==
  ASSUME TypeOK, NEW n \in Nat, n <= Cardinality(Pending)
  PROVE  Oldest(n) \in Seq(Submissions)
<1> DEFINE N == Cardinality(Pending)
           f == [i \in Pending |-> Cardinality(Ahead(i))]
<1>1. /\ Len(queue) \in Nat /\ DOMAIN queue = 1 .. Len(queue)
      /\ \A i \in 1 .. Len(queue) : queue[i] \in Submissions
  BY DEF TypeOK
<1>2. IsFiniteSet(Pending) /\ N \in Nat /\ Pending \subseteq 1 .. Len(queue)
  <2>1. IsFiniteSet(1 .. Len(queue)) /\ Pending \subseteq 1 .. Len(queue)
    BY <1>1, FS_Interval DEF Pending
  <2> QED
    BY <2>1, FS_Subset, FS_CardinalityType
<1>3. ASSUME NEW i \in Pending
      PROVE  IsFiniteSet(Ahead(i)) /\ Cardinality(Ahead(i)) \in 1 .. N
  <2>1. i \in Ahead(i) /\ Ahead(i) \subseteq Pending
    BY <1>1, <1>2 DEF Ahead
  <2>2. IsFiniteSet(Ahead(i)) /\ Cardinality(Ahead(i)) <= N
    BY <1>2, <2>1, FS_Subset
  <2>3. Cardinality(Ahead(i)) \in Nat /\ Cardinality(Ahead(i)) # 0
    BY <2>1, <2>2, FS_CardinalityType, FS_EmptySet
  <2> QED
    BY <1>2, <2>2, <2>3
<1>4. ASSUME NEW i \in Pending, NEW k \in Pending, i < k
      PROVE  Cardinality(Ahead(i)) # Cardinality(Ahead(k))
  <2>0. i \in Nat /\ k \in Nat /\ \A x \in Pending : x \in Nat
    BY <1>1, <1>2
  <2>1. Ahead(i) \subseteq Ahead(k)
    <3> SUFFICES ASSUME NEW x \in Pending, x <= i PROVE x <= k
      BY DEF Ahead
    <3> QED
      BY <1>4, <2>0
  <2>2. k \in Ahead(k) /\ k \notin Ahead(i)
    BY <1>4, <2>0 DEF Ahead
  <2> QED
    BY <1>3, <2>1, <2>2, FS_Subset
<1>5. ASSUME NEW i \in Pending, NEW k \in Pending, Cardinality(Ahead(i)) = Cardinality(Ahead(k))
      PROVE  i = k
  BY <1>1, <1>2, <1>4, <1>5
<1>6. f \in Injection(Pending, 1 .. N)
  BY <1>3, <1>5 DEF Injection, IsInjective
<1>7. IsFiniteSet(1 .. N) /\ Cardinality(1 .. N) = N
  BY <1>2, FS_Interval
<1>8. f \in Surjection(Pending, 1 .. N)
  BY <1>6, <1>7, FS_Injection
<1>9. ASSUME NEW k \in 1 .. n
      PROVE  queue[CHOOSE i \in Pending : Cardinality(Ahead(i)) = k] \in Submissions
  <2>1. k \in 1 .. N
    BY <1>2
  <2>2. \E i \in Pending : Cardinality(Ahead(i)) = k
    BY <1>8, <2>1 DEF Surjection
  <2>3. (CHOOSE i \in Pending : Cardinality(Ahead(i)) = k) \in Pending
    BY <2>2
  <2> QED
    BY <1>1, <1>2, <2>3
<1>10. Oldest(n) \in [1 .. n -> Submissions]
  BY <1>9 DEF Oldest
<1> QED
  BY <1>10 DEF Oldest

LEMMA SweepStep ==
  ASSUME IInv, NEW w \in Workers, Sweep(w)
  PROVE  IInv'
<1> DEFINE n == IF Cardinality(Pending) < BatchLimit THEN Cardinality(Pending) ELSE BatchLimit
           j == [NoJob EXCEPT !.kind = "screen", !.batch = Oldest(n)]
<1>0. TypeOK /\ Exclusive /\ w \in Processes
  BY DEF IInv, Processes
<1>1. Cardinality(Pending) \in Nat /\ BatchLimit \in Nat
  <2>1. DOMAIN queue = 1 .. Len(queue) /\ Len(queue) \in Nat
    BY <1>0 DEF TypeOK
  <2>2. IsFiniteSet(1 .. Len(queue)) /\ Pending \subseteq 1 .. Len(queue)
    BY <2>1, FS_Interval DEF Pending
  <2> QED
    BY <2>2, FS_Subset, FS_CardinalityType, ModerationAssumption
<1>2. n \in Nat /\ n <= Cardinality(Pending)
  BY <1>1
<1>3. Start(w, "next", j)
  BY DEF Sweep
<1> HIDE DEF n
<1>4. Oldest(n) \in Seq(Submissions)
  BY <1>0, <1>2, OldestType
<1>5. j \in Job /\ j.kind = "screen" /\ ~j.ban
  BY <1>0, <1>4, NoJobFits DEF Job
<1> HIDE DEF j
<1>6. SlotTypes /\ OtherSlots(w) /\ pc[w] = "idle" /\ pc'[w] = "next" /\ job'[w] = j
  BY <1>0, <1>3, <1>5, StartSlot DEF Steps
<1>7. holds' = holds /\ holds[w] = {} /\ faults' = faults /\ UNCHANGED Tables
  BY <1>0, <1>6 DEF Sweep, Tables, IInv, JobsFit, Fits, HoldsFit, Approving, Rejecting
<1>8. MayHold(w)
  BY <1>0, <1>7, HoldKeeps
<1>9. Fits(w)'
  BY <1>0, <1>5, <1>6, <1>7, AtRest
<1> QED
  BY <1>0, <1>5, <1>6, <1>7, <1>8, <1>9, PlainStep DEF Forms

LEMMA NextInBatchStep ==
  ASSUME IInv, NEW w \in Workers, NextInBatch(w)
  PROVE  IInv'
<1> DEFINE j == [job[w] EXCEPT !.sub = Head(job[w].batch), !.batch = Tail(job[w].batch)]
<1>0. TypeOK /\ Exclusive /\ w \in Processes /\ Fits(w) /\ job[w] \in Job
  BY DEF IInv, Processes, JobsFit, TypeOK
<1>1. /\ pc[w] = "next" /\ holds[w] = {} /\ job[w].kind = "screen" /\ ~job[w].ban
      /\ holds' = holds /\ faults' = faults /\ UNCHANGED Tables
  BY <1>0 DEF NextInBatch, At, Fits, KindFits, HoldsFit, CountFits, Approving, Rejecting, Tables
<1>2. CASE job[w].batch = <<>>
  <2>1. GiveUp(w) /\ faults' \in 0 .. MaxFaults
    BY <1>0, <1>1, <1>2 DEF NextInBatch, TypeOK
  <2> QED
    BY <1>0, <1>1, <2>1, Rests
<1>3. CASE job[w].batch # <<>>
  <2>1. job[w].batch \in Seq(Submissions)
    BY <1>0 DEF Job
  <2>2. Head(job[w].batch) \in Submissions /\ Tail(job[w].batch) \in Seq(Submissions)
    BY <1>3, <2>1, OfTail
  <2>3. j \in Job /\ j.sub \in Submissions /\ j.kind = "screen" /\ ~j.ban
    BY <1>0, <1>1, <2>2 DEF Job
  <2>4. pc' = [pc EXCEPT ![w] = "review"] /\ job' = [job EXCEPT ![w] = j]
    BY <1>0, <1>3 DEF NextInBatch, TypeOK
  <2> HIDE DEF j
  <2>5. SlotTypes /\ OtherSlots(w) /\ pc'[w] = "review" /\ job'[w] = j
    BY <1>0, <2>3, <2>4, JobSlot DEF Steps
  <2>6. MayHold(w)
    BY <1>0, <1>1, HoldKeeps
  <2>7. Fits(w)'
    BY <1>1, <2>3, <2>5
    DEF Fits, KindFits, HoldsFit, UploadFits, ImagesFit, CountFits, ImagesLocked, Approving, Rejecting
  <2> QED
    BY <1>0, <1>1, <2>3, <2>5, <2>6, <2>7, PlainStep DEF Forms
<1> QED
  BY <1>2, <1>3

LEMMA VerdictStep ==
  ASSUME IInv, NEW w \in Workers, Verdict(w)
  PROVE  IInv'
<1> DEFINE j == [job[w] EXCEPT !.violation = TRUE]
<1>0. TypeOK /\ Exclusive /\ w \in Processes /\ Fits(w) /\ job[w] \in Job
  BY DEF IInv, Processes, JobsFit, TypeOK
<1>1. /\ pc[w] = "review" /\ holds[w] = {} /\ job[w].kind = "screen" /\ ~job[w].ban
      /\ job[w].sub \in Submissions
      /\ holds' = holds /\ faults' = faults /\ UNCHANGED Tables
  BY <1>0 DEF Verdict, At, Fits, KindFits, HoldsFit, CountFits, Approving, Rejecting, Tables
<1>2. j \in Job /\ j.kind = "screen" /\ ~j.ban /\ j.sub = job[w].sub
  BY <1>0, <1>1 DEF Job
<1>3. \/ Goto(w, "allow")
      \/ pc' = [pc EXCEPT ![w] = "mark"] /\ job' = [job EXCEPT ![w] = j]
      \/ Goto(w, "bump")
  BY <1>0 DEF Verdict, TypeOK
<1> HIDE DEF j
<1>4. /\ SlotTypes /\ OtherSlots(w) /\ pc'[w] \in {"allow", "mark", "bump"}
      /\ job'[w].kind = "screen" /\ ~job'[w].ban /\ job'[w].sub \in Submissions
  <2>1. CASE Goto(w, "allow")
    BY <1>0, <1>1, <2>1, GotoSlot DEF Steps
  <2>2. CASE pc' = [pc EXCEPT ![w] = "mark"] /\ job' = [job EXCEPT ![w] = j]
    BY <1>0, <1>1, <1>2, <2>2, JobSlot, ZenonT(30) DEF Steps
  <2>3. CASE Goto(w, "bump")
    BY <1>0, <1>1, <2>3, GotoSlot DEF Steps
  <2> QED
    BY <1>3, <2>1, <2>2, <2>3
<1>5. MayHold(w)
  BY <1>0, <1>1, HoldKeeps
<1>6. Fits(w)'
  BY <1>1, <1>4
  DEF Fits, KindFits, HoldsFit, UploadFits, ImagesFit, CountFits, ImagesLocked, Approving, Rejecting
<1> QED
  BY <1>0, <1>1, <1>4, <1>5, <1>6, PlainStep DEF Forms

LEMMA FailStep ==
  ASSUME IInv, NEW p \in Processes, Fail(p) \/ BreakDeadlock(p)
  PROVE  IInv'
<1>1. /\ GiveUp(p) /\ Release(p) /\ UNCHANGED Tables
      /\ (faults' = faults \/ (faults < MaxFaults /\ faults' = faults + 1))
  BY DEF Fail, BreakDeadlock, Tables
<1>2. faults' \in 0 .. MaxFaults
  BY <1>1, ModerationAssumption DEF IInv, TypeOK
<1> QED
  BY <1>1, <1>2, Rests

------------------------------------------------------------------------------
(* Steps that write to the tables.                                         *)

LEMMA UploadStep ==
  ASSUME IInv, NEW r \in Requests, Upload(r)
  PROVE  IInv'
<1>0. TypeOK /\ Exclusive /\ r \in Processes /\ Fits(r) /\ job[r] \in Job
  BY DEF IInv, Processes, JobsFit, TypeOK
<1>1. /\ pc[r] = "upload" /\ holds[r] = {} /\ job[r].kind = "submit" /\ job[r].sub \in Submissions
      /\ status[job[r].sub] = "none" /\ ~job[r].ban
      /\ holds' = holds /\ faults' = faults
      /\ UNCHANGED <<submissions, banned, published, polls>>
  BY <1>0 DEF Upload, At, Fits, KindFits, HoldsFit, UploadFits, CountFits, Approving, Rejecting
<1>2. CASE job[r].images = <<>>
  <2>1. Goto(r, "create") /\ UNCHANGED Tables
    BY <1>1, <1>2 DEF Upload, Tables, media
  <2>2. SlotTypes /\ OtherSlots(r) /\ pc'[r] = "create" /\ job'[r] = job[r]
    BY <1>0, <2>1, GotoSlot DEF Steps
  <2>3. MayHold(r) /\ ImagesLocked(r)' = ImagesLocked(r) /\ Of(job[r].images) = {}
    BY <1>0, <1>1, <1>2, HoldKeeps DEF ImagesLocked, Of
  <2>4. Fits(r)'
    BY <1>0, <1>1, <2>1, <2>2, <2>3
    DEF Fits, KindFits, HoldsFit, UploadFits, ImagesFit, CountFits, Approving, Rejecting, Tables,
        submissions, media
  <2>5. MayForm(r)
    <3>1. \A q \in Processes : q # r => ~(pc[q] \in Forms /\ job[q].sub = job[r].sub)
      BY <1>0, <1>1 DEF IInv, OneForm, Forms
    <3> QED
      BY <2>2, <3>1 DEF MayForm
  <2>6. WritingBounded' /\ faults' \in 0 .. MaxFaults
    BY <1>0, <1>1, <2>2, WritingKept DEF TypeOK, ByHand
  <2> QED
    BY <1>0, <2>1, <2>2, <2>3, <2>4, <2>5, <2>6, LocalStep
<1>3. CASE job[r].images # <<>>
  <2> DEFINE a == Head(job[r].images)
             j == [job[r] EXCEPT !.images = Tail(job[r].images)]
             u == IF owner[a] = None THEN Author[job[r].sub] ELSE owner[a]
  <2>1. job[r].images \in Seq(Assets) /\ Author[job[r].sub] \in Users /\ None \notin Users
    BY <1>0, <1>1, ModerationAssumption DEF Job
  <2>2. /\ a \in Assets /\ Tail(job[r].images) \in Seq(Assets) /\ a \in Of(job[r].images)
        /\ Of(job[r].images) = {a} \union Of(Tail(job[r].images))
    BY <1>3, <2>1, OfTail
  <2>3. /\ j \in Job /\ j.images = Tail(job[r].images) /\ j.sub = job[r].sub /\ j.kind = "submit"
        /\ ~j.ban
    BY <1>0, <1>1, <2>2 DEF Job
  <2>4. /\ pc' = [pc EXCEPT ![r] = "upload"] /\ job' = [job EXCEPT ![r] = j]
        /\ owner' = [owner EXCEPT ![a] = u]
    BY <1>0, <1>1, <1>3 DEF Upload, TypeOK
  <2>5. u \in Users \union {None} /\ u # None
    BY <1>0, <2>1, <2>2 DEF TypeOK
  <2> HIDE DEF a, j, u
  <2>6. owner' \in [Assets -> Users \union {None}] /\ owner'[a] # None
        /\ \A x \in Assets : owner[x] # None => owner'[x] # None
    BY <1>0, <2>2, <2>4, <2>5 DEF TypeOK
  <2>7. SlotTypes /\ OtherSlots(r) /\ pc'[r] = "upload" /\ job'[r] = j
    BY <1>0, <2>3, <2>4, JobSlot DEF Steps
  <2>8. TypeOK'
    BY <1>0, <1>1, <2>6, <2>7 DEF TypeOK, SlotTypes, submissions
  <2>9. Stable(r) /\ Others(r)
    BY <1>0, <1>1, <2>6, <2>7 DEF Stable, Others, submissions, Taken, TypeOK
  <2>10. Fits(r)'
    <3>1. Of(Images[job[r].sub]) \subseteq Assets
      BY <1>1, ModerationAssumption DEF Of
    <3>2. \A x \in Of(Images[job[r].sub]) : owner'[x] # None \/ x \in Of(j.images)
      BY <1>0, <1>1, <2>2, <2>3, <2>6, <3>1 DEF Fits, UploadFits
    <3>3. UploadFits(r)'
      BY <1>1, <2>3, <2>7, <3>2 DEF UploadFits, submissions
    <3> QED
      BY <1>1, <2>3, <2>7, <3>3
      DEF Fits, KindFits, HoldsFit, ImagesFit, CountFits, ImagesLocked, Approving, Rejecting
  <2>11. JobsFit'
    BY <1>0, <2>8, <2>9, <2>10, OthersFit DEF JobsFit
  <2>12. OneForm'
    BY <1>0, <1>1, <2>3, <2>7 DEF IInv, OneForm, OtherSlots
  <2>13. WritingBounded'
    BY <1>0, <1>1, <2>3, <2>7, WritingKept DEF ByHand
  <2>14. ImagesOwned' /\ ApprovedImagesPublic'
    <3>1. \A s \in Submissions : Images[s] \in Seq(Assets) /\ Of(Images[s]) \subseteq Assets
          /\ \A i \in DOMAIN Images[s] : Images[s][i] \in Assets
      BY ModerationAssumption DEF Of
    <3> QED
      BY <1>1, <2>6, <3>1 DEF IInv, ImagesOwned, ApprovedImagesPublic, submissions
  <2>15. /\ Exclusive' /\ ViolationsRejected' /\ PollsMatchApprovals' /\ PublishedThroughApproval'
         /\ ScreenedFirst' /\ BannedDeserved'
    BY <1>1 DEF IInv, submissions, Exclusive, ViolationsRejected, PollsMatchApprovals,
                PublishedThroughApproval, ScreenedFirst, BannedDeserved, Strikes
  <2> QED
    BY <2>8, <2>11, <2>12, <2>13, <2>14, <2>15 DEF IInv
<1> QED
  BY <1>2, <1>3

(* What such a step has to show of the processes, and of the tables when   *)
(* an undecided row moves on to a state that is not an approval.           *)
LEMMA ProcessesFit ==
  ASSUME IInv, NEW p \in Processes, OtherSlots(p), MayHold(p), pc'[p] \notin Forms,
         Stable(p), TypeOK', Fits(p)'
  PROVE  JobsFit' /\ Exclusive' /\ OneForm'
<1>1. Others(p)
  BY DEF Others, MayHold
<1>2. JobsFit'
  BY <1>1, OthersFit DEF JobsFit
<1>3. Exclusive'
  BY DEF IInv, Exclusive, MayHold
<1>4. OneForm'
  BY DEF IInv, OneForm, OtherSlots, Forms
<1> QED
  BY <1>2, <1>3, <1>4

(* Nobody else decides on a row that is free, or uploads for one that is   *)
(* there.                                                                  *)
LEMMA NobodyElse ==
  ASSUME IInv, NEW p \in Processes, NEW s \in Submissions,
         Free(p, Row(s)) \/ status[s] = "none" \/ Row(s) \in holds[p],
         status[s] = "none" => pc[p] \in Forms /\ job[p].sub = s
  PROVE  \A q \in Processes : q # p => ~Deciding(q, s) /\ ~(pc[q] \in Forms /\ job[q].sub = s)
<1> SUFFICES ASSUME NEW q \in Processes, q # p
             PROVE  ~Deciding(q, s) /\ ~(pc[q] \in Forms /\ job[q].sub = s)
  OBVIOUS
<1>1. Fits(q) /\ (Row(s) \in holds[p] => Row(s) \notin holds[q])
  BY DEF IInv, JobsFit, Exclusive
<1>2. ~Deciding(q, s)
  <2> SUFFICES ASSUME Deciding(q, s) PROVE FALSE
    OBVIOUS
  <2>1. Row(s) \in holds[q] /\ status[s] # "none"
    BY <1>1, ModerationAssumption DEF Deciding, Fits, HoldsFit, Awaited
  <2> QED
    BY <1>1, <2>1 DEF Free
<1>3. ~(pc[q] \in Forms /\ job[q].sub = s)
  BY <1>1 DEF Fits, UploadFits, IInv, OneForm, Forms
<1> QED
  BY <1>2, <1>3

LEMMA NotApproved ==
  ASSUME IInv, NEW s \in Submissions, NEW st \in Statuses \ {"approved"}, status[s] # "approved",
         status' = [status EXCEPT ![s] = st], UNCHANGED <<media, polls>>
  PROVE  PollsMatchApprovals' /\ PublishedThroughApproval' /\ ApprovedImagesPublic'
<1>1. \A x \in Submissions : status'[x] = "approved" <=> status[x] = "approved"
  BY DEF IInv, TypeOK
<1>2. PollsMatchApprovals'
  BY <1>1 DEF IInv, PollsMatchApprovals
<1>3. PublishedThroughApproval' /\ ApprovedImagesPublic'
  BY <1>1 DEF IInv, PublishedThroughApproval, ApprovedImagesPublic, media
<1> QED
  BY <1>2, <1>3

LEMMA CreateStep ==
  ASSUME IInv, NEW r \in Requests, Create(r)
  PROVE  IInv'
<1> DEFINE s == job[r].sub
<1>0. TypeOK /\ Exclusive /\ r \in Processes /\ Fits(r)
  BY DEF IInv, Processes, JobsFit, TypeOK
<1>1. /\ pc[r] = "create" /\ holds[r] = {} /\ s \in Submissions /\ status[s] = "none"
      /\ \A a \in Of(Images[s]) : owner[a] # None
      /\ holds' = holds /\ faults' = faults /\ Done(r)
      /\ status' = [status EXCEPT ![s] = "pending_ai"] /\ queue' = Append(queue, s)
      /\ UNCHANGED <<decision, violation, attempts, banned, media, polls>>
  BY <1>0 DEF Create, At, Fits, KindFits, HoldsFit, UploadFits, Approving, Rejecting
<1>2. /\ SlotTypes /\ OtherSlots(r) /\ ~job'[r].ban
      /\ \/ pc'[r] = "idle" /\ job'[r].kind = "idle"
         \/ pc'[r] = "next" /\ job'[r].kind = "screen"
  BY <1>0, <1>1, DoneSlot
<1>n. \A q \in Processes : q # r => ~Deciding(q, s) /\ ~(pc[q] \in Forms /\ job[q].sub = s)
  BY <1>0, <1>1, NobodyElse DEF Forms
<1> HIDE DEF s
<1>3. MayHold(r) /\ Fits(r)'
  BY <1>0, <1>1, <1>2, HoldKeeps, AtRest
<1>4. status' \in [Submissions -> Statuses] /\ \A x \in Submissions : x # s => status'[x] = status[x]
  BY <1>0, <1>1 DEF TypeOK, Statuses
<1>5. TypeOK'
  <2>1. queue' \in Seq(Submissions)
    BY <1>0, <1>1 DEF TypeOK
  <2> QED
    BY <1>0, <1>1, <1>2, <1>4, <2>1 DEF TypeOK, SlotTypes, media
<1>6. Stable(r)
  BY <1>0, <1>1, <1>4, <1>n DEF Stable, Taken, media, TypeOK
<1>7. JobsFit' /\ Exclusive' /\ OneForm'
  BY <1>0, <1>2, <1>3, <1>5, <1>6, ProcessesFit DEF Forms
<1>8. WritingBounded'
  BY <1>0, <1>1, <1>2, WritingKept DEF ByHand
<1>9. PollsMatchApprovals' /\ PublishedThroughApproval' /\ ApprovedImagesPublic'
  BY <1>1, NotApproved DEF Statuses
<1>10. ViolationsRejected' /\ ImagesOwned' /\ ScreenedFirst'
  BY <1>0, <1>1, <1>4 DEF IInv, TypeOK, ViolationsRejected, ImagesOwned, ScreenedFirst, media
<1>11. BannedDeserved'
  BY <1>1 DEF IInv, BannedDeserved, Strikes
<1> QED
  BY <1>5, <1>7, <1>8, <1>9, <1>10, <1>11 DEF IInv

(* The commit of a poll: the row and the address are this transaction's.   *)
LEMMA CommitPollStep ==
  ASSUME IInv, NEW r \in Requests, CommitPoll(r)
  PROVE  IInv'
<1> DEFINE s == job[r].sub
           new == [slug |-> job[r].slug, sub |-> s]
<1>0. TypeOK /\ Exclusive /\ r \in Processes /\ Fits(r) /\ job[r] \in Job
  BY DEF IInv, Processes, JobsFit, TypeOK
<1>1. /\ pc[r] = "approved" /\ s \in Submissions \union {None} /\ ~Taken(job[r].slug)
      /\ job[r].slug \in Slugs /\ <<"slug", job[r].slug>> \in holds[r]
      /\ polls' = polls \union {new} /\ published' = published \union ImagesLocked(r)
      /\ status' = IF s = None THEN status ELSE [status EXCEPT ![s] = "approved"]
      /\ Release(r) /\ Done(r)
      /\ UNCHANGED <<decision, violation, attempts, queue, banned, owner, faults>>
  BY <1>0 DEF CommitPoll, At, Fits, HoldsFit, Approving, Rejecting, Job
<1>2. s # None => /\ s \in Submissions /\ Row(s) \in holds[r] /\ status[s] = "pending_admin"
                  /\ \A a \in Of(Images[s]) : a \in ImagesLocked(r)
  BY <1>0, <1>1 DEF Fits, HoldsFit, ImagesFit, Approving
<1>3. \A a \in ImagesLocked(r) : s # None /\ a \in Of(Images[s])
  BY <1>0 DEF Fits, ImagesFit
<1>4. s = None => job[r].kind = "write"
  BY <1>0, <1>1, ModerationAssumption DEF Fits, KindFits, Approving
<1>5. /\ SlotTypes /\ OtherSlots(r) /\ ~job'[r].ban
      /\ \/ pc'[r] = "idle" /\ job'[r].kind = "idle"
         \/ pc'[r] = "next" /\ job'[r].kind = "screen"
  BY <1>0, <1>1, DoneSlot
<1>n. s # None =>
      \A q \in Processes : q # r => ~Deciding(q, s) /\ ~(pc[q] \in Forms /\ job[q].sub = s)
  BY <1>0, <1>2, NobodyElse
<1> HIDE DEF s
<1>6. MayHold(r) /\ Fits(r)'
  BY <1>0, <1>1, <1>5, HoldEnds, AtRest
<1>7. /\ status' \in [Submissions -> Statuses]
      /\ \A x \in Submissions : status'[x] = IF x = s THEN "approved" ELSE status[x]
  BY <1>0, <1>1, ModerationAssumption DEF TypeOK, Statuses
<1>8. TypeOK'
  <2>1. polls' \subseteq [slug : Slugs, sub : Submissions \union {None}]
    BY <1>0, <1>1 DEF TypeOK
  <2>2. published' \subseteq Assets
    BY <1>0, <1>1 DEF TypeOK, ImagesLocked
  <2> QED
    BY <1>0, <1>1, <1>5, <1>6, <1>7, <2>1, <2>2 DEF TypeOK, SlotTypes, MayHold
<1>9. Stable(r)
  <2>1. ASSUME NEW q \in Processes, q # r, NEW x \in Slugs, <<"slug", x>> \in holds[q], Taken(x)'
        PROVE  Taken(x)
    <3>1. x # job[r].slug
      BY <1>0, <1>1, <2>1 DEF Exclusive
    <3> QED
      BY <1>1, <2>1, <3>1 DEF Taken
  <2>2. \A x \in Submissions : status'[x] # status[x] => x = s /\ s # None
    BY <1>7, ModerationAssumption
  <2> QED
    BY <1>0, <1>1, <1>n, <2>1, <2>2 DEF Stable, TypeOK
<1>10. JobsFit' /\ Exclusive' /\ OneForm'
  BY <1>0, <1>5, <1>6, <1>8, <1>9, ProcessesFit DEF Forms
<1>11. WritingBounded'
  <2>1. CASE s # None
    <3>1. ByHand' = ByHand
      BY <1>1, <2>1 DEF ByHand
    <3> QED
      BY <1>0, <1>5, <3>1, WritingKept
  <2>2. CASE s = None
    <3>1. ByHand' = ByHand \union {new} /\ Writing' = Writing \ {r} /\ r \in Writing
      BY <1>1, <1>4, <1>5, <2>2 DEF ByHand, Writing, OtherSlots, Processes
    <3>2. /\ IsFiniteSet(ByHand) /\ IsFiniteSet(Writing)
          /\ Cardinality(ByHand) + Cardinality(Writing) <= MaxPolls
      BY DEF IInv, WritingBounded
    <3> HIDE DEF new
    <3>3. /\ IsFiniteSet(ByHand \union {new})
          /\ Cardinality(ByHand \union {new}) =
               IF new \in ByHand THEN Cardinality(ByHand) ELSE Cardinality(ByHand) + 1
      BY <3>2, FS_AddElement
    <3>4. IsFiniteSet(Writing \ {r}) /\ Cardinality(Writing \ {r}) = Cardinality(Writing) - 1
      BY <3>1, <3>2, FS_RemoveElement
    <3>5. Cardinality(Writing) \in Nat /\ Cardinality(ByHand) \in Nat /\ MaxPolls \in Nat
      BY <3>2, FS_CardinalityType, ModerationAssumption
    <3>6. Cardinality(ByHand') + Cardinality(Writing') <= MaxPolls
      BY <3>1, <3>2, <3>3, <3>4, <3>5
    <3> QED
      BY <3>1, <3>3, <3>4, <3>6 DEF WritingBounded
  <2> QED
    BY <2>1, <2>2
<1>12. PollsMatchApprovals'
  <2>1. ASSUME NEW x \in Submissions
        PROVE  status'[x] = "approved" <=> \E p \in polls' : p.sub = x
    <3>0. new \in polls' /\ new.sub = s
      BY <1>1
    <3>1. CASE x = s
      <4> HIDE DEF new
      <4> QED
        BY <1>7, <3>0, <3>1
    <3>2. CASE x # s
      BY <1>1, <1>7, <3>2 DEF IInv, PollsMatchApprovals
    <3> QED
      BY <3>1, <3>2
  <2>2. ASSUME NEW p \in polls PROVE p.slug # new.slug /\ ~(p.sub = new.sub /\ p.sub # None)
    BY <1>1, <1>2 DEF Taken, IInv, PollsMatchApprovals
  <2>3. ASSUME NEW p \in polls', NEW q \in polls',
               p.slug = q.slug \/ (p.sub = q.sub /\ p.sub # None)
        PROVE  p = q
    <3> HIDE DEF new
    <3>1. p \in polls \/ p = new
      BY <1>1
    <3>2. q \in polls \/ q = new
      BY <1>1
    <3> QED
      BY <2>2, <2>3, <3>1, <3>2 DEF IInv, PollsMatchApprovals
  <2> QED
    BY <2>1, <2>3 DEF PollsMatchApprovals
<1>13. PublishedThroughApproval'
  <2> SUFFICES ASSUME NEW a \in published'
               PROVE  \E x \in Submissions :
                        status'[x] = "approved" /\ \E i \in DOMAIN Images[x] : Images[x][i] = a
    BY DEF PublishedThroughApproval
  <2>1. CASE a \in published
    BY <1>7, <2>1 DEF IInv, PublishedThroughApproval
  <2>2. CASE a \in ImagesLocked(r)
    <3>1. s \in Submissions /\ a \in Of(Images[s])
      BY <1>2, <1>3, <2>2
    <3> QED
      BY <1>7, <3>1 DEF Of
  <2> QED
    BY <1>1, <2>1, <2>2
<1>14. ApprovedImagesPublic'
  <2> SUFFICES ASSUME NEW x \in Submissions, status'[x] = "approved", NEW i \in DOMAIN Images[x]
               PROVE  Images[x][i] \in published' /\ owner[Images[x][i]] # None
    BY <1>1 DEF ApprovedImagesPublic
  <2>1. CASE x = s
    <3>1. Images[x][i] \in Of(Images[x])
      BY DEF Of
    <3>2. s # None /\ status[x] # "none"
      BY <1>2, <2>1, ModerationAssumption
    <3>3. owner[Images[x][i]] # None
      BY <3>1, <3>2 DEF IInv, ImagesOwned
    <3> QED
      BY <1>1, <1>2, <2>1, <3>1, <3>2, <3>3
  <2>2. CASE x # s
    BY <1>1, <1>7, <2>2 DEF IInv, ApprovedImagesPublic
  <2> QED
    BY <2>1, <2>2
<1>15. ViolationsRejected' /\ ImagesOwned' /\ ScreenedFirst'
  <2>1. \A x \in Submissions : status'[x] = status[x] \/ (status[x] = "pending_admin" /\ status'[x] = "approved")
    BY <1>2, <1>7, ModerationAssumption
  <2> QED
    BY <1>1, <2>1 DEF IInv, ViolationsRejected, ImagesOwned, ScreenedFirst
<1>16. BannedDeserved'
  BY <1>1 DEF IInv, BannedDeserved, Strikes
<1> QED
  BY <1>8, <1>10, <1>11, <1>12, <1>13, <1>14, <1>15, <1>16 DEF IInv

LEMMA CommitRejectionStep ==
  ASSUME IInv, NEW p \in Processes, CommitRejection(p)
  PROVE  IInv'
<1> DEFINE s == job[p].sub
           screened == job[p].kind = "screen"
           st == IF screened THEN "ai_rejected" ELSE "rejected"
<1>0. TypeOK /\ Exclusive /\ Fits(p) /\ job[p] \in Job
  BY DEF IInv, JobsFit, TypeOK
<1>1. /\ pc[p] = "marked" /\ s \in Submissions /\ Row(s) \in holds[p] /\ status[s] = Awaited(p)
      /\ status' = [status EXCEPT ![s] = st]
      /\ decision' = IF screened THEN [decision EXCEPT ![s] = "reject"] ELSE decision
      /\ violation' = [violation EXCEPT ![s] = job[p].violation]
      /\ banned' = IF job[p].ban THEN banned \union {Author[s]} ELSE banned
      /\ Release(p) /\ Done(p)
      /\ UNCHANGED <<attempts, queue, media, polls, faults>>
  BY <1>0 DEF CommitRejection, At, Fits, KindFits, HoldsFit, Rejecting
<1>2. /\ status[s] = (IF screened THEN "pending_ai" ELSE "pending_admin") /\ ~violation[s]
      /\ (job[p].ban => job[p].violation /\ Enough(s))
      /\ job[p].violation \in BOOLEAN
  BY <1>0, <1>1 DEF Awaited, IInv, ViolationsRejected, Fits, CountFits, Job
<1>3. /\ SlotTypes /\ OtherSlots(p) /\ ~job'[p].ban
      /\ \/ pc'[p] = "idle" /\ job'[p].kind = "idle"
         \/ pc'[p] = "next" /\ job'[p].kind = "screen"
  BY <1>0, <1>1, DoneSlot
<1>4. \A q \in Processes : q # p => ~Deciding(q, s) /\ ~(pc[q] \in Forms /\ job[q].sub = s)
  BY <1>1, <1>2, NobodyElse
<1>5. st \in {"ai_rejected", "rejected"} /\ (screened => st = "ai_rejected")
  OBVIOUS
<1> HIDE DEF s, screened, st
<1>6. MayHold(p) /\ Fits(p)'
  BY <1>0, <1>1, <1>3, HoldEnds, AtRest
<1>7. /\ status' \in [Submissions -> Statuses]
      /\ \A x \in Submissions : status'[x] = IF x = s THEN st ELSE status[x]
      /\ violation' \in [Submissions -> BOOLEAN]
      /\ \A x \in Submissions : violation'[x] = IF x = s THEN job[p].violation ELSE violation[x]
  BY <1>0, <1>1, <1>2, <1>5 DEF TypeOK, Statuses
<1>8. /\ decision' \in [Submissions -> {None, "allow", "reject"}]
      /\ \A x \in Submissions : x # s \/ ~screened => decision'[x] = decision[x]
  BY <1>0, <1>1 DEF TypeOK
<1>9. TypeOK'
  <2>1. banned' \subseteq Users
    <3>1. Author[s] \in Users /\ banned \subseteq Users
      BY <1>0, <1>1, ModerationAssumption DEF TypeOK
    <3>2. banned' = banned \/ banned' = banned \union {Author[s]}
      BY <1>1
    <3> QED
      BY <3>1, <3>2
  <2> QED
    BY <1>0, <1>1, <1>3, <1>6, <1>7, <1>8, <2>1 DEF TypeOK, SlotTypes, MayHold, media
<1>10. Stable(p)
  BY <1>0, <1>1, <1>2, <1>4, <1>7 DEF Stable, Taken, media, TypeOK
<1>11. JobsFit' /\ Exclusive' /\ OneForm'
  BY <1>3, <1>6, <1>9, <1>10, ProcessesFit DEF Forms
<1>12. WritingBounded'
  BY <1>1, <1>3, WritingKept DEF ByHand
<1>13. PollsMatchApprovals' /\ PublishedThroughApproval' /\ ApprovedImagesPublic'
  <2>1. status[s] # "approved" /\ st \in Statuses \ {"approved"}
    BY <1>2, <1>5 DEF Statuses
  <2> QED
    BY <1>1, <2>1, NotApproved
<1>14. ViolationsRejected' /\ ImagesOwned'
  BY <1>1, <1>2, <1>5, <1>7 DEF IInv, ViolationsRejected, ImagesOwned, media
<1>15. ScreenedFirst'
  <2> SUFFICES ASSUME NEW x \in Submissions, status'[x] \in {"pending_admin", "approved", "rejected"}
               PROVE  decision'[x] = "allow" \/ attempts[x] >= MaxAttempts
    BY <1>1 DEF ScreenedFirst
  <2>1. (x # s \/ ~screened) /\ status[x] \in {"pending_admin", "approved", "rejected"}
    BY <1>2, <1>5, <1>7
  <2> QED
    BY <1>8, <2>1 DEF IInv, ScreenedFirst
<1>16. BannedDeserved'
  <2> SUFFICES ASSUME NEW u \in banned' PROVE Cardinality(Strikes(u)') >= StrikeLimit
    BY DEF BannedDeserved
  <2>1. /\ IsFiniteSet(Strikes(u)') /\ Strikes(u) \subseteq Strikes(u)'
        /\ Cardinality(Strikes(u)') \in Nat /\ StrikeLimit \in Nat
    <3>1. Strikes(u)' \subseteq Submissions /\ Strikes(u) \subseteq Strikes(u)'
      BY <1>2, <1>7 DEF Strikes
    <3> QED
      BY <3>1, FS_Subset, FS_CardinalityType, ModerationAssumption
  <2>2. CASE u \in banned
    <3>1. Cardinality(Strikes(u)) >= StrikeLimit
      BY <2>2 DEF IInv, BannedDeserved
    <3>2. Cardinality(Strikes(u)) <= Cardinality(Strikes(u)') /\ Cardinality(Strikes(u)) \in Nat
      BY <2>1, FS_Subset, FS_CardinalityType
    <3> QED
      BY <2>1, <3>1, <3>2
  <2>3. CASE u \notin banned
    <3>1. job[p].ban /\ u = Author[s]
      BY <1>1, <2>3
    <3>2. Strikes(u)' = Strikes(u) \union {s}
      BY <1>1, <1>2, <1>7, <3>1 DEF Strikes
    <3> QED
      BY <1>2, <3>1, <3>2 DEF Enough
  <2> QED
    BY <2>2, <2>3
<1> QED
  BY <1>9, <1>11, <1>12, <1>13, <1>14, <1>15, <1>16 DEF IInv

(* The two ways from the screen to the admins: by its word, or because it  *)
(* failed often enough.                                                    *)
LEMMA ToAdminsStep ==
  ASSUME IInv, NEW w \in Processes, NEW s \in Submissions, Fits(w), holds[w] = {}, Free(w, Row(s)),
         status[s] = "pending_ai", status' = [status EXCEPT ![s] = "pending_admin"],
         \/ decision' = [decision EXCEPT ![s] = "allow"]
         \/ decision' = decision /\ attempts[s] >= MaxAttempts,
         Done(w), UNCHANGED <<violation, attempts, queue, banned, media, polls, holds, faults>>
  PROVE  IInv'
<1>0. TypeOK /\ Exclusive
  BY DEF IInv
<1>1. /\ SlotTypes /\ OtherSlots(w) /\ ~job'[w].ban
      /\ \/ pc'[w] = "idle" /\ job'[w].kind = "idle"
         \/ pc'[w] = "next" /\ job'[w].kind = "screen"
  BY <1>0, DoneSlot
<1>2. \A q \in Processes : q # w => ~Deciding(q, s) /\ ~(pc[q] \in Forms /\ job[q].sub = s)
  BY NobodyElse
<1>3. MayHold(w) /\ Fits(w)'
  BY <1>0, <1>1, HoldKeeps, AtRest
<1>4. /\ status' \in [Submissions -> Statuses]
      /\ \A x \in Submissions : status'[x] = IF x = s THEN "pending_admin" ELSE status[x]
  BY <1>0 DEF TypeOK, Statuses
<1>5. /\ decision' \in [Submissions -> {None, "allow", "reject"}]
      /\ \A x \in Submissions : x # s => decision'[x] = decision[x]
      /\ decision'[s] = "allow" \/ attempts[s] >= MaxAttempts
  BY <1>0 DEF TypeOK
<1>6. TypeOK'
  BY <1>0, <1>1, <1>4, <1>5 DEF TypeOK, SlotTypes, media
<1>7. Stable(w)
  BY <1>0, <1>2, <1>4 DEF Stable, Taken, media, TypeOK
<1>8. JobsFit' /\ Exclusive' /\ OneForm'
  BY <1>1, <1>3, <1>6, <1>7, ProcessesFit DEF Forms
<1>9. WritingBounded'
  BY <1>1, WritingKept DEF ByHand
<1>10. PollsMatchApprovals' /\ PublishedThroughApproval' /\ ApprovedImagesPublic'
  BY NotApproved DEF Statuses
<1>11. ViolationsRejected' /\ ImagesOwned' /\ BannedDeserved'
  BY <1>4 DEF IInv, ViolationsRejected, ImagesOwned, BannedDeserved, Strikes, media
<1>12. ScreenedFirst'
  BY <1>4, <1>5 DEF IInv, ScreenedFirst
<1> QED
  BY <1>6, <1>8, <1>9, <1>10, <1>11, <1>12 DEF IInv

LEMMA RecordAllowStep ==
  ASSUME IInv, NEW w \in Workers, RecordAllow(w)
  PROVE  IInv'
<1>0. TypeOK /\ w \in Processes /\ Fits(w)
  BY DEF IInv, Processes, JobsFit
<1>1. /\ holds[w] = {} /\ job[w].sub \in Submissions /\ Done(w) /\ Free(w, Row(job[w].sub))
      /\ UNCHANGED <<violation, attempts, queue, banned, media, polls, holds, faults>>
  BY <1>0 DEF RecordAllow, At, Fits, KindFits, HoldsFit, Approving, Rejecting, Row
<1>2. CASE status[job[w].sub] = "pending_ai"
  BY <1>0, <1>1, <1>2, ToAdminsStep DEF RecordAllow
<1>3. CASE status[job[w].sub] # "pending_ai"
  <2>1. UNCHANGED Tables /\ faults' \in 0 .. MaxFaults
    BY <1>0, <1>1, <1>3 DEF RecordAllow, Tables, submissions, TypeOK
  <2> QED
    BY <1>0, <1>1, <2>1, Rests
<1> QED
  BY <1>2, <1>3

LEMMA DeferStep ==
  ASSUME IInv, NEW w \in Workers, Defer(w)
  PROVE  IInv'
<1>0. TypeOK /\ w \in Processes /\ Fits(w)
  BY DEF IInv, Processes, JobsFit
<1>1. /\ holds[w] = {} /\ job[w].sub \in Submissions /\ Done(w) /\ Free(w, Row(job[w].sub))
      /\ attempts[job[w].sub] >= MaxAttempts
      /\ UNCHANGED <<decision, violation, attempts, queue, banned, media, polls, holds, faults>>
  BY <1>0 DEF Defer, At, Fits, KindFits, HoldsFit, CountFits, Approving, Rejecting, Row
<1>2. CASE status[job[w].sub] = "pending_ai"
  BY <1>0, <1>1, <1>2, ToAdminsStep DEF Defer
<1>3. CASE status[job[w].sub] # "pending_ai"
  <2>1. UNCHANGED Tables /\ faults' \in 0 .. MaxFaults
    BY <1>0, <1>1, <1>3 DEF Defer, Tables, submissions, TypeOK
  <2> QED
    BY <1>0, <1>1, <2>1, Rests
<1> QED
  BY <1>2, <1>3

LEMMA BumpAttemptStep ==
  ASSUME IInv, NEW w \in Workers, BumpAttempt(w)
  PROVE  IInv'
<1> DEFINE s == job[w].sub
           n == attempts[s] + 1
<1>0. TypeOK /\ Exclusive /\ w \in Processes /\ Fits(w)
  BY DEF IInv, Processes, JobsFit
<1>1. /\ pc[w] = "bump" /\ holds[w] = {} /\ s \in Submissions /\ job[w].kind = "screen" /\ ~job[w].ban
      /\ attempts' = [attempts EXCEPT ![s] = n]
      /\ (n >= MaxAttempts /\ Goto(w, "defer")) \/ Done(w)
      /\ UNCHANGED <<status, decision, violation, queue, banned, media, polls, holds, faults>>
  BY <1>0 DEF BumpAttempt, GivesUpOn, At, Fits, KindFits, HoldsFit, CountFits, Approving, Rejecting
<1>2. /\ attempts' \in [Submissions -> Nat] /\ attempts'[s] = n
      /\ \A x \in Submissions : attempts[x] \in Nat /\ attempts[x] <= attempts'[x]
  BY <1>0, <1>1 DEF TypeOK
<1> HIDE DEF n
<1>3. /\ SlotTypes /\ OtherSlots(w) /\ ~job'[w].ban
      /\ \/ pc'[w] = "idle" /\ job'[w].kind = "idle"
         \/ pc'[w] = "next" /\ job'[w].kind = "screen"
         \/ pc'[w] = "defer" /\ job'[w] = job[w] /\ n >= MaxAttempts
  BY <1>0, <1>1, DoneSlot, GotoSlot DEF Steps
<1>4. MayHold(w)
  BY <1>0, <1>1, HoldKeeps
<1>5. Fits(w)'
  <2>1. CASE pc'[w] = "defer"
    BY <1>1, <1>2, <1>3, <2>1
    DEF Fits, KindFits, HoldsFit, UploadFits, ImagesFit, CountFits, ImagesLocked, Approving, Rejecting
  <2>2. CASE pc'[w] # "defer"
    BY <1>0, <1>1, <1>3, <2>2, AtRest
  <2> QED
    BY <2>1, <2>2
<1>6. TypeOK'
  BY <1>0, <1>1, <1>2, <1>3 DEF TypeOK, SlotTypes, media
<1>7. Stable(w)
  BY <1>0, <1>1, <1>2 DEF Stable, Taken, media, TypeOK
<1>8. JobsFit' /\ Exclusive' /\ OneForm'
  BY <1>0, <1>3, <1>4, <1>5, <1>6, <1>7, ProcessesFit DEF Forms
<1>9. WritingBounded'
  BY <1>0, <1>1, <1>3, WritingKept DEF ByHand
<1>10. ScreenedFirst'
  <2>1. MaxAttempts \in Nat
    BY ModerationAssumption
  <2>2. \A x \in Submissions : attempts'[x] \in Nat
    BY <1>2
  <2> QED
    BY <1>1, <1>2, <2>1, <2>2 DEF IInv, ScreenedFirst
<1>11. /\ ViolationsRejected' /\ ImagesOwned' /\ BannedDeserved'
       /\ PollsMatchApprovals' /\ PublishedThroughApproval' /\ ApprovedImagesPublic'
  BY <1>1 DEF IInv, media, ViolationsRejected, ImagesOwned, BannedDeserved, Strikes,
              PollsMatchApprovals, PublishedThroughApproval, ApprovedImagesPublic
<1> QED
  BY <1>6, <1>8, <1>9, <1>10, <1>11 DEF IInv

------------------------------------------------------------------------------
(* The invariant.                                                          *)

LEMMA InitInv == Init => IInv
<1> SUFFICES ASSUME Init PROVE IInv
  OBVIOUS
<1>1. TypeOK
  <2>1. <<>> \in Seq(Submissions) /\ 0 \in 0 .. MaxFaults
    BY EmptySeq, ModerationAssumption
  <2> QED
    BY <2>1, NoJobFits DEF Init, TypeOK, Statuses, Steps
<1>2. JobsFit /\ Exclusive /\ OneForm
  BY NoJobFits
  DEF Init, JobsFit, Fits, KindFits, HoldsFit, UploadFits, ImagesFit, CountFits, ImagesLocked,
      Approving, Rejecting, Exclusive, OneForm
<1>3. WritingBounded
  <2>1. ByHand = {} /\ Writing = {}
    BY NoJobFits DEF Init, ByHand, Writing, Processes
  <2> QED
    BY <2>1, FS_EmptySet, ModerationAssumption DEF WritingBounded
<1>4. /\ ViolationsRejected /\ ImagesOwned /\ PollsMatchApprovals /\ PublishedThroughApproval
      /\ ApprovedImagesPublic /\ ScreenedFirst /\ BannedDeserved
  BY DEF Init, ViolationsRejected, ImagesOwned, PollsMatchApprovals, PublishedThroughApproval,
         ApprovedImagesPublic, ScreenedFirst, BannedDeserved
<1> QED
  BY <1>1, <1>2, <1>3, <1>4 DEF IInv

LEMMA StepInv == IInv /\ [Next]_vars => IInv'
<1> SUFFICES ASSUME IInv, [Next]_vars PROVE IInv'
  OBVIOUS
<1>1. ASSUME NEW r \in Requests, Arrival(r) PROVE IInv'
  BY <1>1, SubmitStartStep, ApproveStartStep, RejectStartStep, WriteStartStep DEF Arrival
<1>2. ASSUME NEW r \in Requests, Submit(r) \/ Approve(r) PROVE IInv'
  <2>1. CASE Submit(r)
    BY <2>1, UploadStep, CreateStep DEF Submit
  <2>2. CASE Approve(r)
    BY <2>2, ClaimStep, ChooseSlugStep, InsertPollStep, PublishStep, CommitPollStep DEF Approve
  <2> QED
    BY <1>2, <2>1, <2>2
<1>3. ASSUME NEW w \in Workers, Review(w) PROVE IInv'
  BY <1>3, SweepStep, NextInBatchStep, VerdictStep, RecordAllowStep, BumpAttemptStep, DeferStep
  DEF Review
<1>4. ASSUME NEW p \in Processes, Reject(p) PROVE IInv'
  BY <1>4, MarkStep, CountStrikesStep, BanAuthorStep, CommitRejectionStep DEF Reject
<1>5. ASSUME NEW p \in Processes, Fail(p) \/ BreakDeadlock(p) PROVE IInv'
  BY <1>5, FailStep
<1>6. CASE UNCHANGED vars
  <2>1. UNCHANGED <<Tables, holds, pc, job, faults>>
    BY <1>6 DEF vars, Tables, processes
  <2>2. TypeOK' /\ WritingBounded' /\ Exclusive' /\ OneForm'
    BY <2>1
    DEF IInv, Tables, submissions, media, TypeOK, WritingBounded, ByHand, Writing, Exclusive, OneForm
  <2>3. JobsFit'
    <3> SUFFICES ASSUME NEW p \in Processes PROVE Fits(p)'
      BY DEF JobsFit
    <3>1. Fits(p)
      BY DEF IInv, JobsFit
    <3> QED
      BY <2>1, <3>1
      DEF Tables, submissions, media, Fits, KindFits, HoldsFit, UploadFits, ImagesFit, CountFits,
          ImagesLocked, Taken, Awaited, Enough, Strikes
  <2>4. /\ ViolationsRejected' /\ ImagesOwned' /\ PollsMatchApprovals' /\ PublishedThroughApproval'
        /\ ApprovedImagesPublic' /\ ScreenedFirst' /\ BannedDeserved'
    BY <2>1
    DEF IInv, Tables, submissions, media, ViolationsRejected, ImagesOwned, PollsMatchApprovals,
        PublishedThroughApproval, ApprovedImagesPublic, ScreenedFirst, BannedDeserved, Strikes
  <2> QED
    BY <2>2, <2>3, <2>4 DEF IInv
<1> QED
  BY <1>1, <1>2, <1>3, <1>4, <1>5, <1>6 DEF Next, Work

LEMMA Invariant == Spec => []IInv
BY InitInv, StepInv, PTL DEF Spec

(* Nothing skips the screen or a person: every public image belongs to an  *)
(* approved submission, also when an approval fails half way, and every    *)
(* submission an admin sees passed the screen or outlasted it.             *)
THEOREM ReviewedFirstAlways == Spec => []ReviewedFirst
<1>1. IInv => ReviewedFirst
  BY DEF IInv, ReviewedFirst
<1> QED
  BY <1>1, Invariant, PTL

(* A suspension rests on STRIKE_LIMIT violations that stand.               *)
THEOREM BannedDeservedAlways == Spec => []BannedDeserved
<1>1. IInv => BannedDeserved
  BY DEF IInv
<1> QED
  BY <1>1, Invariant, PTL

(* A double submit makes no second poll, and no two polls share an address.*)
THEOREM PollsMatchApprovalsAlways == Spec => []PollsMatchApprovals
<1>1. IInv => PollsMatchApprovals
  BY DEF IInv
<1> QED
  BY <1>1, Invariant, PTL

(* An approved poll shows no image the server refuses to serve.            *)
THEOREM ApprovedImagesPublicAlways == Spec => []ApprovedImagesPublic
<1>1. IInv => ApprovedImagesPublic
  BY DEF IInv
<1> QED
  BY <1>1, Invariant, PTL

(* A decision stands: whoever writes to a submission has its row locked    *)
(* and has seen that nobody decided on it yet.                             *)
THEOREM DecisionsFinalAlways == Spec => DecisionsFinal
<1> DEFINE Final == \A s \in Submissions : status[s] \in Decided =>
                      status'[s] = status[s] /\ violation'[s] = violation[s]
<1>1. IInv /\ [Next]_vars => [Final]_vars
  <2> SUFFICES ASSUME IInv, Next, NEW s \in Submissions, status[s] \in Decided
               PROVE  status'[s] = status[s] /\ violation'[s] = violation[s]
    BY DEF vars, submissions
  <2>0. TypeOK /\ \A p \in Processes : Fits(p)
    BY DEF IInv, JobsFit
  <2>1. ASSUME NEW r \in Requests, Arrival(r) PROVE UNCHANGED <<status, violation>>
    BY <2>1 DEF Arrival, SubmitStart, ApproveStart, RejectStart, WriteStart, submissions
  <2>2. ASSUME NEW r \in Requests, Upload(r) PROVE UNCHANGED <<status, violation>>
    BY <2>2 DEF Upload, submissions
  <2>3. ASSUME NEW r \in Requests, Create(r)
        PROVE  status'[s] = status[s] /\ violation'[s] = violation[s]
    <3>1. pc[r] = "create" /\ status[job[r].sub] = "none"
      BY <2>0, <2>3 DEF Create, At, Fits, UploadFits, Processes
    <3> QED
      BY <2>0, <2>3, <3>1 DEF Create, TypeOK, Decided
  <2>4. ASSUME NEW r \in Requests, Claim(r) \/ ChooseSlug(r) \/ InsertPoll(r) \/ Publish(r)
        PROVE  UNCHANGED <<status, violation>>
    BY <2>4 DEF Claim, ChooseSlug, InsertPoll, Publish, submissions
  <2>5. ASSUME NEW r \in Requests, CommitPoll(r)
        PROVE  status'[s] = status[s] /\ violation'[s] = violation[s]
    <3>1. job[r].sub # None => status[job[r].sub] = "pending_admin"
      BY <2>0, <2>5 DEF CommitPoll, At, Fits, HoldsFit, Approving, Processes
    <3> QED
      BY <2>0, <2>5, <3>1 DEF CommitPoll, TypeOK, Decided
  <2>6. ASSUME NEW p \in Processes, Mark(p) \/ CountStrikes(p) \/ BanAuthor(p)
        PROVE  UNCHANGED <<status, violation>>
    BY <2>6 DEF Mark, CountStrikes, BanAuthor, submissions
  <2>7. ASSUME NEW p \in Processes, CommitRejection(p)
        PROVE  status'[s] = status[s] /\ violation'[s] = violation[s]
    <3>1. status[job[p].sub] \in {"pending_ai", "pending_admin"}
      BY <2>0, <2>7 DEF CommitRejection, At, Fits, HoldsFit, Rejecting, Awaited
    <3> QED
      BY <2>0, <2>7, <3>1 DEF CommitRejection, TypeOK, Decided
  <2>8. ASSUME NEW w \in Workers, Sweep(w) \/ NextInBatch(w) \/ Verdict(w) \/ BumpAttempt(w)
        PROVE  UNCHANGED <<status, violation>>
    BY <2>8 DEF Sweep, NextInBatch, Verdict, BumpAttempt, submissions
  <2>9. ASSUME NEW w \in Workers, RecordAllow(w) \/ Defer(w)
        PROVE  status'[s] = status[s] /\ violation'[s] = violation[s]
    BY <2>0, <2>9 DEF RecordAllow, Defer, TypeOK, Decided
  <2>10. ASSUME NEW p \in Processes, Fail(p) \/ BreakDeadlock(p) PROVE UNCHANGED <<status, violation>>
    BY <2>10 DEF Fail, BreakDeadlock, submissions
  <2> QED
    BY <2>1, <2>2, <2>3, <2>4, <2>5, <2>6, <2>7, <2>8, <2>9, <2>10
    DEF Next, Work, Submit, Approve, Reject, Review
<1> QED
  BY <1>1, Invariant, PTL DEF Spec, DecisionsFinal
==============================================================================
