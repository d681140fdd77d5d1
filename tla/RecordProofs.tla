----------------------------- MODULE RecordProofs -----------------------------
(* Proofs about six parts of the record that share no state: the checks of   *)
(* an e-mail address (MailCheck), image files (Files), the desk of summaries *)
(* and corrections (Desk), the published dump of votes (Dump), the load of   *)
(* the published dataset (Import), and proof of work (Captcha).              *)
EXTENDS MailCheck, Files, Desk, Dump, Import, Captcha, SequenceTheorems,
        FiniteSetTheorems, NaturalsInduction, WellFoundedInduction, TLAPS

-----------------------------------------------------------------------------
(* MailCheck: RefusedForCause holds for every set of addresses, whatever the *)
(* name servers hold and however many registrations are tried.               *)

(* A check that asks for the address of a domain found no record of a host,  *)
(* which is what the verdict of IpAnswer rests on.                           *)
FallsBackForCause ==
    /\ check = NoCheck \/ check.at \in {"mx", "ip"}
    /\ check # NoCheck /\ check.at = "ip" => "host" \notin Zone[check.of.domain].mx

MailInv == FallsBackForCause /\ RefusedForCause

LEMMA MailInit == MailCheckInit => MailInv
BY DEF MailCheckInit, MailInv, FallsBackForCause, RefusedForCause, NoCheck

(* A verdict leaves no check under way, and is right if what refuses is.     *)
LEMMA VerdictKeeps ==
  ASSUME NEW a, NEW yes, NEW bad, Verdict(a, yes, bad),
         ~yes => \/ ~WellFormed(a) \/ Disposable(a) \/ ~a.labels
                 \/ ~TakesMail(Zone[a.domain]) \/ bad
  PROVE  MailInv'
<1>1. check' = NoCheck /\ verdict'.of = a /\ verdict'.accepted = yes /\ verdict'.malformed = bad
  BY DEF Verdict
<1> QED
  BY <1>1 DEF MailInv, FallsBackForCause, RefusedForCause, WellFormed, Disposable, TakesMail

LEMMA AnsweredKeeps ==
  ASSUME NEW a, NEW yes, Answered(a, yes),
         ~yes => ~WellFormed(a) \/ Disposable(a) \/ ~a.labels \/ ~TakesMail(Zone[a.domain])
  PROVE  MailInv'
BY VerdictKeeps DEF Answered

(* One step to each answer.                                                  *)
LEMMA MailStep == MailInv /\ [MailCheckNext]_mailCheckVars => MailInv'
<1> SUFFICES ASSUME MailInv, [MailCheckNext]_mailCheckVars PROVE MailInv'
  OBVIOUS
<1> USE DEF NoCheck
<1>1. CASE \E a \in Addresses : BeginCheck(a)
  <2> PICK a \in Addresses : BeginCheck(a)
    BY <1>1
  <2>1. CASE ~WellFormed(a) \/ Disposable(a)
    <3>1. Answered(a, FALSE)
      BY <2>1 DEF BeginCheck
    <3> QED
      BY <2>1, <3>1, AnsweredKeeps
  <2>2. CASE ~(~WellFormed(a) \/ Disposable(a)) /\ ~resolver
    <3>1. Answered(a, TRUE)
      BY <2>2 DEF BeginCheck
    <3> QED
      BY <3>1, AnsweredKeeps
  <2>3. CASE ~(~WellFormed(a) \/ Disposable(a)) /\ resolver /\ ~a.labels
    <3>1. Answered(a, FALSE)
      BY <2>3 DEF BeginCheck
    <3> QED
      BY <2>3, <3>1, AnsweredKeeps
  <2>4. CASE ~(~WellFormed(a) \/ Disposable(a)) /\ resolver /\ a.labels
    <3>1. check' = [at |-> "mx", of |-> a] /\ verdict' = verdict
      BY <2>4 DEF BeginCheck
    <3> QED
      BY <3>1 DEF MailInv, FallsBackForCause, RefusedForCause
  <2> QED
    BY <2>1, <2>2, <2>3, <2>4
<1>2. CASE MxAnswer
  <2> DEFINE mx == Zone[check.of.domain].mx
             fallback == check' = [check EXCEPT !.at = "ip"] /\ UNCHANGED verdict
  <2>0. check # NoCheck /\ check.at = "mx"
    BY <1>2 DEF MxAnswer
  <2>1. CASE mx = NoDomain
    <3>1. Answered(check.of, FALSE) /\ "host" \notin mx /\ mx # NoRecords /\ mx # {}
      BY <1>2, <2>1 DEF MxAnswer, NoDomain, NoRecords
    <3> QED
      BY <3>1, AnsweredKeeps DEF TakesMail
  <2>2. CASE "host" \in mx
    <3>0. mx # NoDomain /\ mx # NoRecords
      BY <2>2 DEF NoDomain, NoRecords
    <3>1. Answered(check.of, TRUE)
      BY <1>2, <2>2, <3>0 DEF MxAnswer
    <3> QED
      BY <3>1, AnsweredKeeps
  <2>3. CASE "host" \notin mx /\ "root" \in mx
    <3>0. mx # NoDomain /\ mx # NoRecords /\ mx # {}
      BY <2>3 DEF NoDomain, NoRecords
    <3>1. Answered(check.of, FALSE)
      BY <1>2, <2>3, <3>0 DEF MxAnswer
    <3>2. ~TakesMail(Zone[check.of.domain])
      BY <2>3, <3>0 DEF TakesMail
    <3> QED
      BY <3>1, <3>2, AnsweredKeeps
  <2>4. CASE mx # NoDomain /\ "host" \notin mx /\ "root" \notin mx
    <3>1. fallback
      BY <1>2, <2>4 DEF MxAnswer, NoDomain, NoRecords
    <3>2. "host" \notin Zone[check'.of.domain].mx
      BY <2>0, <2>4, <3>1
    <3> QED
      BY <3>1, <3>2, <2>0 DEF MailInv, FallsBackForCause, RefusedForCause
  <2> QED
    BY <2>1, <2>2, <2>3, <2>4
<1>3. CASE IpAnswer
  <2>1. check.at = "ip" /\ "host" \notin Zone[check.of.domain].mx
    BY <1>3 DEF IpAnswer, MailInv, FallsBackForCause
  <2>2. Answered(check.of, Zone[check.of.domain].ip > 0)
    BY <1>3 DEF IpAnswer
  <2>3. TakesMail(Zone[check.of.domain]) => Zone[check.of.domain].ip > 0
    BY <2>1 DEF TakesMail
  <2> QED
    BY <2>2, <2>3, AnsweredKeeps
<1>4. CASE Unanswered
  <2>1. Answered(check.of, TRUE)
    BY <1>4 DEF Unanswered
  <2> QED
    BY <2>1, AnsweredKeeps
<1>5. CASE UNCHANGED mailCheckVars
  BY <1>5 DEF mailCheckVars, MailInv, FallsBackForCause, RefusedForCause
<1>6. CASE Malformed
  <2>1. Verdict(check.of, FALSE, TRUE)
    BY <1>6 DEF Malformed
  <2> QED
    BY <2>1, VerdictKeeps
<1> QED
  BY <1>1, <1>2, <1>3, <1>4, <1>5, <1>6 DEF MailCheckNext

(* is_deliverable and the checks before it refuse an address that takes mail *)
(* for its shape, its labels or the list alone, whichever lookup fails, or   *)
(* for an answer that could not be read.                                     *)
THEOREM RefusedForCauseAlways == MailCheckSpec => []RefusedForCause
<1>1. MailInv => RefusedForCause
  BY DEF MailInv
<1> QED
  BY MailInit, MailStep, <1>1, PTL DEF MailCheckSpec

(* MailCheck keeps to its types: a check under way is one of the two         *)
(* lookups, of an address somebody typed.                                    *)
LEMMA MailCheckTyped == MailCheckSpec => []MailCheckTypeOK
<1> USE DEF NoCheck, MailCheckTypeOK
<1>1. MailCheckInit => MailCheckTypeOK
  BY MailCheckAssumption DEF MailCheckInit
<1>2. ASSUME MailCheckTypeOK, [MailCheckNext]_mailCheckVars
      PROVE  MailCheckTypeOK'
  <2>1. ASSUME NEW a \in Addresses, NEW yes \in BOOLEAN, Answered(a, yes), UNCHANGED resolver,
               checks' \in 0..MaxChecks
        PROVE  MailCheckTypeOK'
    BY <1>2, <2>1 DEF Answered, Verdict
  <2>2. ASSUME NEW a \in Addresses, check' = [at |-> "mx", of |-> a] \/ check' = [at |-> "ip", of |-> a],
               UNCHANGED <<resolver, verdict>>, checks' \in 0..MaxChecks
        PROVE  MailCheckTypeOK'
    BY <1>2, <2>2
  <2>3. ASSUME NEW a \in Addresses, BeginCheck(a)
        PROVE  MailCheckTypeOK'
    <3>1. checks' \in 0..MaxChecks
      BY <1>2, <2>3, MailCheckAssumption DEF BeginCheck
    <3>2. \/ \E yes \in BOOLEAN : Answered(a, yes)
          \/ check' = [at |-> "mx", of |-> a] /\ UNCHANGED verdict
      BY <2>3 DEF BeginCheck
    <3> QED
      BY <2>1, <2>2, <2>3, <3>1, <3>2 DEF BeginCheck
  <2>4. CASE MxAnswer
    <3>1. check # NoCheck /\ check.of \in Addresses
      BY <1>2, <2>4 DEF MxAnswer
    <3>2. \/ \E yes \in BOOLEAN : Answered(check.of, yes)
          \/ check' = [check EXCEPT !.at = "ip"] /\ UNCHANGED verdict
      BY <2>4 DEF MxAnswer
    <3>3. CASE \E yes \in BOOLEAN : Answered(check.of, yes)
      BY <1>2, <2>1, <2>4, <3>1, <3>3 DEF MxAnswer
    <3>4. CASE check' = [check EXCEPT !.at = "ip"] /\ UNCHANGED verdict
      <4>1. check'.at = "ip" /\ check'.of = check.of
        BY <3>1, <3>4, <2>4 DEF MxAnswer
      <4> QED
        BY <1>2, <2>4, <3>1, <3>4, <4>1 DEF MxAnswer
    <3> QED
      BY <3>2, <3>3, <3>4
  <2>5. CASE IpAnswer
    <3>1. check # NoCheck /\ check.of \in Addresses
      BY <1>2, <2>5 DEF IpAnswer
    <3>2. \E yes \in BOOLEAN : Answered(check.of, yes)
      <4> DEFINE yes == Zone[check.of.domain].ip > 0
      <4>1. yes \in BOOLEAN
        BY <3>1, MailCheckAssumption
      <4>2. Answered(check.of, yes)
        BY <2>5 DEF IpAnswer
      <4> HIDE DEF yes
      <4> QED
        BY <4>1, <4>2
    <3>3. UNCHANGED <<resolver, checks>> /\ checks' \in 0..MaxChecks
      BY <1>2, <2>5 DEF IpAnswer
    <3> QED
      BY <2>1, <3>1, <3>2, <3>3
  <2>6. CASE Unanswered
    <3>1. check # NoCheck /\ check.of \in Addresses
      BY <1>2, <2>6 DEF Unanswered
    <3>2. Answered(check.of, TRUE) /\ UNCHANGED <<resolver, checks>>
      BY <2>6 DEF Unanswered
    <3> QED
      BY <1>2, <2>1, <3>1, <3>2
  <2>7. CASE UNCHANGED mailCheckVars
    BY <1>2, <2>7 DEF mailCheckVars
  <2>8. CASE Malformed
    <3>1. check # NoCheck /\ check.of \in Addresses
      BY <1>2, <2>8 DEF Malformed
    <3> QED
      BY <1>2, <2>8, <3>1 DEF Malformed, Verdict
  <2> QED
    BY <1>2, <2>3, <2>4, <2>5, <2>6, <2>7, <2>8 DEF MailCheckNext
<1> QED
  BY <1>1, <1>2, PTL DEF MailCheckSpec

-----------------------------------------------------------------------------
(* Files: CopiesWhole and RestIsKept for every set of pictures, of images    *)
(* elsewhere and of uploads under way, and any number of crashes.            *)

Hosts == {HostOf[l] : l \in Links}
Questions == [host : Hosts, answer : {"image", "rest", "other"}]
UnderWay == [at : {"stat", "create", "fill", "insert"}, by : Visitors, hash : Hashes]
Passing == [at : {"next", "write", "filling", "rename"}, left : SUBSET Links,
            resting : SUBSET Hosts, asked : Seq(Questions),
            link : Links \cup {"none"}]

(* What the states of files, uploads and the pass can be.                    *)
Shape ==
    /\ disk \in [Hashes -> FileStates]
    /\ copies \in [Links -> FileStates] /\ partial \in [Links -> FileStates]
    /\ upload \in [Uploads -> {NoUpload} \cup UnderWay]
    /\ assets \subseteq [hash : Hashes, owner : Visitors, published : BOOLEAN]
    /\ pass \in {Sleeping} \cup Passing
    /\ crashes \in Nat

(* An upload that is about to be recorded has its file; what a pass is about *)
(* to rename is whole, and it writes for one of the addresses.               *)
FilesWritten ==
    /\ \A u \in Uploads : upload[u].at = "insert" => disk[upload[u].hash] # "absent"
    /\ pass.at \in {"write", "filling", "rename"} => pass.link \in Links
    /\ pass.at = "rename" => partial[pass.link] = "whole"

(* The pass remembers every host that asked to rest.                         *)
Remembered ==
    pass # Sleeping => \A i \in DOMAIN pass.asked :
        pass.asked[i].answer = "rest" => pass.asked[i].host \in pass.resting

FilesInv == Shape /\ FilesWritten /\ CopiesWhole /\ Remembered /\ RestIsKept

USE DEF NoUpload, Sleeping, FileStates

LEMMA FilesInitial == FilesInit => FilesInv
BY DEF FilesInit, FilesInv, Shape, FilesWritten, CopiesWhole, Remembered, RestIsKept

------------------------------------------------------------------------------
(* The mirror's half of the invariant and the uploads' half: a step of one   *)
(* leaves the variables of the other alone.                                  *)
MirrorInv ==
    /\ copies \in [Links -> FileStates] /\ partial \in [Links -> FileStates]
    /\ pass \in {Sleeping} \cup Passing
    /\ pass.at \in {"write", "filling", "rename"} => pass.link \in Links
    /\ pass.at = "rename" => partial[pass.link] = "whole"
    /\ \A l \in Links : copies[l] # "half"
    /\ Remembered /\ RestIsKept

MediaInv ==
    /\ disk \in [Hashes -> FileStates]
    /\ upload \in [Uploads -> {NoUpload} \cup UnderWay]
    /\ assets \subseteq [hash : Hashes, owner : Visitors, published : BOOLEAN]
    /\ crashes \in Nat
    /\ \A u \in Uploads : upload[u].at = "insert" => disk[upload[u].hash] # "absent"
    /\ \A a \in assets : disk[a.hash] # "absent"
    /\ \A h \in Hashes : disk[h] = "half" =>
         crashes > 0 \/ \E u \in Uploads : upload[u].at = "fill" /\ upload[u].hash = h

LEMMA Halves == FilesInv <=> MirrorInv /\ MediaInv
BY DEF FilesInv, Shape, FilesWritten, CopiesWhole, MirrorInv, MediaInv

LEMMA MediaIdle == MediaInv /\ UNCHANGED media /\ UNCHANGED crashes => MediaInv'
BY DEF MediaInv, media, UnderWay

LEMMA MirrorIdle == MirrorInv /\ UNCHANGED mirror => MirrorInv'
BY DEF MirrorInv, mirror, Remembered, RestIsKept

------------------------------------------------------------------------------
(* One lemma to each step of an upload.                                      *)
LEMMA ProcessKeeps ==
  ASSUME MediaInv, NEW u \in Uploads, NEW w \in Visitors, NEW p \in Pictures, Process(u, w, p)
  PROVE  MediaInv'
<1>1. p.hash \in Hashes
  BY DEF Hashes
<1> QED
  BY <1>1 DEF MediaInv, Process, UnderWay

LEMMA StatKeeps ==
  ASSUME MediaInv, NEW u \in Uploads, Stat(u)
  PROVE  MediaInv'
<1>1. upload[u] \in UnderWay
  BY DEF MediaInv, Stat, UnderWay
<1>2. upload' \in [Uploads -> {NoUpload} \cup UnderWay]
  BY <1>1 DEF MediaInv, Stat, Goes, UnderWay
<1>3. \A v \in Uploads : v # u => upload'[v] = upload[v]
  BY DEF MediaInv, Stat, Goes
<1>4. upload'[u].hash = upload[u].hash /\ upload'[u].at \in {"create", "insert"}
        /\ (upload'[u].at = "insert" => disk[upload[u].hash] # "absent")
  BY <1>1 DEF MediaInv, Stat, Goes, UnderWay
<1> QED
  BY <1>2, <1>3, <1>4 DEF MediaInv, Stat

LEMMA CreateKeeps ==
  ASSUME MediaInv, NEW u \in Uploads, Create(u)
  PROVE  MediaInv'
<1>1. upload[u] \in UnderWay
  BY DEF MediaInv, Create, UnderWay
<1>2. upload' \in [Uploads -> {NoUpload} \cup UnderWay]
  BY <1>1 DEF MediaInv, Create, Goes, UnderWay
<1>3. \A v \in Uploads : v # u => upload'[v] = upload[v]
  BY DEF MediaInv, Create, Goes
<1>4. upload'[u].hash = upload[u].hash /\ upload'[u].at = "fill"
  BY <1>1 DEF MediaInv, Create, Goes, UnderWay
<1>5. disk' = [disk EXCEPT ![upload[u].hash] = "half"] /\ upload[u].hash \in Hashes
  BY <1>1 DEF Create, UnderWay
<1> QED
  BY <1>2, <1>3, <1>4, <1>5 DEF MediaInv, Create

LEMMA FillKeeps ==
  ASSUME MediaInv, NEW u \in Uploads, Fill(u)
  PROVE  MediaInv'
<1>1. upload[u] \in UnderWay
  BY DEF MediaInv, Fill, UnderWay
<1>2. upload' \in [Uploads -> {NoUpload} \cup UnderWay]
  BY <1>1 DEF MediaInv, Fill, Goes, UnderWay
<1>3. \A v \in Uploads : v # u => upload'[v] = upload[v]
  BY DEF MediaInv, Fill, Goes
<1>4. upload'[u].hash = upload[u].hash /\ upload'[u].at = "insert"
  BY <1>1 DEF MediaInv, Fill, Goes, UnderWay
<1>5. disk' = [disk EXCEPT ![upload[u].hash] = "whole"] /\ upload[u].hash \in Hashes
  BY <1>1 DEF Fill, UnderWay
<1> QED
  BY <1>2, <1>3, <1>4, <1>5 DEF MediaInv, Fill

LEMMA InsertKeeps ==
  ASSUME MediaInv, NEW u \in Uploads, Insert(u)
  PROVE  MediaInv'
<1> DEFINE row == [hash |-> upload[u].hash, owner |-> upload[u].by, published |-> FALSE]
<1>1. upload[u] \in UnderWay /\ disk[upload[u].hash] # "absent"
  BY DEF MediaInv, Insert, UnderWay
<1>2. row \in [hash : Hashes, owner : Visitors, published : BOOLEAN]
  BY <1>1 DEF UnderWay
<1>3. \A a \in assets' : a \in assets \/ a = row
  BY DEF Insert
<1>4. assets' \subseteq [hash : Hashes, owner : Visitors, published : BOOLEAN]
  BY <1>2, <1>3 DEF MediaInv
<1>5. \A a \in assets' : disk[a.hash] # "absent"
  BY <1>1, <1>3 DEF MediaInv
<1>6. upload' \in [Uploads -> {NoUpload} \cup UnderWay]
        /\ (\A v \in Uploads : v # u => upload'[v] = upload[v]) /\ upload'[u].at = "free"
  BY DEF MediaInv, Insert
<1>7. upload[u].at # "fill"
  BY DEF Insert
<1> QED
  BY <1>4, <1>5, <1>6, <1>7 DEF MediaInv, Insert

LEMMA PublishKeeps ==
  ASSUME MediaInv, NEW a \in assets, MarkPublished(a)
  PROVE  MediaInv'
<1> DEFINE row == [a EXCEPT !.published = TRUE]
<1>1. row \in [hash : Hashes, owner : Visitors, published : BOOLEAN] /\ row.hash = a.hash
  BY DEF MediaInv
<1>2. \A b \in assets' : b \in assets \/ b = row
  BY DEF MarkPublished
<1> QED
  BY <1>1, <1>2 DEF MediaInv, MarkPublished

(* Whatever cuts a write short is counted.                                   *)
LEMMA CutShortKeeps ==
  ASSUME MediaInv, NEW U \in SUBSET Uploads, crashes' = crashes + 1, UNCHANGED <<disk, assets>>,
         upload' = [v \in Uploads |-> IF v \in U THEN NoUpload ELSE upload[v]]
  PROVE  MediaInv'
BY DEF MediaInv

LEMMA MediaStep ==
  ASSUME MediaInv, MirrorInv, [FilesNext]_filesVars
  PROVE  MediaInv'
<1>1. ASSUME NEW u \in Uploads,
             \/ \E w \in Visitors, p \in Pictures : Process(u, w, p)
             \/ Stat(u) \/ Create(u) \/ Fill(u) \/ WriteFails(u) \/ Insert(u)
      PROVE  MediaInv'
  <2>1. CASE WriteFails(u)
    <3>1. upload' = [v \in Uploads |-> IF v \in {u} THEN NoUpload ELSE upload[v]]
      BY <2>1 DEF WriteFails, MediaInv
    <3> QED
      BY <2>1, <3>1, CutShortKeeps DEF WriteFails
  <2> QED
    BY <1>1, <2>1, ProcessKeeps, StatKeeps, CreateKeeps, FillKeeps, InsertKeeps
<1>2. CASE Crash
  <2>1. upload' = [v \in Uploads |-> IF v \in Uploads THEN NoUpload ELSE upload[v]]
    BY <1>2 DEF Crash
  <2> QED
    BY <1>2, <2>1, CutShortKeeps DEF Crash
<1>4. CASE StartPass \/ WriteAside \/ FillAside \/ Rename \/ GiveUp \/ EndPass
  BY <1>4, MediaIdle DEF StartPass, WriteAside, FillAside, Rename, GiveUp, EndPass
<1>5. ASSUME NEW l \in Links, Skip(l) \/ \E a \in {"image", "rest", "other"} : Fetch(l, a)
      PROVE  MediaInv'
  BY <1>5, MediaIdle DEF Skip, Fetch
<1>6. CASE UNCHANGED filesVars
  BY <1>6, MediaIdle DEF filesVars
<1> QED
  BY <1>1, <1>2, <1>4, <1>5, <1>6, PublishKeeps DEF FilesNext

------------------------------------------------------------------------------
(* One lemma to each step of a pass.                                         *)
LEMMA Awake ==
  ASSUME MirrorInv, pass.at # "sleep"
  PROVE  pass \in Passing /\ pass # Sleeping
BY DEF MirrorInv, Passing

LEMMA StartKeeps == MirrorInv /\ StartPass => MirrorInv'
<1> SUFFICES ASSUME MirrorInv, StartPass PROVE MirrorInv'
  OBVIOUS
<1>1. pass' \in Passing /\ pass'.at = "next" /\ pass'.asked = <<>>
  BY DEF StartPass, Passing
<1> QED
  BY <1>1 DEF StartPass, MirrorInv, Remembered, RestIsKept, Passing

(* Steps that ask nobody keep what was asked and who rests.                  *)
LEMMA AskingNobodyKeeps ==
  ASSUME MirrorInv, pass.at # "sleep", NEW at \in {"next", "write", "filling", "rename"},
         NEW left \in SUBSET Links, NEW link \in Links \cup {"none"},
         pass' = [pass EXCEPT !.at = at, !.left = left, !.link = link]
  PROVE  /\ pass' \in Passing /\ pass'.at = at /\ pass'.link = link
         /\ Remembered' /\ RestIsKept'
<1>1. pass \in Passing
  BY Awake
<1>2. pass'.asked = pass.asked /\ pass'.resting = pass.resting /\ pass' \in Passing
        /\ pass'.at = at /\ pass'.link = link
  BY <1>1 DEF Passing
<1> QED
  BY <1>1, <1>2, Awake DEF MirrorInv, Remembered, RestIsKept

LEMMA SkipKeeps ==
  ASSUME MirrorInv, NEW l \in Links, Skip(l)
  PROVE  MirrorInv'
<1>1. pass \in Passing /\ pass.at = "next"
  BY Awake DEF Skip
<1>2. pass' = [pass EXCEPT !.at = "next", !.left = pass.left \ {l}, !.link = pass.link]
  BY <1>1 DEF Skip, Passing
<1>3. pass.left \ {l} \in SUBSET Links /\ pass.link \in Links \cup {"none"}
  BY <1>1 DEF Passing
<1> QED
  BY <1>1, <1>2, <1>3, AskingNobodyKeeps DEF Skip, MirrorInv

LEMMA Asked ==
  ASSUME NEW S, NEW s \in Seq(S), NEW x \in S
  PROVE  /\ Append(s, x) \in Seq(S)
         /\ \A i \in DOMAIN Append(s, x) : \/ i \in DOMAIN s /\ Append(s, x)[i] = s[i]
                                           \/ i = Len(s) + 1 /\ Append(s, x)[i] = x
<1>1. Append(s, x) \in Seq(S) /\ Len(Append(s, x)) = Len(s) + 1
  OBVIOUS
<1>2. DOMAIN Append(s, x) = 1..(Len(s) + 1) /\ DOMAIN s = 1..Len(s) /\ Len(s) \in Nat
  BY <1>1
<1>3. \A i \in 1..(Len(s) + 1) : Append(s, x)[i] = IF i = Len(s) + 1 THEN x ELSE s[i]
  OBVIOUS
<1> DEFINE t == Append(s, x)
<1>4. ASSUME NEW i \in DOMAIN t
      PROVE  \/ i \in DOMAIN s /\ t[i] = s[i]
             \/ i = Len(s) + 1 /\ t[i] = x
  <2>1. i \in 1..(Len(s) + 1)
    BY <1>2
  <2>2. CASE i = Len(s) + 1
    BY <2>1, <2>2, <1>3
  <2>3. CASE i # Len(s) + 1
    BY <2>1, <2>3, <1>2, <1>3
  <2> QED
    BY <2>2, <2>3
<1> QED
  BY <1>1, <1>4

LEMMA FetchKeeps ==
  ASSUME MirrorInv, NEW l \in Links, NEW answer \in {"image", "rest", "other"}, Fetch(l, answer)
  PROVE  MirrorInv'
<1> DEFINE question == [host |-> HostOf[l], answer |-> answer]
<1>1. pass \in Passing /\ pass.at = "next" /\ HostOf[l] \notin pass.resting
        /\ pass # Sleeping
  BY Awake DEF Fetch
<1>2. question \in Questions
  BY DEF Hosts, Questions
<1>3. pass.asked \in Seq(Questions)
  BY <1>1 DEF Passing
<1>4. /\ pass'.asked = Append(pass.asked, question)
      /\ pass'.link \in Links \cup {"none"} /\ (pass'.at = "write" => pass'.link \in Links)
      /\ pass'.at \in {"next", "write"}
      /\ pass'.resting = IF answer = "rest" THEN pass.resting \cup {HostOf[l]} ELSE pass.resting
      /\ pass'.left = pass.left \ {l}
      /\ pass' = [at |-> pass'.at, left |-> pass'.left, resting |-> pass'.resting,
                  asked |-> pass'.asked, link |-> pass'.link]
  BY <1>1 DEF Fetch, Passing
<1>5. /\ pass'.asked \in Seq(Questions)
      /\ \A i \in DOMAIN pass'.asked : \/ i \in DOMAIN pass.asked /\ pass'.asked[i] = pass.asked[i]
                                       \/ i = Len(pass.asked) + 1 /\ pass'.asked[i] = question
  <2>1. pass'.asked = Append(pass.asked, question)
    BY <1>4
  <2> HIDE DEF question
  <2> QED
    BY <1>2, <1>3, <2>1, Asked
<1>10. pass'.resting \subseteq Hosts /\ pass'.left \subseteq Links
  BY <1>1, <1>4 DEF Passing, Hosts
<1>11. pass' \in Passing
  BY <1>4, <1>5, <1>10 DEF Passing
<1>6. Remembered'
  BY <1>1, <1>4, <1>5 DEF MirrorInv, Remembered
<1>7. RestIsKept'
  <2> SUFFICES ASSUME NEW i \in DOMAIN pass'.asked, NEW j \in DOMAIN pass'.asked,
                      i < j, pass'.asked[i].host = pass'.asked[j].host
               PROVE  pass'.asked[i].answer # "rest"
    BY DEF RestIsKept
  <2>1. i \in DOMAIN pass.asked /\ pass'.asked[i] = pass.asked[i]
    BY <1>3, <1>5
  <2>2. CASE j \in DOMAIN pass.asked /\ pass'.asked[j] = pass.asked[j]
    BY <1>1, <2>1, <2>2 DEF MirrorInv, RestIsKept
  <2>3. CASE pass'.asked[j] = question
    BY <1>1, <2>1, <2>3 DEF MirrorInv, Remembered
  <2> QED
    BY <1>5, <2>2, <2>3
<1> QED
  BY <1>4, <1>11, <1>6, <1>7 DEF Fetch, MirrorInv

(* Only the name aside is written to, and it is renamed once it is full.     *)
LEMMA AsideKeeps ==
  ASSUME MirrorInv, WriteAside \/ FillAside \/ Rename \/ GiveUp
  PROVE  MirrorInv'
<1>1. pass \in Passing /\ pass.link \in Links /\ pass.left \in SUBSET Links
  BY Awake DEF WriteAside, FillAside, Rename, GiveUp, MirrorInv, Passing
<1>2. CASE WriteAside
  <2>1. pass' = [pass EXCEPT !.at = "filling", !.left = pass.left, !.link = pass.link]
    BY <1>1, <1>2 DEF WriteAside, Passing
  <2> QED
    BY <1>1, <1>2, <2>1, AskingNobodyKeeps DEF WriteAside, MirrorInv
<1>3. CASE FillAside
  <2>1. pass' = [pass EXCEPT !.at = "rename", !.left = pass.left, !.link = pass.link]
    BY <1>1, <1>3 DEF FillAside, Passing
  <2> QED
    BY <1>1, <1>3, <2>1, AskingNobodyKeeps DEF FillAside, MirrorInv
<1>4. CASE Rename
  <2>1. pass' = [pass EXCEPT !.at = "next", !.left = pass.left, !.link = "none"]
    BY <1>1, <1>4 DEF Rename, Passing
  <2> QED
    BY <1>1, <1>4, <2>1, AskingNobodyKeeps DEF Rename, MirrorInv
<1>5. CASE GiveUp
  <2>1. pass' = [pass EXCEPT !.at = "next", !.left = pass.left, !.link = "none"]
    BY <1>1, <1>5 DEF GiveUp, Passing
  <2> QED
    BY <1>1, <1>5, <2>1, AskingNobodyKeeps DEF GiveUp, MirrorInv
<1> QED
  BY <1>2, <1>3, <1>4, <1>5

LEMMA MirrorStep ==
  ASSUME MirrorInv, [FilesNext]_filesVars
  PROVE  MirrorInv'
<1>1. ASSUME NEW u \in Uploads,
             \/ \E w \in Visitors, p \in Pictures : Process(u, w, p)
             \/ Stat(u) \/ Create(u) \/ Fill(u) \/ WriteFails(u) \/ Insert(u)
      PROVE  MirrorInv'
  BY <1>1, MirrorIdle DEF Process, Stat, Create, Fill, WriteFails, Insert
<1>2. ASSUME NEW a \in assets, MarkPublished(a)
      PROVE  MirrorInv'
  BY <1>2, MirrorIdle DEF MarkPublished
<1>4. CASE Crash \/ EndPass
  BY <1>4 DEF Crash, EndPass, MirrorInv, Remembered, RestIsKept
<1>5. CASE UNCHANGED filesVars
  BY <1>5, MirrorIdle DEF filesVars
<1> QED
  BY <1>1, <1>2, <1>4, <1>5, StartKeeps, AsideKeeps, SkipKeeps, FetchKeeps DEF FilesNext

------------------------------------------------------------------------------
LEMMA FilesInvariant == FilesSpec => []FilesInv
<1>1. FilesInv /\ [FilesNext]_filesVars => FilesInv'
  <2>1. (FilesInv <=> MirrorInv /\ MediaInv)'
    BY Halves, PTL
  <2> QED
    BY Halves, <2>1, MediaStep, MirrorStep
<1> QED
  BY FilesInitial, <1>1, PTL DEF FilesSpec

(* copy_one writes aside and renames, store_upload writes before it records: *)
(* no copy is ever half an image, a recorded image has its file, and only a  *)
(* write under way or one that was cut short leaves a file half written.     *)
THEOREM CopiesWholeAlways == FilesSpec => []CopiesWhole
<1>1. FilesInv => CopiesWhole
  BY DEF FilesInv
<1> QED
  BY FilesInvariant, <1>1, PTL

(* mirror_pending asks a host nothing more in a pass once it said to rest.   *)
THEOREM RestIsKeptAlways == FilesSpec => []RestIsKept
<1>1. FilesInv => RestIsKept
  BY DEF FilesInv
<1> QED
  BY FilesInvariant, <1>1, PTL

------------------------------------------------------------------------------
(* The types of Files: an image has one row, a pass asks for no address      *)
(* twice, and the counts of an instance stay within its bounds.              *)
OneRowAnImage == \A a, b \in assets : a.hash = b.hash => a = b
AskedAndLeft == pass # Sleeping => Len(pass.asked) + Cardinality(pass.left) <= Cardinality(Links)
FilesCounts == uploads \in 0..MaxUploads /\ crashes \in 0..MaxCrashes /\ passes \in 0..MaxPasses
FilesBounds == OneRowAnImage /\ AskedAndLeft /\ FilesCounts

LEMMA CountUp ==
  ASSUME NEW max \in Nat, NEW n \in 0..max, n < max
  PROVE  n + 1 \in 0..max
OBVIOUS

(* What is left to do of a pass gets smaller by one.                         *)
LEMMA OneLeftLess ==
  ASSUME NEW S \in SUBSET Links, NEW l \in S
  PROVE  /\ Cardinality(S) \in Nat /\ Cardinality(S \ {l}) \in Nat /\ Cardinality(Links) \in Nat
         /\ Cardinality(S \ {l}) + 1 = Cardinality(S)
<1>1. IsFiniteSet(Links) /\ IsFiniteSet(S)
  BY FilesAssumption, FS_Subset
<1>2. Cardinality(S) \in Nat /\ Cardinality(Links) \in Nat
  BY <1>1, FS_CardinalityType
<1>3. Cardinality(S \ {l}) = Cardinality(S) - 1 /\ Cardinality(S \ {l}) \in Nat
  BY <1>1, FS_RemoveElement, FS_CardinalityType
<1> QED
  BY <1>2, <1>3

LEMMA BothMove ==
  ASSUME NEW len \in Nat, NEW left \in Nat, NEW links \in Nat, NEW newLen, NEW newLeft,
         len + left <= links, newLeft + 1 = left, newLen = len \/ newLen = len + 1,
         newLeft \in Nat
  PROVE  newLen + newLeft <= links
OBVIOUS

LEMMA AskedStep ==
  ASSUME FilesInv, AskedAndLeft, [FilesNext]_filesVars
  PROVE  AskedAndLeft'
<1> USE DEF AskedAndLeft
<1>1. CASE UNCHANGED pass
  BY <1>1
<1>2. CASE pass' = Sleeping
  BY <1>2
<1>3. CASE StartPass
  <2>1. pass'.asked = <<>> /\ pass'.left = Links
    BY <1>3 DEF StartPass
  <2>2. Len(pass'.asked) = 0 /\ Cardinality(Links) \in Nat
    BY <2>1, FilesAssumption, FS_CardinalityType
  <2> QED
    BY <2>1, <2>2
<1>4. ASSUME NEW l \in Links, Skip(l)
      PROVE  AskedAndLeft'
  <2>1. pass \in Passing /\ pass # Sleeping /\ l \in pass.left
    BY <1>4, Awake, Halves DEF Skip
  <2>2. pass'.asked = pass.asked /\ pass'.left = pass.left \ {l}
    BY <1>4, <2>1 DEF Skip, Passing
  <2>3. pass.left \in SUBSET Links /\ Len(pass.asked) \in Nat
    BY <2>1 DEF Passing
  <2>4. Cardinality(pass.left \ {l}) + 1 = Cardinality(pass.left) /\ Cardinality(pass.left) \in Nat
          /\ Cardinality(pass.left \ {l}) \in Nat /\ Cardinality(Links) \in Nat
    BY <2>1, <2>3, OneLeftLess
  <2>5. Cardinality(pass'.left) + 1 = Cardinality(pass.left) /\ Len(pass'.asked) = Len(pass.asked)
          /\ Cardinality(pass'.left) \in Nat
    BY <2>2, <2>4, Zenon
  <2>6. Len(pass.asked) + Cardinality(pass.left) <= Cardinality(Links)
    BY <2>1
  <2>7. Len(pass'.asked) + Cardinality(pass'.left) <= Cardinality(Links)
    BY <2>3, <2>4, <2>5, <2>6, BothMove
  <2> QED
    BY <2>7
<1>5. ASSUME NEW l \in Links, NEW answer \in {"image", "rest", "other"}, Fetch(l, answer)
      PROVE  AskedAndLeft'
  <2> DEFINE question == [host |-> HostOf[l], answer |-> answer]
  <2>1. pass \in Passing /\ pass # Sleeping /\ l \in pass.left
    BY <1>5, Awake, Halves DEF Fetch
  <2>2. pass'.asked = Append(pass.asked, question) /\ pass'.left = pass.left \ {l}
    BY <1>5, <2>1 DEF Fetch, Passing
  <2>3. pass.left \in SUBSET Links /\ pass.asked \in Seq(Questions)
    BY <2>1 DEF Passing
  <2> HIDE DEF question
  <2>4. Len(pass'.asked) = Len(pass.asked) + 1 /\ Len(pass.asked) \in Nat
    BY <2>2, <2>3
  <2>5. Cardinality(pass.left \ {l}) + 1 = Cardinality(pass.left) /\ Cardinality(pass.left) \in Nat
          /\ Cardinality(pass.left \ {l}) \in Nat /\ Cardinality(Links) \in Nat
    BY <2>1, <2>3, OneLeftLess
  <2>6. Cardinality(pass'.left) + 1 = Cardinality(pass.left) /\ Cardinality(pass'.left) \in Nat
    BY <2>2, <2>5, Zenon
  <2>7. Len(pass.asked) + Cardinality(pass.left) <= Cardinality(Links)
    BY <2>1
  <2>8. Len(pass'.asked) + Cardinality(pass'.left) <= Cardinality(Links)
    BY <2>4, <2>5, <2>6, <2>7, BothMove
  <2> QED
    BY <2>8
<1>6. CASE WriteAside \/ FillAside \/ Rename \/ GiveUp
  <2>1. pass \in Passing /\ pass # Sleeping
    BY <1>6, Awake, Halves DEF WriteAside, FillAside, Rename, GiveUp
  <2>2. pass'.asked = pass.asked /\ pass'.left = pass.left
    BY <1>6, <2>1 DEF WriteAside, FillAside, Rename, GiveUp, Passing
  <2> QED
    BY <2>1, <2>2
<1>7. ASSUME NEW u \in Uploads,
             \/ \E w \in Visitors, p \in Pictures : Process(u, w, p)
             \/ Stat(u) \/ Create(u) \/ Fill(u) \/ WriteFails(u) \/ Insert(u)
      PROVE  UNCHANGED pass
  BY <1>7 DEF Process, Stat, Create, Fill, WriteFails, Insert, mirror
<1>8. ASSUME NEW a \in assets, MarkPublished(a)
      PROVE  UNCHANGED pass
  BY <1>8 DEF MarkPublished, mirror
<1>10. CASE EndPass \/ Crash
  BY <1>10, <1>2 DEF EndPass, Crash
<1>11. CASE UNCHANGED filesVars
  BY <1>11, <1>1 DEF filesVars, mirror
<1> QED
  BY <1>1, <1>3, <1>4, <1>5, <1>6, <1>7, <1>8, <1>10, <1>11 DEF FilesNext

(* Insert looks before it writes, and to publish keeps the hash.             *)
LEMMA OneRowStep ==
  ASSUME FilesInv, OneRowAnImage, [FilesNext]_filesVars
  PROVE  OneRowAnImage'
<1>1. CASE UNCHANGED assets
  BY <1>1 DEF OneRowAnImage
<1>2. ASSUME NEW u \in Uploads, Insert(u)
      PROVE  OneRowAnImage'
  <2> DEFINE row == [hash |-> upload[u].hash, owner |-> upload[u].by, published |-> FALSE]
  <2>1. \A a \in assets' : a \in assets \/ (a = row /\ \A b \in assets : b.hash # row.hash)
    BY <1>2 DEF Insert
  <2> HIDE DEF row
  <2> QED
    BY <2>1 DEF OneRowAnImage
<1>3. ASSUME NEW a \in assets, MarkPublished(a)
      PROVE  OneRowAnImage'
  <2> DEFINE row == [a EXCEPT !.published = TRUE]
  <2>1. row.hash = a.hash
    BY DEF FilesInv, Shape
  <2>2. \A b \in assets' : b \in assets \ {a} \/ b = row
    BY <1>3 DEF MarkPublished
  <2> HIDE DEF row
  <2> QED
    BY <2>1, <2>2 DEF OneRowAnImage
<1>4. ASSUME NEW u \in Uploads,
             \/ \E w \in Visitors, p \in Pictures : Process(u, w, p)
             \/ Stat(u) \/ Create(u) \/ Fill(u) \/ WriteFails(u)
      PROVE  UNCHANGED assets
  BY <1>4 DEF Process, Stat, Create, Fill, WriteFails
<1>6. CASE StartPass \/ WriteAside \/ FillAside \/ Rename \/ GiveUp \/ EndPass \/ Crash
  BY <1>1, <1>6 DEF StartPass, WriteAside, FillAside, Rename, GiveUp, EndPass, Crash, media
<1>7. ASSUME NEW l \in Links, Skip(l) \/ \E a \in {"image", "rest", "other"} : Fetch(l, a)
      PROVE  UNCHANGED assets
  BY <1>7 DEF Skip, Fetch, media
<1>8. CASE UNCHANGED filesVars
  BY <1>1, <1>8 DEF filesVars, media
<1> QED
  BY <1>1, <1>2, <1>3, <1>4, <1>6, <1>7, <1>8 DEF FilesNext

LEMMA FilesCountsStep ==
  ASSUME FilesCounts, [FilesNext]_filesVars
  PROVE  FilesCounts'
<1>1. /\ uploads' = uploads \/ (uploads < MaxUploads /\ uploads' = uploads + 1)
      /\ crashes' = crashes \/ (crashes < MaxCrashes /\ crashes' = crashes + 1)
      /\ passes' = passes \/ (passes < MaxPasses /\ passes' = passes + 1)
  BY DEF FilesNext, filesVars, media, mirror, Process, Stat, Create, Fill, WriteFails, Insert,
         MarkPublished, StartPass, Skip, Fetch, WriteAside, FillAside, Rename, GiveUp, EndPass, Crash
<1> QED
  BY <1>1, CountUp, FilesAssumption DEF FilesCounts

(* Files keeps to its types.                                                 *)
LEMMA FilesTyped == FilesSpec => []FilesTypeOK
<1>1. FilesInit => FilesBounds
  BY FilesAssumption DEF FilesInit, FilesBounds, OneRowAnImage, AskedAndLeft, FilesCounts
<1>2. FilesInv /\ FilesBounds /\ [FilesNext]_filesVars => FilesBounds'
  BY AskedStep, OneRowStep, FilesCountsStep DEF FilesBounds
<1>3. FilesInv /\ FilesBounds => FilesTypeOK
  <2> SUFFICES ASSUME FilesInv, FilesBounds PROVE FilesTypeOK
    OBVIOUS
  <2>1. \A u \in Uploads : upload[u] # NoUpload => upload[u].hash \in Hashes
    BY DEF FilesInv, Shape, UnderWay
  <2>2. \A a \in assets : a.hash \in Hashes /\ a.owner \in Visitors /\ a.published \in BOOLEAN
    BY DEF FilesInv, Shape
  <2>3. pass = Sleeping \/ (pass.left \subseteq Links /\ Len(pass.asked) <= Cardinality(Links))
    <3>1. SUFFICES ASSUME pass # Sleeping
                   PROVE  pass.left \subseteq Links /\ Len(pass.asked) <= Cardinality(Links)
      OBVIOUS
    <3>2. pass.left \subseteq Links /\ Len(pass.asked) \in Nat
      BY <3>1 DEF FilesInv, Shape, Passing
    <3>3. Cardinality(pass.left) \in Nat /\ Cardinality(Links) \in Nat
      BY <3>2, FilesAssumption, FS_Subset, FS_CardinalityType
    <3> QED
      BY <3>1, <3>2, <3>3 DEF FilesBounds, AskedAndLeft
  <2> QED
    BY <2>1, <2>2, <2>3 DEF FilesTypeOK, FilesInv, Shape, FilesBounds, OneRowAnImage, FilesCounts
<1> QED
  BY FilesInvariant, <1>1, <1>2, <1>3, PTL DEF FilesSpec

-----------------------------------------------------------------------------
(* Desk: DraftsDecidedOnce and ReportsFiledAndClosed for every set of        *)
(* parties, people, texts and reports, and behaviours of any length.         *)

Report == [about : Reports, status : {"open", "resolved", "rejected"}, note : 0..NoteLimit,
           email : Nat]

(* How many drafts of x wait for a decision.                                 *)
Waiting(x) == IF bios[x].draft # Nil THEN 1 ELSE 0

(* What was published of a party or a person, and what waits, was proposed.  *)
BiosInv ==
    /\ bios \in [Subjects -> [draft : Texts \cup {Nil}, summary : Texts \cup {Nil}]]
    /\ proposals \in [Subjects -> [made : Nat, published : Nat]]
    /\ \A x \in Subjects : proposals[x].published + Waiting(x) <= proposals[x].made

(* A report that is closed has no address.                                   *)
ReportsInv ==
    /\ reports \in Seq(Report)
    /\ \A i \in Ids(reports) : reports[i].status # "open" => reports[i].email = 0

------------------------------------------------------------------------------
(* Summaries.                                                                *)

LEMMA WaitingCounts ==
  ASSUME NEW x \in Subjects
  PROVE  Cardinality({x} \cap Pending(Subjects)) = Waiting(x)
<1>1. CASE bios[x].draft # Nil
  <2>1. {x} \cap Pending(Subjects) = {x}
    BY <1>1 DEF Pending
  <2> QED
    BY <1>1, <2>1, FS_Singleton DEF Waiting
<1>2. CASE bios[x].draft = Nil
  <2>1. {x} \cap Pending(Subjects) = {}
    BY <1>2 DEF Pending
  <2> QED
    BY <1>2, <2>1, FS_EmptySet DEF Waiting
<1> QED
  BY <1>1, <1>2

LEMMA ProposeKeeps ==
  ASSUME BiosInv, NEW x \in Subjects, NEW t \in Texts, SetSummaryDraft(x, t)
  PROVE  BiosInv'
BY DEF BiosInv, SetSummaryDraft, Waiting

(* A decision that changes summaries takes the drafts it decides away.       *)
LEMMA DecideKeeps ==
  ASSUME BiosInv, NEW S, NEW summary, Decide(S, summary),
         \A x \in Subjects \cap S : /\ summary[x] \in Texts \cup {Nil}
                                    /\ summary[x] # bios[x].summary => bios[x].draft # Nil
  PROVE  BiosInv'
<1>1. ASSUME NEW x \in Subjects, x \in S
      PROVE  /\ bios'[x] = [draft |-> Nil, summary |-> summary[x]]
             /\ proposals'[x] \in [made : Nat, published : Nat]
             /\ proposals'[x].published + Waiting(x)' <= proposals'[x].made
  <2>1. bios'[x] = [draft |-> Nil, summary |-> summary[x]]
    BY <1>1 DEF Decide
  <2>2. proposals'[x] = [proposals[x] EXCEPT !.published =
            IF summary[x] # bios[x].summary THEN @ + 1 ELSE @]
    BY <1>1 DEF Decide
  <2>3. proposals[x] \in [made : Nat, published : Nat]
          /\ proposals[x].published + Waiting(x) <= proposals[x].made
    BY DEF BiosInv
  <2>4. summary[x] # bios[x].summary => Waiting(x) = 1
    BY <1>1 DEF Waiting
  <2>5. Waiting(x)' = 0 /\ Waiting(x) \in {0, 1}
    BY <2>1 DEF Waiting
  <2> QED
    BY <2>1, <2>2, <2>3, <2>4, <2>5
<1>2. ASSUME NEW x \in Subjects, x \notin S
      PROVE  bios'[x] = bios[x] /\ proposals'[x] = proposals[x]
  <2>1. proposals[x] \in [made : Nat, published : Nat]
    BY DEF BiosInv
  <2> QED
    BY <1>2, <2>1 DEF Decide
<1>3. ASSUME NEW x \in Subjects
      PROVE  /\ bios'[x] \in [draft : Texts \cup {Nil}, summary : Texts \cup {Nil}]
             /\ proposals'[x] \in [made : Nat, published : Nat]
             /\ proposals'[x].published + Waiting(x)' <= proposals'[x].made
  <2>1. CASE x \in S
    <3>1. summary[x] \in Texts \cup {Nil}
      BY <2>1
    <3>2. bios'[x] = [draft |-> Nil, summary |-> summary[x]]
      BY <1>1, <2>1
    <3>3. bios'[x] \in [draft : Texts \cup {Nil}, summary : Texts \cup {Nil}]
      BY <3>1, <3>2
    <3> QED
      BY <1>1, <2>1, <3>3
  <2>2. CASE x \notin S
    <3>1. Waiting(x)' = Waiting(x)
      BY <1>2, <2>2 DEF Waiting
    <3> QED
      BY <1>2, <2>2, <3>1 DEF BiosInv
  <2> QED
    BY <2>1, <2>2
<1>4. bios' = [x \in Subjects |-> bios'[x]] /\ proposals' = [x \in Subjects |-> proposals'[x]]
  BY DEF Decide
<1> QED
  BY <1>3, <1>4 DEF BiosInv

LEMMA BiosStep ==
  ASSUME BiosInv, [DeskNext]_deskVars
  PROVE  BiosInv'
<1>1. CASE UNCHANGED <<bios, proposals>>
  BY <1>1 DEF BiosInv, Waiting
<1>2. ASSUME NEW x, NEW t \in Texts, PublishSummaryDraft(x, t)
      PROVE  BiosInv'
  <2>1. \A y \in Subjects \cap ({x} \cap Pending(Parties)) :
           Edited(t)[y] \in Texts /\ bios[y].draft # Nil
    BY DEF Edited, Pending
  <2> QED
    BY <1>2, <2>1, DecideKeeps DEF PublishSummaryDraft
<1>3. ASSUME NEW S, Decide(S, Kept)
      PROVE  BiosInv'
  <2>1. \A y \in Subjects \cap S : Kept[y] \in Texts \cup {Nil} /\ Kept[y] = bios[y].summary
    BY DEF Kept, BiosInv
  <2> QED
    BY <1>3, <2>1, DecideKeeps
<1>4. CASE PublishAllSummaryDrafts
  <2>1. \A y \in Subjects \cap Pending(People) :
           Drafted[y] \in Texts \cup {Nil} /\ bios[y].draft # Nil
    BY DEF Drafted, Pending, BiosInv
  <2> QED
    BY <1>4, <2>1, DecideKeeps DEF PublishAllSummaryDrafts
<1>5. ASSUME NEW f \in forms, NEW t \in Texts \cup {Nil}, BioPublish(f, t)
      PROVE  BiosInv'
  <2>1. CASE t = Nil
    BY <1>3, <1>5, <2>1 DEF BioPublish, DiscardSummaryDraft
  <2>2. CASE t # Nil
    BY <1>2, <1>5, <2>2 DEF BioPublish
  <2> QED
    BY <2>1, <2>2
<1>6. ASSUME NEW f \in forms, BioDiscard(f) \/ BioPeople(f)
      PROVE  BiosInv'
  BY <1>3, <1>4, <1>6 DEF BioDiscard, BioPeople, DiscardSummaryDraft, DiscardAllSummaryDrafts
<1>7. CASE UNCHANGED deskVars
  BY <1>1, <1>7 DEF deskVars, desk
<1>8. ASSUME NEW q, OpenQueue(q)
      PROVE  BiosInv'
  BY <1>1, <1>8 DEF OpenQueue
<1>9. ASSUME NEW f, NEW t, TranslationPublish(f, t) \/ TranslationDiscard(f) \/ Publish(f)
      PROVE  BiosInv'
  BY <1>1, <1>9 DEF TranslationPublish, TranslationDiscard, Discard, SetText, Publish,
                    OnlyTranslations
<1>10. ASSUME NEW f, NEW t, NEW origin, NEW status, Upsert(f, t, origin, status)
       PROVE  BiosInv'
  BY <1>1, <1>10 DEF Upsert, OnlyTranslations
<1>11. ASSUME NEW r, NEW status, NEW note, CreateReport(r) \/ CorrectionClose(r, status, note)
       PROVE  BiosInv'
  BY <1>1, <1>11 DEF CreateReport, CorrectionClose, Close, OnlyReports
<1>12. ASSUME NEW r, NEW v, FindConflict(r, v) \/ InsertConflict(r) \/ ConflictResolve(r)
       PROVE  BiosInv'
  BY <1>1, <1>12 DEF FindConflict, InsertConflict, ConflictResolve, OnlyConflicts
<1> QED
  BY <1>5, <1>6, <1>7, <1>8, <1>9, <1>10, <1>11, <1>12, ProposeKeeps DEF DeskNext

(* set_summary_draft, publish_summary_draft and discard_summary_draft: from  *)
(* however old pages editors decide, a draft is published at most once.      *)
THEOREM DraftsDecidedOnceAlways == DeskSpec => []DraftsDecidedOnce
<1>1. DeskInit => BiosInv
  BY DEF DeskInit, BiosInv, Waiting
<1>2. BiosInv /\ [DeskNext]_deskVars => BiosInv'
  BY BiosStep
<1>3. BiosInv => DraftsDecidedOnce
  BY WaitingCounts DEF BiosInv, DraftsDecidedOnce
<1> QED
  BY <1>1, <1>2, <1>3, PTL DEF DeskSpec

------------------------------------------------------------------------------
(* Reports.                                                                  *)

(* What a decision does to the rows.                                         *)
LEMMA CloseRows ==
  ASSUME ReportsInv, NEW i, NEW status \in {"resolved", "rejected"}, NEW note \in 0..NoteLimit,
         Close(i, status, note)
  PROVE  /\ reports' \in Seq(Report) /\ Ids(reports)' = Ids(reports)
         /\ \A k \in Ids(reports) :
               IF k = i /\ reports[k].status = "open"
               THEN reports'[k].status # "open" /\ reports'[k].email = 0
               ELSE reports'[k] = reports[k]
<1>1. CASE i \in Ids(reports) /\ reports[i].status = "open"
  <2> DEFINE row == [about |-> reports[i].about, status |-> status, note |-> note, email |-> 0]
  <2>1. reports[i] \in Report /\ reports \in Seq(Report)
    BY <1>1 DEF ReportsInv, Ids
  <2>2. reports[i] = [about |-> reports[i].about, status |-> reports[i].status,
                      note |-> reports[i].note, email |-> reports[i].email]
    BY <2>1 DEF Report
  <2>3. reports' = [reports EXCEPT ![i].status = status, ![i].note = note, ![i].email = 0]
    BY <1>1 DEF Close
  <2>4. DOMAIN reports' = DOMAIN reports
          /\ \A k \in DOMAIN reports : k # i => reports'[k] = reports[k]
    BY <2>1, <2>3
  <2>5. reports'[i] = [[[reports[i] EXCEPT !.status = status] EXCEPT !.note = note] EXCEPT !.email = 0]
    BY <1>1, <2>1, <2>3 DEF Ids
  <2>6. reports'[i] = row
    BY <2>2, <2>5
  <2>7. reports' = [reports EXCEPT ![i] = row]
    BY <1>1, <2>1, <2>3, <2>4, <2>6 DEF Ids
  <2>8. row \in Report
    BY <2>1 DEF Report
  <2>9. row.status # "open" /\ row.email = 0
    OBVIOUS
  <2> HIDE DEF row
  <2>10. reports' \in Seq(Report) /\ Ids(reports)' = Ids(reports)
    BY <1>1, <2>1, <2>7, <2>8 DEF Ids
  <2>11. \A k \in Ids(reports) : reports'[k] = IF k = i THEN row ELSE reports[k]
    BY <1>1, <2>1, <2>7 DEF Ids
  <2> QED
    BY <1>1, <2>9, <2>10, <2>11
<1>2. CASE i \in Ids(reports) /\ reports[i].status # "open"
  BY <1>2 DEF Close, ReportsInv
<1>3. CASE i \notin Ids(reports)
  <2>1. reports' = reports
    BY <1>3 DEF Close, Ids, ReportsInv
  <2> QED
    BY <1>3, <2>1 DEF ReportsInv
<1> QED
  BY <1>1, <1>2, <1>3

LEMMA CreateRows ==
  ASSUME ReportsInv, NEW r \in Reports, CreateReport(r)
  PROVE  /\ reports' \in Seq(Report)
         /\ \A k \in Ids(reports) : k \in Ids(reports') /\ reports'[k] = reports[k]
         /\ \A k \in Ids(reports') : k \in Ids(reports) \/ reports'[k].status = "open"
<1> DEFINE row == [about |-> r, status |-> "open", note |-> 0, email |-> r.email]
<1>1. reports' = Append(reports, row) /\ reports \in Seq(Report)
  BY DEF CreateReport, ReportsInv
<1>2. row \in Report /\ row.status = "open"
  BY ReportsAssumption DEF Report, NoteLimit
<1> HIDE DEF row
<1> QED
  BY <1>1, <1>2 DEF Ids

(* What the rows do in any step.                                             *)
RowsMove ==
    /\ ReportsInv'
    /\ \A i \in Ids(reports) :
          IF reports[i].status = "open"
          THEN reports'[i] = reports[i] \/ reports'[i].email = 0
          ELSE reports'[i] = reports[i] /\ reports[i].email = 0

LEMMA ReportsStep ==
  ASSUME ReportsInv, [DeskNext]_deskVars
  PROVE  RowsMove
<1>1. CASE UNCHANGED reports
  BY <1>1 DEF ReportsInv, RowsMove, Ids
<1>2. ASSUME NEW f \in forms, NEW status \in {"resolved", "rejected"},
             NEW note \in {0, NoteLimit + 1}, CorrectionClose(f, status, note)
      PROVE  RowsMove
  <2>1. PICK n \in 0..NoteLimit : Close(f.id, status, n)
    BY <1>2 DEF CorrectionClose, NoteLimit
  <2> QED
    BY <2>1, CloseRows DEF ReportsInv, RowsMove, Ids
<1>3. ASSUME NEW r \in Reports, CreateReport(r)
      PROVE  RowsMove
  BY <1>3, CreateRows DEF ReportsInv, RowsMove, Ids
<1>4. ASSUME NEW x, NEW t, SetSummaryDraft(x, t)
      PROVE  RowsMove
  BY <1>1, <1>4 DEF SetSummaryDraft, OnlyBios
<1>5. ASSUME NEW S, NEW summary, Decide(S, summary)
      PROVE  RowsMove
  BY <1>1, <1>5 DEF Decide, OnlyBios
<1>6. ASSUME NEW f, NEW t, BioPublish(f, t) \/ BioDiscard(f) \/ BioPeople(f)
      PROVE  RowsMove
  BY <1>5, <1>6 DEF BioPublish, BioDiscard, BioPeople, PublishSummaryDraft, DiscardSummaryDraft,
                    PublishAllSummaryDrafts, DiscardAllSummaryDrafts
<1>7. CASE UNCHANGED deskVars
  BY <1>1, <1>7 DEF deskVars, desk
<1>8. ASSUME NEW q, OpenQueue(q)
      PROVE  RowsMove
  BY <1>1, <1>8 DEF OpenQueue
<1>9. ASSUME NEW f, NEW t, TranslationPublish(f, t) \/ TranslationDiscard(f) \/ Publish(f)
      PROVE  RowsMove
  BY <1>1, <1>9 DEF TranslationPublish, TranslationDiscard, Discard, SetText, Publish,
                    OnlyTranslations
<1>10. ASSUME NEW f, NEW t, NEW origin, NEW status, Upsert(f, t, origin, status)
       PROVE  RowsMove
  BY <1>1, <1>10 DEF Upsert, OnlyTranslations
<1>11. ASSUME NEW r, NEW v, FindConflict(r, v) \/ InsertConflict(r) \/ ConflictResolve(r)
       PROVE  RowsMove
  BY <1>1, <1>11 DEF FindConflict, InsertConflict, ConflictResolve, OnlyConflicts
<1> QED
  BY <1>2, <1>3, <1>4, <1>6, <1>7, <1>8, <1>9, <1>10, <1>11 DEF DeskNext

LEMMA DescriptionFits ==
  \A r : r.description \in Nat /\ 10 <= r.description /\ r.description <= 2000
          => r.description \in 10..2000
BY SMTT(90)

(* The checks of the form are those of the table, with the page a path.      *)
LEMMA FormFits == \A r \in Reports : Problem(r) = "none" => RowFits(r) /\ r.sitePath
<1> SUFFICES ASSUME NEW r \in Reports, Problem(r) = "none" PROVE RowFits(r) /\ r.sitePath
  OBVIOUS
<1>1. r.sitePath /\ ~(r.page > 300)
  BY DEF Problem
<1>2. ~(r.description < 10) /\ ~(r.description > 2000)
  BY <1>1 DEF Problem
<1>3. ~(r.source > 0 /\ (~r.http \/ r.source > 500))
  BY <1>1, <1>2 DEF Problem
<1>4. ~(r.email > 0 /\ (~r.at \/ r.email > 254))
  BY <1>1, <1>2, <1>3 DEF Problem
<1>5. /\ r.page \in Nat /\ r.description \in Nat /\ r.source \in Nat /\ r.email \in Nat
      /\ r.page > 0
  BY <1>1, ReportsAssumption
<1>6. r.description \in 10..2000
  <2>1. r.description \in Nat /\ 10 <= r.description /\ r.description <= 2000
    BY <1>2, <1>5
  <2> QED
    BY <2>1, DescriptionFits
<1>7. r.email <= 254
  BY <1>4, <1>5
<1>8. r.page \in 1..300
  <2>1. ~(r.page > 300)
    BY <1>1
  <2> QED
    BY <2>1, <1>5
<1>9. r.source > 0 => r.source <= 500 /\ r.http
  BY <1>3, <1>5
<1> QED
  BY <1>1, <1>6, <1>9, <1>7, <1>8 DEF RowFits

(* What the form accepts the table accepts (corrections.rs problem, migration *)
(* 0044), and close decides an open report once and forgets its address.     *)
THEOREM ReportsFiledAndClosedAlways == DeskSpec => ReportsFiledAndClosed
<1>1. DeskInit => ReportsInv
  BY DEF DeskInit, ReportsInv, Ids
<1>2. ReportsInv /\ [DeskNext]_deskVars => ReportsInv'
  BY ReportsStep DEF RowsMove
<1>3. ReportsInv /\ [DeskNext]_deskVars =>
        [/\ \A r \in Reports : Problem(r) = "none" => RowFits(r) /\ r.sitePath
         /\ \A i \in Ids(reports) :
               IF reports[i].status = "open"
               THEN reports'[i] = reports[i] \/ reports'[i].email = 0
               ELSE reports'[i] = reports[i] /\ reports[i].email = 0]_deskVars
  BY ReportsStep, FormFits DEF RowsMove
<1> QED
  BY <1>1, <1>2, <1>3, PTL DEF DeskSpec, ReportsFiledAndClosed

------------------------------------------------------------------------------
(* The types of Desk: rows are only appended or changed in place, so that    *)
(* what a queue page named stays there, however old the page.                *)
Translation == [field : Fields, text : Texts, origin : {"human", "machine"},
                status : {"draft", "published", "gone"}, reviewed : BOOLEAN]
Conflict == [value : Values, open : BOOLEAN]

TranslationsFit == translations \in Seq(Translation) /\ publishing \subseteq Ids(translations)
ConflictsFit == conflicts \in Seq(Conflict) /\ recording \in [Recorders -> Values \cup {Nil}]
FormsFit ==
    \A f \in forms :
        /\ f.queue \in {"bios", "people", "translations", "reports", "conflicts"}
        /\ f.queue = "translations" => f.id \in Ids(translations)
        /\ f.queue = "conflicts" => f.id \in Ids(conflicts)
DeskBounds == TranslationsFit /\ ConflictsFit /\ FormsFit /\ steps \in 0..MaxSteps

LEMMA ChangedInPlace ==
  ASSUME NEW R, NEW s \in Seq(R), NEW S, NEW t, t = [i \in DOMAIN s |-> IF i \in S THEN t[i] ELSE s[i]],
         \A i \in DOMAIN s \cap S : t[i] \in R
  PROVE  t \in Seq(R) /\ DOMAIN t = DOMAIN s
<1>1. DOMAIN s = 1..Len(s) /\ Len(s) \in Nat /\ \A i \in DOMAIN s : s[i] \in R
  OBVIOUS
<1>2. \A i \in 1..Len(s) : t[i] \in R
  BY <1>1
<1>3. t = [i \in 1..Len(s) |-> t[i]]
  <2>1. DOMAIN t = 1..Len(s) /\ t = [i \in DOMAIN t |-> t[i]]
    BY <1>1
  <2> QED
    BY <2>1
<1>4. t \in [1..Len(s) -> R]
  BY <1>2, <1>3
<1> QED
  BY <1>1, <1>4

(* upsert, set_text, publish and discard change rows in place or append one. *)
LEMMA UpsertFits ==
  ASSUME TranslationsFit, NEW f \in Fields, NEW t \in Texts, NEW origin \in {"human", "machine"},
         NEW status \in {"draft", "published"}, Upsert(f, t, origin, status)
  PROVE  TranslationsFit' /\ Ids(translations) \subseteq Ids(translations')
<1> DEFINE new == [field |-> f, text |-> t, origin |-> origin, status |-> status, reviewed |-> FALSE]
<1>1. new \in Translation
  BY DEF Translation
<1>2. UNCHANGED publishing
  BY DEF Upsert
<1>3. CASE RowOf(f) = {}
  <2>1. translations' = Append(translations, new) /\ translations \in Seq(Translation)
    BY <1>3 DEF Upsert, TranslationsFit
  <2> HIDE DEF new
  <2> QED
    BY <1>1, <1>2, <2>1 DEF TranslationsFit, Ids
<1>4. CASE RowOf(f) # {}
  <2>1. translations' = [i \in Ids(translations) |-> IF i \in RowOf(f) THEN new ELSE translations[i]]
    BY <1>4 DEF Upsert, SetRows
  <2> HIDE DEF new
  <2>2. translations' = [i \in DOMAIN translations |-> IF i \in RowOf(f) THEN translations'[i]
                                                                        ELSE translations[i]]
    BY <2>1 DEF Ids
  <2>3. \A i \in DOMAIN translations \cap RowOf(f) : translations'[i] \in Translation
    BY <1>1, <2>1 DEF Ids
  <2>4. translations' \in Seq(Translation) /\ Ids(translations)' = Ids(translations)
    BY <2>2, <2>3, ChangedInPlace DEF TranslationsFit, Ids
  <2> QED
    BY <1>2, <2>4 DEF TranslationsFit
<1> QED
  BY <1>3, <1>4

LEMMA DecidedFits ==
  ASSUME TranslationsFit, NEW i \in Ids(translations),
         Discard(i) \/ Publish(i) \/ \E t \in Texts : SetText(i, t)
  PROVE  TranslationsFit' /\ Ids(translations)' = Ids(translations)
<1>1. \A r \in Translation :
        /\ [r EXCEPT !.status = "gone"] \in Translation
        /\ \A t \in Texts : [r EXCEPT !.text = t] \in Translation
        /\ [r EXCEPT !.status = "published", !.reviewed = TRUE] \in Translation
  BY DEF Translation
<1>2. \A k \in Ids(translations) : translations[k] \in Translation
  BY DEF TranslationsFit, Ids
<1>3. PICK S : \/ translations' = [k \in Ids(translations) |->
                      IF k \in S THEN [translations[k] EXCEPT !.status = "gone"] ELSE translations[k]]
               \/ \E t \in Texts : translations' = [k \in Ids(translations) |->
                      IF k \in S THEN [translations[k] EXCEPT !.text = t] ELSE translations[k]]
               \/ translations' = [k \in Ids(translations) |->
                      IF k \in S THEN [translations[k] EXCEPT !.status = "published", !.reviewed = TRUE]
                                 ELSE translations[k]]
  BY DEF Discard, SetText, Publish, SetRows
<1>4. ASSUME NEW k \in Ids(translations) \cap S
      PROVE  translations'[k] \in Translation
  <2>1. k \in Ids(translations) /\ k \in S /\ translations[k] \in Translation
    BY <1>2
  <2>2. \/ translations'[k] = [translations[k] EXCEPT !.status = "gone"]
        \/ \E t \in Texts : translations'[k] = [translations[k] EXCEPT !.text = t]
        \/ translations'[k] = [translations[k] EXCEPT !.status = "published", !.reviewed = TRUE]
    BY <1>3, <2>1
  <2> QED
    BY <1>1, <2>1, <2>2, Zenon
<1>5. translations' = [k \in DOMAIN translations |-> IF k \in S THEN translations'[k] ELSE translations[k]]
  BY <1>3 DEF Ids
<1>6. translations' \in Seq(Translation) /\ Ids(translations)' = Ids(translations)
  BY <1>4, <1>5, ChangedInPlace DEF TranslationsFit, Ids
<1>7. publishing' \subseteq publishing \cup {i}
  BY DEF Discard, SetText, Publish
<1> QED
  BY <1>6, <1>7 DEF TranslationsFit

(* Conflicts are appended, and resolved where they are.                      *)
LEMMA ConflictStepFits ==
  ASSUME ConflictsFit,
         \/ \E r \in Recorders, v \in Values : FindConflict(r, v)
         \/ \E r \in Recorders : InsertConflict(r)
         \/ \E f : ConflictResolve(f) /\ f.id \in Ids(conflicts)
  PROVE  ConflictsFit' /\ Ids(conflicts) \subseteq Ids(conflicts')
<1>1. CASE \E r \in Recorders, v \in Values : FindConflict(r, v)
  BY <1>1 DEF FindConflict, ConflictsFit, Ids
<1>2. ASSUME NEW r \in Recorders, InsertConflict(r)
      PROVE  ConflictsFit' /\ Ids(conflicts) \subseteq Ids(conflicts')
  <2> DEFINE row == [value |-> recording[r], open |-> TRUE]
  <2>1. row \in Conflict
    BY <1>2 DEF InsertConflict, ConflictsFit, Conflict
  <2>2. conflicts' = Append(conflicts, row) /\ recording' = [recording EXCEPT ![r] = Nil]
    BY <1>2 DEF InsertConflict
  <2> HIDE DEF row
  <2> QED
    BY <2>1, <2>2 DEF ConflictsFit, Ids
<1>3. ASSUME NEW f, ConflictResolve(f), f.id \in Ids(conflicts)
      PROVE  ConflictsFit' /\ Ids(conflicts) \subseteq Ids(conflicts')
  <2>1. conflicts' = [conflicts EXCEPT ![f.id].open = FALSE] /\ UNCHANGED recording
    BY <1>3 DEF ConflictResolve
  <2>2. conflicts[f.id] \in Conflict
    BY <1>3 DEF ConflictsFit, Ids
  <2>3. [conflicts[f.id] EXCEPT !.open = FALSE] \in Conflict
    BY <2>2 DEF Conflict
  <2> QED
    BY <1>3, <2>1, <2>3 DEF ConflictsFit, Ids
<1> QED
  BY <1>1, <1>2, <1>3

(* What a queue page names is there.                                         *)
LEMMA OpenedFits ==
  ASSUME FormsFit, NEW q \in {"bios", "people", "translations", "reports", "conflicts"}, OpenQueue(q)
  PROVE  FormsFit'
<1>1. \A f \in QueueForms(q) :
        /\ f.queue = q
        /\ q = "translations" => f.id \in Ids(translations)
        /\ q = "conflicts" => f.id \in Ids(conflicts)
  <2>1. CASE q = "translations"
    BY <2>1 DEF QueueForms, Drafts
  <2>2. CASE q = "conflicts"
    BY <2>2 DEF QueueForms, OpenConflicts
  <2>3. CASE q \in {"bios", "people", "reports"}
    BY <2>3 DEF QueueForms
  <2> QED
    BY <2>1, <2>2, <2>3
<1>2. forms' = forms \cup QueueForms(q) /\ UNCHANGED <<translations, conflicts>>
  BY DEF OpenQueue
<1> QED
  BY <1>1, <1>2 DEF FormsFit, Ids

LEMMA DeskBoundsStep ==
  ASSUME DeskBounds, [DeskNext]_deskVars
  PROVE  DeskBounds'
<1>1. steps' \in 0..MaxSteps
  BY StepsAssumption DEF DeskBounds, DeskNext, deskVars
<1> DEFINE Fit == TranslationsFit' /\ ConflictsFit' /\ FormsFit'
<1>2. ASSUME UNCHANGED <<translations, publishing, conflicts, recording, forms>>
      PROVE  Fit
  BY <1>2 DEF DeskBounds, TranslationsFit, ConflictsFit, FormsFit, Ids
<1>3. ASSUME TranslationsFit', Ids(translations) \subseteq Ids(translations'),
             UNCHANGED <<conflicts, recording, forms>>
      PROVE  Fit
  BY <1>3 DEF DeskBounds, ConflictsFit, FormsFit, Ids
<1>4. ASSUME ConflictsFit', Ids(conflicts) \subseteq Ids(conflicts'),
             UNCHANGED <<translations, publishing, forms>>
      PROVE  Fit
  BY <1>4 DEF DeskBounds, TranslationsFit, FormsFit, Ids
<1>5. ASSUME NEW q \in {"bios", "people", "translations", "reports", "conflicts"}, OpenQueue(q)
      PROVE  Fit
  <2>1. FormsFit'
    BY <1>5, OpenedFits DEF DeskBounds
  <2> QED
    BY <1>5, <2>1 DEF OpenQueue, DeskBounds, TranslationsFit, ConflictsFit, Ids
<1>6. ASSUME NEW x, NEW t, SetSummaryDraft(x, t)
      PROVE  Fit
  BY <1>2, <1>6 DEF SetSummaryDraft, OnlyBios
<1>7. ASSUME NEW S, NEW summary, Decide(S, summary)
      PROVE  Fit
  BY <1>2, <1>7 DEF Decide, OnlyBios
<1>8. ASSUME NEW f, NEW t, BioPublish(f, t) \/ BioDiscard(f) \/ BioPeople(f)
      PROVE  Fit
  BY <1>7, <1>8 DEF BioPublish, BioDiscard, BioPeople, PublishSummaryDraft, DiscardSummaryDraft,
                    PublishAllSummaryDrafts, DiscardAllSummaryDrafts
<1>9. ASSUME NEW i \in Ids(translations), Discard(i) \/ Publish(i) \/ \E t \in Texts : SetText(i, t)
      PROVE  Fit
  <2>1. TranslationsFit' /\ Ids(translations)' = Ids(translations)
    BY <1>9, DecidedFits DEF DeskBounds
  <2> QED
    BY <1>3, <1>9, <2>1 DEF Discard, SetText, Publish, OnlyTranslations, Ids
<1>10. ASSUME NEW f \in forms, NEW t \in Texts \cup {Nil}, TranslationPublish(f, t)
       PROVE  Fit
  <2>1. f.id \in Ids(translations)
    BY <1>10 DEF TranslationPublish, DeskBounds, FormsFit
  <2>2. Discard(f.id) \/ \E s \in Texts : SetText(f.id, s)
    BY <1>10 DEF TranslationPublish
  <2> QED
    BY <1>9, <2>1, <2>2
<1>11. ASSUME NEW f \in forms, TranslationDiscard(f)
       PROVE  Fit
  <2>1. f.id \in Ids(translations) /\ Discard(f.id)
    BY <1>11 DEF TranslationDiscard, DeskBounds, FormsFit
  <2> QED
    BY <1>9, <2>1
<1>12. ASSUME NEW i \in publishing, Publish(i)
       PROVE  Fit
  <2>1. i \in Ids(translations)
    BY DEF DeskBounds, TranslationsFit
  <2> QED
    BY <1>9, <1>12, <2>1
<1>13. ASSUME NEW f \in Fields, NEW t \in Texts, NEW origin \in {"human", "machine"},
              NEW status \in {"draft", "published"}, Upsert(f, t, origin, status)
       PROVE  Fit
  BY <1>3, <1>13, UpsertFits DEF DeskBounds, Upsert, OnlyTranslations
<1>14. ASSUME NEW r, CreateReport(r)
       PROVE  Fit
  BY <1>2, <1>14 DEF CreateReport, OnlyReports
<1>15. ASSUME NEW f, NEW status, NEW note, CorrectionClose(f, status, note)
       PROVE  Fit
  BY <1>2, <1>15 DEF CorrectionClose, Close, OnlyReports
<1>16. ASSUME \/ \E r \in Recorders, v \in Values : FindConflict(r, v)
              \/ \E r \in Recorders : InsertConflict(r)
              \/ \E f \in forms : ConflictResolve(f)
       PROVE  Fit
  <2>1. \A f \in forms : ConflictResolve(f) => f.id \in Ids(conflicts)
    BY DEF ConflictResolve, DeskBounds, FormsFit
  <2>2. ConflictsFit' /\ Ids(conflicts) \subseteq Ids(conflicts')
    BY <1>16, <2>1, ConflictStepFits DEF DeskBounds
  <2>3. UNCHANGED <<translations, publishing, forms>>
    BY <1>16 DEF FindConflict, InsertConflict, ConflictResolve, OnlyConflicts
  <2> QED
    BY <1>4, <2>2, <2>3
<1>17. ASSUME UNCHANGED deskVars
       PROVE  Fit
  <2>1. UNCHANGED <<translations, publishing, conflicts, recording, forms>>
    BY <1>17 DEF deskVars, desk
  <2> QED
    BY <1>2, <2>1
<1>18. Fit
  <2> HIDE DEF Fit
  <2>1. CASE DeskNext
    BY <1>5, <1>6, <1>8, <1>10, <1>11, <1>12, <1>13, <1>14, <1>15, <1>16, <2>1 DEF DeskNext
  <2> QED
    BY <1>17, <2>1
<1> QED
  BY <1>1, <1>18 DEF DeskBounds

LEMMA DeskTyped == DeskSpec => []DeskTypeOK
<1>1. DeskInit => DeskBounds
  BY StepsAssumption DEF DeskInit, DeskBounds, TranslationsFit, ConflictsFit, FormsFit, Ids
<1>2. DeskInit => BiosInv /\ ReportsInv
  BY DEF DeskInit, BiosInv, Waiting, ReportsInv, Ids
<1>3. ASSUME BiosInv, ReportsInv, DeskBounds
      PROVE  DeskTypeOK
  <2>1. \A i \in Ids(reports) :
          /\ reports[i].about \in Reports /\ reports[i].note \in 0..NoteLimit
          /\ reports[i].status \in {"open", "resolved", "rejected"}
    <3>1. \A i \in Ids(reports) : reports[i] \in Report
      BY <1>3 DEF ReportsInv, Ids
    <3> QED
      BY <3>1 DEF Report
  <2>2. bios \in [Subjects -> [draft : Texts \cup {Nil}, summary : Texts \cup {Nil}]]
    BY <1>3 DEF BiosInv
  <2>3. /\ translations \in Seq(Translation) /\ publishing \subseteq Ids(translations)
        /\ conflicts \in Seq(Conflict) /\ recording \in [Recorders -> Values \cup {Nil}]
        /\ \A f \in forms : f.queue \in {"bios", "people", "translations", "reports", "conflicts"}
        /\ steps \in 0..MaxSteps
    BY <1>3 DEF DeskBounds, TranslationsFit, ConflictsFit, FormsFit
  <2> QED
    BY <2>1, <2>2, <2>3, Zenon DEF DeskTypeOK, Translation, Conflict
<1>4. BiosInv /\ [DeskNext]_deskVars => BiosInv'
  BY BiosStep
<1>5. ReportsInv /\ [DeskNext]_deskVars => ReportsInv'
  BY ReportsStep DEF RowsMove
<1>6. DeskBounds /\ [DeskNext]_deskVars => DeskBounds'
  BY DeskBoundsStep
<1> QED
  BY <1>1, <1>2, <1>3, <1>4, <1>5, <1>6, PTL DEF DeskSpec

-----------------------------------------------------------------------------
(* Dump: DumpReconciles for every set of polls, options and accounts,        *)
(* whatever is issued, cast and banned between the statements of a dump.     *)

(* What one statement read of a poll: as many ballots as were spent, no more *)
(* than were issued, and a share that is a percentage or none.               *)
Tally == [votes : [Options -> Nat], issued : Nat, spent : Nat, head : Nat,
          share : (0..100) \cup {NoShare}]

Votes(ballots, n, o) == Cardinality({k \in 1..n : o \in ballots[k]})

(* A poll's tallies agree with a chain that has grown since.                 *)
Agrees(poll, ballots) ==
    /\ poll.head <= Len(ballots)
    /\ \A o \in Options : Votes(ballots, poll.head, o) = poll.votes[o]
    /\ poll.spent = poll.head /\ poll.spent <= poll.issued

BoxInv ==
    /\ box \in [Polls -> Seq(SUBSET Options)]
    /\ issued \in [Polls -> SUBSET Accounts]
    /\ \A p \in Polls : IsFiniteSet(issued[p]) /\ Len(box[p]) <= Cardinality(issued[p])

Tallied(tallies, chains) ==
    /\ tallies \in [Polls -> Tally]
    /\ chains \in [Polls -> Seq(SUBSET Options)]
    /\ \A p \in Polls : Agrees(tallies[p], chains[p])

(* Until the ballots are read, what was tallied agrees with the chains that  *)
(* go on growing, and from then on with the copy that was read.              *)
DumpInv ==
    /\ BoxInv
    /\ reading.at = "tallies" => Tallied(reading.polls, box)
    /\ reading.at = "ballots" => Tallied(reading.polls, reading.ballots)
    /\ dump # NotRead => Tallied(dump.polls, dump.ballots)

------------------------------------------------------------------------------
(* The share of new accounts.                                                *)
LEMMA PctBounded ==
  ASSUME NEW total \in Nat \ {0}, NEW new \in 0..total
  PROVE  (new * 100 + total \div 2) \div total \in 0..100
<1> DEFINE half == total \div 2
           sum == new * 100 + half
           pct == sum \div total
<1>1. half \in Nat /\ 2 * half <= total
  OBVIOUS
<1>2. sum \in Nat /\ sum < total * 101
  BY <1>1
<1>3. pct \in Nat /\ total * pct <= sum
  BY <1>2
<1>4. ASSUME pct >= 101 PROVE FALSE
  BY <1>2, <1>3, <1>4
<1> QED
  BY <1>3, <1>4

LEMMA ShareBounded ==
  ASSUME NEW S, IsFiniteSet(S)
  PROVE  CohortPct(Cardinality(S), Cardinality(S \cap Fresh)) \in (0..100) \cup {NoShare}
<1>1. Cardinality(S) \in Nat
  BY FS_CardinalityType
<1>2. IsFiniteSet(S \cap Fresh) /\ Cardinality(S \cap Fresh) <= Cardinality(S)
  BY FS_Subset
<1>3. Cardinality(S \cap Fresh) \in 0..Cardinality(S)
  BY <1>1, <1>2, FS_CardinalityType
<1>4. Cardinality(S) >= MinParticipants => Cardinality(S) \in Nat \ {0}
  BY <1>1, DumpAssumption
<1> QED
  BY <1>3, <1>4, PctBounded DEF CohortPct

(* The votes of an option are those of its ballots.                          *)
LEMMA VotesType ==
  ASSUME NEW ballots, NEW n \in Nat, NEW o
  PROVE  Votes(ballots, n, o) \in Nat
<1>1. IsFiniteSet(1..n)
  BY FS_Interval
<1>2. IsFiniteSet({k \in 1..n : o \in ballots[k]})
  BY <1>1, FS_Subset
<1> QED
  BY <1>2, FS_CardinalityType DEF Votes

(* A tally agrees with a chain that one more ballot was appended to.         *)
LEMMA AgreesAppended ==
  ASSUME NEW poll \in Tally, NEW chain \in Seq(SUBSET Options), NEW choice \in SUBSET Options,
         Agrees(poll, chain)
  PROVE  Agrees(poll, Append(chain, choice))
<1>1. Len(Append(chain, choice)) = Len(chain) + 1 /\ Len(chain) \in Nat /\ poll.head \in Nat
  BY DEF Tally
<1>2. \A k \in 1..poll.head : Append(chain, choice)[k] = chain[k]
  BY <1>1 DEF Agrees
<1>3. \A o \in Options : Votes(Append(chain, choice), poll.head, o) = Votes(chain, poll.head, o)
  BY <1>2 DEF Votes
<1> QED
  BY <1>1, <1>3 DEF Agrees

LEMMA TalliedNow ==
  ASSUME BoxInv
  PROVE  Tallied(BallotTallies, box)
<1> SUFFICES ASSUME NEW p \in Polls
             PROVE  BallotTallies[p] \in Tally /\ Agrees(BallotTallies[p], box[p])
  BY DEF Tallied, BallotTallies, BoxInv
<1>1. box[p] \in Seq(SUBSET Options) /\ DOMAIN box[p] = 1..Len(box[p]) /\ Len(box[p]) \in Nat
  BY DEF BoxInv
<1>2. IsFiniteSet(issued[p]) /\ Len(box[p]) <= Cardinality(issued[p])
        /\ Cardinality(issued[p]) \in Nat
  BY FS_CardinalityType DEF BoxInv
<1>3. BallotTallies[p] =
        [votes |-> [o \in Options |-> Votes(box[p], Len(box[p]), o)],
         issued |-> Cardinality(issued[p]), spent |-> Len(box[p]), head |-> Len(box[p]),
         share |-> CohortPct(Cardinality(issued[p]), Cardinality(issued[p] \cap Fresh))]
  BY <1>1 DEF BallotTallies, Votes
<1>4. [o \in Options |-> Votes(box[p], Len(box[p]), o)] \in [Options -> Nat]
  BY <1>1, VotesType
<1>5. CohortPct(Cardinality(issued[p]), Cardinality(issued[p] \cap Fresh)) \in (0..100) \cup {NoShare}
  BY <1>2, ShareBounded
<1>6. BallotTallies[p] \in Tally
  BY <1>1, <1>2, <1>3, <1>4, <1>5 DEF Tally
<1>7. Agrees(BallotTallies[p], box[p])
  BY <1>1, <1>2, <1>3 DEF Agrees
<1> QED
  BY <1>6, <1>7

------------------------------------------------------------------------------
(* What goes on beside the dump.                                             *)
LEMMA IssueKeeps ==
  ASSUME BoxInv, NEW p \in Polls, NEW a \in Accounts, Issue(p, a)
  PROVE  BoxInv'
<1>1. IsFiniteSet(issued[p]) /\ issued[p] \in SUBSET Accounts
  BY DEF BoxInv
<1>2. IsFiniteSet(issued[p] \cup {a}) /\ Cardinality(issued[p] \cup {a}) = Cardinality(issued[p]) + 1
  BY <1>1, FS_AddElement DEF Issue
<1>3. Len(box[p]) \in Nat /\ Cardinality(issued[p]) \in Nat
  BY <1>1, FS_CardinalityType DEF BoxInv
<1>4. issued'[p] = issued[p] \cup {a} /\ \A q \in Polls : q # p => issued'[q] = issued[q]
  BY DEF Issue, BoxInv
<1> QED
  BY <1>1, <1>2, <1>3, <1>4 DEF BoxInv, Issue

LEMMA CastKeeps ==
  ASSUME BoxInv, NEW p \in Polls, NEW choice \in SUBSET Options, Cast(p, choice)
  PROVE  /\ BoxInv' /\ \A q \in Polls : box'[q] = IF q = p THEN Append(box[p], choice) ELSE box[q]
<1>1. box[p] \in Seq(SUBSET Options) /\ Len(box[p]) \in Nat
  BY DEF BoxInv
<1>2. \A q \in Polls : box'[q] = IF q = p THEN Append(box[p], choice) ELSE box[q]
  BY DEF Cast, BoxInv
<1>3. Append(box[p], choice) \in Seq(SUBSET Options) /\ Len(Append(box[p], choice)) = Len(box[p]) + 1
  BY <1>1
<1>4. Cardinality(issued[p]) \in Nat
  BY FS_CardinalityType DEF BoxInv
<1>5. \A q \in Polls : box'[q] \in Seq(SUBSET Options) /\ Len(box'[q]) <= Cardinality(issued[q])
  BY <1>1, <1>2, <1>3, <1>4 DEF BoxInv, Cast
<1>6. box' \in [Polls -> Seq(SUBSET Options)]
  BY <1>5 DEF Cast, BoxInv
<1> QED
  BY <1>2, <1>5, <1>6 DEF BoxInv, Cast

LEMMA TalliedCast ==
  ASSUME BoxInv, NEW tallies, Tallied(tallies, box),
         NEW p \in Polls, NEW choice \in SUBSET Options, Cast(p, choice)
  PROVE  Tallied(tallies, box')
<1>1. \A q \in Polls : box'[q] = IF q = p THEN Append(box[p], choice) ELSE box[q]
  BY CastKeeps
<1>2. Agrees(tallies[p], Append(box[p], choice))
  BY AgreesAppended DEF Tallied, BoxInv
<1>3. box' \in [Polls -> Seq(SUBSET Options)]
  BY CastKeeps DEF BoxInv
<1> QED
  BY <1>1, <1>2, <1>3 DEF Tallied

LEMMA DumpStep ==
  ASSUME DumpInv, [DumpNext]_dumpVars
  PROVE  DumpInv'
<1>1. ASSUME NEW p \in Polls, NEW a \in Accounts, Issue(p, a)
      PROVE  DumpInv'
  <2>1. BoxInv'
    BY <1>1, IssueKeeps DEF DumpInv
  <2> QED
    BY <1>1, <2>1 DEF DumpInv, Issue
<1>2. ASSUME NEW p \in Polls, NEW choice \in SUBSET Options \ {{}}, Cast(p, choice)
      PROVE  DumpInv'
  <2>1. BoxInv'
    BY <1>2, CastKeeps DEF DumpInv
  <2>2. reading.at = "tallies" => Tallied(reading.polls, box')
    BY <1>2, TalliedCast DEF DumpInv
  <2> QED
    BY <1>2, <2>1, <2>2 DEF DumpInv, Cast
<1>3. ASSUME NEW a \in Accounts, Ban(a)
      PROVE  DumpInv'
  BY <1>3 DEF DumpInv, Ban, BoxInv
<1>4. CASE ReadTallies
  <2>1. reading' = [at |-> "tallies", polls |-> BallotTallies] /\ Tallied(BallotTallies, box)
    BY <1>4, TalliedNow DEF ReadTallies, DumpInv
  <2>2. BoxInv'
    BY <1>4 DEF ReadTallies, DumpInv, BoxInv
  <2> QED
    BY <1>4, <2>1, <2>2 DEF ReadTallies, DumpInv
<1>5. CASE ReadBallots
  <2>1. BoxInv'
    BY <1>5 DEF ReadBallots, DumpInv, BoxInv
  <2>2. reading' = [at |-> "ballots", polls |-> reading.polls, ballots |-> box]
    BY <1>5 DEF ReadBallots, AnonBallots
  <2> QED
    BY <1>5, <2>1, <2>2 DEF ReadBallots, DumpInv
<1>6. CASE ServeDump
  <2>1. BoxInv'
    BY <1>6 DEF ServeDump, DumpInv, BoxInv
  <2>2. reading'.at = "nothing" /\ dump'.polls = reading.polls /\ dump'.ballots = reading.ballots
    BY <1>6 DEF ServeDump, NotRead
  <2> QED
    BY <1>6, <2>1, <2>2 DEF ServeDump, DumpInv
<1>7. CASE UNCHANGED dumpVars
  BY <1>7 DEF dumpVars, DumpInv, BoxInv
<1> QED
  BY <1>1, <1>2, <1>3, <1>4, <1>5, <1>6, <1>7 DEF DumpNext

(* polls reads its tallies before its ballots and both in chain order: what  *)
(* a document counts can be recounted from it, whatever went on between.     *)
THEOREM DumpReconcilesAlways == DumpSpec => []DumpReconciles
<1>1. DumpInit => DumpInv
  BY FS_EmptySet DEF DumpInit, DumpInv, BoxInv, NotRead
<1>2. DumpInv /\ [DumpNext]_dumpVars => DumpInv'
  BY DumpStep
<1>3. DumpInv => DumpReconciles
  BY DEF DumpInv, DumpReconciles, Tallied, Agrees, Tally, Counted, Votes
<1> QED
  BY <1>1, <1>2, <1>3, PTL DEF DumpSpec

(* Dump keeps to its types: who may vote are as many as the accounts at most. *)
LEMMA DumpTyped == DumpSpec => []DumpTypeOK
<1> USE DEF NotRead, DumpTypeOK
<1>1. DumpInit => DumpInv /\ DumpTypeOK
  BY DumpAssumption, FS_EmptySet DEF DumpInit, DumpInv, BoxInv
<1>2. EligibleVoters <= Cardinality(Accounts)
  <2>1. IsFiniteSet(Accounts) /\ Accounts \ banned \subseteq Accounts
    BY DumpAssumption
  <2> QED
    BY <2>1, FS_Subset DEF EligibleVoters
<1>3. ASSUME DumpInv', DumpTypeOK, [DumpNext]_dumpVars
      PROVE  DumpTypeOK'
  <2>1. box' \in [Polls -> Seq(SUBSET Options)] /\ issued' \in [Polls -> SUBSET Accounts]
    BY <1>3 DEF DumpInv, BoxInv
  <2>2. banned' \subseteq Accounts
    BY <1>3 DEF DumpNext, Issue, Cast, Ban, ReadTallies, ReadBallots, ServeDump, dumpVars
  <2>3. reading'.at \in {"nothing", "tallies", "ballots"}
    BY <1>3 DEF DumpNext, Issue, Cast, Ban, ReadTallies, ReadBallots, ServeDump, dumpVars
  <2>4. dump' = NotRead \/ dump'.eligible <= Cardinality(Accounts)
    <3>1. dump' = dump \/ dump'.eligible = EligibleVoters
      BY <1>3 DEF DumpNext, Issue, Cast, Ban, ReadTallies, ReadBallots, ServeDump, dumpVars
    <3> QED
      BY <1>2, <1>3, <3>1
  <2>5. asked' \in 0..MaxDumps
    <3>1. asked' = asked \/ (asked < MaxDumps /\ asked' = asked + 1)
      BY <1>3 DEF DumpNext, Issue, Cast, Ban, ReadTallies, ReadBallots, ServeDump, dumpVars
    <3> QED
      BY <1>3, <3>1, DumpAssumption
  <2> QED
    BY <2>1, <2>2, <2>3, <2>4, <2>5
<1>4. DumpInv /\ [DumpNext]_dumpVars => DumpInv'
  BY DumpStep
<1> QED
  BY <1>1, <1>3, <1>4, PTL DEF DumpSpec

-----------------------------------------------------------------------------
(* Import: Reconstructed and TwiceTheSame hold for any versions of the       *)
(* dataset, however many loads run, fail and are broken off.                 *)

LEMMA Least ==
  ASSUME NEW S, S \subseteq Nat, S # {}
  PROVE  \E k \in S : \A m \in S : k <= m
<1>1. PICK k \in S : \A m \in S : ~(<<m, k>> \in OpToRel(<, Nat))
  BY NatLessThanWellFounded, WFMin, Zenon
<1>2. \A m \in S : ~(m < k)
  BY <1>1 DEF OpToRel
<1> QED
  BY <1>2

(* Each file is read once.                                                   *)
LEMMA OrderFacts ==
  /\ Len(Order) \in Nat /\ DOMAIN Order = 1 .. Len(Order)
  /\ \A i, j \in DOMAIN Order : Order[i][1] = Order[j][1] => i = j
<1>1. Len(Order) = 30 /\ DOMAIN Order = 1 .. 30
  BY DEF Order
<1>2. \A i \in 1 .. 10, j \in 1 .. 30 : Order[i][1] = Order[j][1] => i = j
  BY SMTT(60) DEF Order
<1>3. \A i \in 11 .. 20, j \in 11 .. 30 : Order[i][1] = Order[j][1] => i = j
  BY SMTT(60) DEF Order
<1>4. \A i \in 21 .. 30, j \in 21 .. 30 : Order[i][1] = Order[j][1] => i = j
  BY SMTT(60) DEF Order
<1>5. ASSUME NEW i \in 1 .. 30, NEW j \in 1 .. 30, Order[i][1] = Order[j][1]
      PROVE  i = j
  <2>1. CASE i \in 1 .. 10
    BY <1>2, <1>5, <2>1
  <2>2. CASE j \in 1 .. 10
    BY <1>2, <1>5, <2>2
  <2>3. CASE i \in 11 .. 20 /\ j \in 11 .. 30
    BY <1>3, <1>5, <2>3
  <2>4. CASE j \in 11 .. 20 /\ i \in 11 .. 30
    BY <1>3, <1>5, <2>4
  <2>5. CASE i \in 21 .. 30 /\ j \in 21 .. 30
    BY <1>4, <1>5, <2>5
  <2> QED
    BY <2>1, <2>2, <2>3, <2>4, <2>5
<1>6. ASSUME NEW i \in DOMAIN Order, NEW j \in DOMAIN Order, Order[i][1] = Order[j][1]
      PROVE  i = j
  BY <1>1, <1>5, <1>6
<1>7. Len(Order) \in Nat /\ DOMAIN Order = 1 .. Len(Order)
  BY <1>1
<1> QED
  BY <1>6, <1>7

DatasetRows == UNION {Datasets[v] : v \in Versions}
Loading == [at: {"load"}, of: Versions, file: 1 .. Len(Order) + 1, left: SUBSET DatasetRows,
            seen: SUBSET {FileOf(x) : x \in DatasetRows}]
IsRow(row) ==
    \E main, rest, source, names :
        row = [main |-> main, rest |-> rest, source |-> source, names |-> names, copies |-> 1]
RowsFit == rows = [k \in DOMAIN rows |-> rows[k]] /\ \A k \in DOMAIN rows : IsRow(rows[k])
LoadFits ==
    /\ load = Idle \/ (load \in Loading /\ load.left \subseteq RowsIn(load.of, load.file)
                       /\ load.of \in started)
    /\ started \subseteq Versions /\ last \in Versions \cup {Nowhere}

(* What a load has read, of a version; and what a row of it may name.        *)
HasRead(l) ==
    {x \in Datasets[l.of] : \E j \in DOMAIN Order :
        Order[j][1] = x.file /\ (j < l.file \/ (j = l.file /\ x \notin l.left))}
Known(v, r) == {n \in r.names : \E x \in Datasets[v] : FileOf(x) = n}

(* The database has the row, and loading it again would not change it.       *)
SettledAt(v, r, t) ==
    /\ KeyOf(r, t) \in DOMAIN rows
    /\ Merge(rows[KeyOf(r, t)], r, Known(v, r), t) = rows[KeyOf(r, t)]
Settled(v, r) == \A i \in DOMAIN Order : Order[i][1] = r.file => SettledAt(v, r, Order[i][2].takes)

LoadKnows ==
    load # Idle =>
        /\ \A x \in HasRead(load) : \A j \in DOMAIN Order :
              Order[j][1] = x.file /\ Keyed(j) => FileOf(x) \in load.seen
        /\ \A n \in load.seen : \E x \in Datasets[load.of] : FileOf(x) = n
        /\ \A x \in HasRead(load) : Settled(load.of, x)
LastStands ==
    last # Nowhere =>
        /\ load # Idle => load.of = last
        /\ \A x \in Datasets[last] : Settled(last, x)

(* Loads of one version leave its rows as they are in the files.             *)
ComesFrom(v, k) ==
    \E r \in Datasets[v], i \in DOMAIN Order :
        /\ Order[i][1] = r.file /\ k = KeyOf(r, Order[i][2].takes)
        /\ rows[k] = NewRow(r, Known(v, r))
Unmixed == \A v \in Versions : started \subseteq {v} => \A k \in DOMAIN rows : ComesFrom(v, k)

ImportInv == RowsFit /\ LoadFits /\ LoadKnows /\ LastStands /\ Unmixed

LEMMA KeysDiffer ==
  ASSUME NEW v \in Versions, NEW r \in Datasets[v], NEW x \in Datasets[v], NEW t, NEW u,
         KeyOf(r, t) = KeyOf(x, u)
  PROVE  r = x
<1>1. \A y, w : KeyOf(y, w)[1] = y.file /\ KeyOf(y, w)[2] = y.key
  BY DEF KeyOf, FileOf
<1>2. r.file = x.file /\ r.key = x.key
  BY <1>1
<1>3. FileOf(r) = FileOf(x)
  BY <1>2 DEF FileOf
<1> QED
  BY <1>3, ImportAssumption

AsRow(m, e, s, n) == [main |-> m, rest |-> e, source |-> s, names |-> n, copies |-> 1]

LEMMA MergedRow ==
  ASSUME NEW m, NEW e, NEW s, NEW n, NEW r, NEW names, NEW t
  PROVE  Merge(AsRow(m, e, s, n), r, names, t) = IF t = "all" THEN AsRow(r.main, r.rest, s, names)
                                               ELSE IF t = "fields" THEN AsRow(r.main, r.rest, s, n)
                                               ELSE IF t = "some" THEN AsRow(r.main, e, s, n)
                                               ELSE IF t = "cited" THEN AsRow(r.main, e, r.source, n)
                                               ELSE AsRow(m, e, s, n)
<1> DEFINE old == AsRow(m, e, s, n)
           Only(x, y, w, z) == [main: {x}, rest: {y}, source: {w}, names: {z}, copies: {1}]
<1>1. old \in Only(m, e, s, n)
  BY DEF AsRow
<1>2. \A x, y, w, z : \A row \in Only(x, y, w, z) : row = AsRow(x, y, w, z)
  BY DEF AsRow
<1> HIDE DEF old
<1>3. CASE t = "all"
  <2>1. Merge(old, r, names, t) \in Only(r.main, r.rest, s, names)
    BY <1>1, <1>3 DEF Merge
  <2> QED
    BY <1>2, <1>3, <2>1 DEF old
<1>4. CASE t = "fields"
  <2>1. Merge(old, r, names, t) \in Only(r.main, r.rest, s, n)
    BY <1>1, <1>4 DEF Merge
  <2> QED
    BY <1>2, <1>4, <2>1 DEF old
<1>5. CASE t = "some"
  <2>1. Merge(old, r, names, t) \in Only(r.main, e, s, n)
    BY <1>1, <1>5 DEF Merge
  <2> QED
    BY <1>2, <1>5, <2>1 DEF old
<1>6. CASE t = "cited"
  <2>1. Merge(old, r, names, t) \in Only(r.main, e, r.source, n)
    BY <1>1, <1>6 DEF Merge
  <2> QED
    BY <1>2, <1>6, <2>1 DEF old
<1>7. CASE t \notin {"all", "fields", "some", "cited"}
  BY <1>7 DEF Merge, old
<1> QED
  BY <1>3, <1>4, <1>5, <1>6, <1>7 DEF old

(* A row merged twice is merged once, and a new one needs no merging.        *)
LEMMA MergeFacts ==
  ASSUME NEW r, NEW names, NEW t
  PROVE  /\ \A old : IsRow(old) =>
                /\ IsRow(Merge(old, r, names, t))
                /\ Merge(Merge(old, r, names, t), r, names, t) = Merge(old, r, names, t)
         /\ IsRow(NewRow(r, names)) /\ Merge(NewRow(r, names), r, names, t) = NewRow(r, names)
<1>1. ASSUME NEW old, IsRow(old)
      PROVE  /\ IsRow(Merge(old, r, names, t))
             /\ Merge(Merge(old, r, names, t), r, names, t) = Merge(old, r, names, t)
  <2>1. PICK m, e, s, n : old = AsRow(m, e, s, n)
    BY <1>1 DEF IsRow, AsRow
  <2>2. \A x, y, z, w : IsRow(AsRow(x, y, z, w))
    BY DEF IsRow, AsRow
  <2> QED
    BY <2>1, <2>2, MergedRow
<1>2. NewRow(r, names) = AsRow(r.main, r.rest, r.source, names) /\ IsRow(NewRow(r, names))
  BY DEF NewRow, AsRow, IsRow
<1>3. Merge(NewRow(r, names), r, names, t) = NewRow(r, names)
  BY <1>2, MergedRow
<1> QED
  BY <1>1, <1>2, <1>3

LEMMA StoredFacts ==
  ASSUME RowsFit, NEW r, NEW rule, rows' = Stored(r, rule),
         NEW k, k = KeyOf(r, rule.takes), NEW names, names = r.names \cap load.seen
  PROVE  /\ RowsFit'
         /\ DOMAIN rows' = DOMAIN rows \cup {k}
         /\ \A x \in DOMAIN rows : x # k => rows'[x] = rows[x]
         /\ rows'[k] = IF k \in DOMAIN rows THEN Merge(rows[k], r, names, rule.takes)
                                            ELSE NewRow(r, names)
         /\ Merge(rows'[k], r, names, rule.takes) = rows'[k]
         /\ k \in DOMAIN rows /\ Merge(rows[k], r, names, rule.takes) = rows[k] => rows' = rows
<1> DEFINE row == IF k \in DOMAIN rows THEN Merge(rows[k], r, names, rule.takes)
                                         ELSE NewRow(r, names)
<1>1. IsRow(row) /\ Merge(row, r, names, rule.takes) = row
  <2>1. CASE k \in DOMAIN rows
    BY <2>1, MergeFacts DEF RowsFit
  <2>2. CASE k \notin DOMAIN rows
    BY <2>2, MergeFacts
  <2> QED
    BY <2>1, <2>2
<1>2. rows = [x \in DOMAIN rows |-> rows[x]]
  BY DEF RowsFit
<1>3. rows' = IF k \in DOMAIN rows THEN [rows EXCEPT ![k] = row]
              ELSE [x \in DOMAIN rows \cup {k} |-> IF x = k THEN row ELSE rows[x]]
  BY DEF Stored
<1>4. rows' = [x \in DOMAIN rows \cup {k} |-> IF x = k THEN row ELSE rows[x]]
  <2>1. CASE k \in DOMAIN rows
    <3>1. rows' = [rows EXCEPT ![k] = row] /\ DOMAIN rows \cup {k} = DOMAIN rows
      BY <1>3, <2>1
    <3> HIDE DEF row
    <3> QED
      BY <1>2, <3>1
  <2>2. CASE k \notin DOMAIN rows
    BY <1>3, <2>2
  <2> QED
    BY <2>1, <2>2
<1>5. row = IF k \in DOMAIN rows THEN Merge(rows[k], r, names, rule.takes) ELSE NewRow(r, names)
  OBVIOUS
<1> HIDE DEF row
<1>6. /\ DOMAIN rows' = DOMAIN rows \cup {k} /\ rows'[k] = row
      /\ \A x \in DOMAIN rows : x # k => rows'[x] = rows[x]
  BY <1>4
<1>7. RowsFit'
  BY <1>1, <1>4, <1>6 DEF RowsFit
<1>8. ASSUME k \in DOMAIN rows, row = rows[k] PROVE rows' = rows
  BY <1>2, <1>4, <1>8
<1> QED
  BY <1>1, <1>5, <1>6, <1>7, <1>8

LEMMA FileAfterFacts ==
  ASSUME NEW v, NEW i \in 0 .. Len(Order), NEW k, k = FileAfter(v, i)
  PROVE  /\ k \in i + 1 .. Len(Order) + 1
         /\ \A j \in i + 1 .. Len(Order) : j < k => RowsIn(v, j) = {}
<1> DEFINE after == {j \in i + 1 .. Len(Order) : RowsIn(v, j) # {}}
<1>1. Len(Order) \in Nat
  BY OrderFacts
<1>2. CASE after = {}
  <2>1. k = Len(Order) + 1
    BY <1>2 DEF FileAfter
  <2> QED
    BY <1>1, <1>2, <2>1
<1>3. CASE after # {}
  <2>1. after \subseteq Nat
    BY <1>1
  <2>2. \E j \in after : \A m \in after : j <= m
    BY <1>3, <2>1, Least
  <2>3. k = CHOOSE j \in after : \A m \in after : j <= m
    BY <1>3 DEF FileAfter
  <2>4. k \in after /\ \A m \in after : k <= m
    BY <2>2, <2>3
  <2> QED
    BY <1>1, <2>4
<1> QED
  BY <1>2, <1>3

(* What a load has under way.                                                *)
LEMMA LoadFacts ==
  ASSUME ImportInv, load # Idle
  PROVE  /\ load \in Loading /\ load.left \subseteq RowsIn(load.of, load.file)
         /\ load.of \in Versions /\ load.of \in started /\ load.file \in 1 .. Len(Order) + 1
         /\ load.left # {} => load.file \in DOMAIN Order
BY OrderFacts DEF ImportInv, LoadFits, Loading, RowsIn

(* A row that is about to be loaded finds every row that it names and that   *)
(* the dataset has: those were read before, in whatever order.               *)
LEMMA NamesFound ==
  ASSUME ImportInv, load # Idle, NEW r \in load.left
  PROVE  r.names \cap load.seen = Known(load.of, r)
<1>1. /\ load.of \in Versions /\ r \in Datasets[load.of] /\ load.file \in DOMAIN Order
      /\ r.file = Order[load.file][1]
  BY LoadFacts DEF RowsIn
<1>2. ASSUME NEW n \in r.names, NEW x \in Datasets[load.of], FileOf(x) = n
      PROVE  n \in load.seen
  <2>1. NamedBefore(n[1], r.file) /\ n[1] = x.file
    BY <1>1, <1>2, ImportAssumption DEF FileOf
  <2>2. PICK j \in 1 .. load.file - 1 : Order[j][1] = x.file /\ Keyed(j)
    BY <1>1, <2>1 DEF NamedBefore
  <2>3. j \in DOMAIN Order /\ j < load.file
    BY <1>1, OrderFacts
  <2>4. x \in HasRead(load)
    BY <2>2, <2>3 DEF HasRead
  <2> QED
    BY <1>2, <2>2, <2>3, <2>4 DEF ImportInv, LoadKnows
<1>3. \A n \in load.seen : \E x \in Datasets[load.of] : FileOf(x) = n
  BY DEF ImportInv, LoadKnows
<1> QED
  BY <1>2, <1>3 DEF Known

LEMMA LoadRowStep ==
  ASSUME ImportInv, NEW r, LoadRow(r)
  PROVE  ImportInv' /\ (last = load.of => rows' = rows)
<1>1. PICK v, f, t : v = load.of /\ f = load.file /\ t = Order[load.file][2].takes
  OBVIOUS
<1> DEFINE k == KeyOf(r, t)
           names == r.names \cap load.seen
<1>2. /\ load # Idle /\ r \in load.left /\ load \in Loading /\ v \in Versions /\ v \in started
      /\ r \in Datasets[v] /\ f \in DOMAIN Order /\ r.file = Order[f][1] /\ t = Order[f][2].takes
  BY <1>1, LoadFacts DEF LoadRow, RowsIn
<1>3. names = Known(v, r)
  BY <1>1, <1>2, NamesFound
<1>4. /\ rows' = Stored(r, Order[f][2])
      /\ load' = [load EXCEPT !.left = @ \ {r},
                              !.seen = IF Keyed(load.file) THEN @ \cup {FileOf(r)} ELSE @]
      /\ UNCHANGED <<last, started, loads>>
  BY <1>1 DEF LoadRow
<1>5. /\ load' \in Loading /\ load' # Idle /\ load'.of = v /\ load'.file = f
      /\ load'.left = load.left \ {r}
      /\ load'.seen = IF Keyed(f) THEN load.seen \cup {FileOf(r)} ELSE load.seen
  <2>1. FileOf(r) \in {FileOf(x) : x \in DatasetRows}
    BY <1>2 DEF DatasetRows
  <2> QED
    BY <1>1, <1>2, <1>4, <2>1 DEF Loading, Idle
<1> HIDE DEF k, names
<1>6. /\ RowsFit' /\ DOMAIN rows' = DOMAIN rows \cup {k}
      /\ \A x \in DOMAIN rows : x # k => rows'[x] = rows[x]
      /\ rows'[k] = IF k \in DOMAIN rows THEN Merge(rows[k], r, names, t) ELSE NewRow(r, names)
      /\ Merge(rows'[k], r, names, t) = rows'[k]
      /\ k \in DOMAIN rows /\ Merge(rows[k], r, names, t) = rows[k] => rows' = rows
  BY <1>2, <1>4, StoredFacts, SMTT(30) DEF ImportInv, k, names
<1>7. LoadFits'
  BY <1>1, <1>2, <1>4, <1>5, LoadFacts DEF ImportInv, LoadFits, RowsIn
<1>8. \A x \in HasRead(load') : x = r \/ x \in HasRead(load)
  BY <1>1, <1>5 DEF HasRead
<1>9. ASSUME NEW x \in HasRead(load') PROVE Settled(v, x)'
  <2>1. CASE x = r
    BY <1>2, <1>3, <1>6, <2>1, OrderFacts DEF Settled, SettledAt, k
  <2>2. CASE x # r
    <3>1. x \in Datasets[v] /\ Settled(v, x)
      BY <1>1, <1>2, <1>8, <2>2 DEF ImportInv, LoadKnows, HasRead
    <3>2. ASSUME NEW i \in DOMAIN Order, Order[i][1] = x.file
          PROVE  SettledAt(v, x, Order[i][2].takes)'
      <4>1. SettledAt(v, x, Order[i][2].takes)
        BY <3>1, <3>2 DEF Settled
      <4>2. KeyOf(x, Order[i][2].takes) # k
        BY <1>2, <2>2, <3>1, KeysDiffer DEF k
      <4> QED
        BY <1>6, <4>1, <4>2 DEF SettledAt
    <3> QED
      BY <3>2 DEF Settled
  <2> QED
    BY <2>1, <2>2
<1>10. LoadKnows'
  <2>1. ASSUME NEW x \in HasRead(load'), NEW j \in DOMAIN Order, Order[j][1] = x.file, Keyed(j)
        PROVE  FileOf(x) \in load'.seen
    <3>1. CASE x = r
      BY <1>2, <1>5, <2>1, <3>1, OrderFacts
    <3>2. CASE x # r
      BY <1>1, <1>2, <1>5, <1>8, <2>1, <3>2 DEF ImportInv, LoadKnows
    <3> QED
      BY <3>1, <3>2
  <2>2. \A n \in load'.seen : \E x \in Datasets[v] : FileOf(x) = n
    BY <1>1, <1>2, <1>5 DEF ImportInv, LoadKnows
  <2> QED
    BY <1>5, <1>9, <2>1, <2>2 DEF LoadKnows
<1>11. ASSUME last = v PROVE rows' = rows
  <2>1. Settled(v, r)
    BY <1>2, <1>11, ImportAssumption DEF ImportInv, LastStands
  <2> QED
    BY <1>2, <1>3, <1>6, <2>1 DEF Settled, SettledAt, k
<1>12. LastStands'
  <2>1. CASE last = Nowhere
    BY <1>4, <2>1 DEF LastStands
  <2>2. CASE last # Nowhere
    <3>1. last = v /\ rows' = rows
      BY <1>1, <1>2, <1>11, <2>2 DEF ImportInv, LastStands
    <3> QED
      BY <1>4, <1>5, <3>1 DEF ImportInv, LastStands, Settled, SettledAt
  <2> QED
    BY <2>1, <2>2
<1>13. Unmixed'
  <2> SUFFICES ASSUME NEW w \in Versions, started' \subseteq {w}, NEW y \in DOMAIN rows'
               PROVE  ComesFrom(w, y)'
    BY DEF Unmixed
  <2>1. w = v /\ \A z \in DOMAIN rows : ComesFrom(v, z)
    BY <1>2, <1>4 DEF ImportInv, Unmixed
  <2>2. CASE y # k
    <3>1. y \in DOMAIN rows /\ rows'[y] = rows[y]
      BY <1>6, <2>2
    <3> QED
      BY <2>1, <3>1 DEF ComesFrom
  <2>3. CASE y = k
    <3>1. rows'[k] = NewRow(r, Known(v, r))
      <4>1. CASE k \in DOMAIN rows
        <5>1. PICK x \in Datasets[v], i \in DOMAIN Order :
                k = KeyOf(x, Order[i][2].takes) /\ rows[k] = NewRow(x, Known(v, x))
          BY <2>1, <4>1 DEF ComesFrom
        <5>2. x = r
          BY <1>2, <5>1, KeysDiffer DEF k
        <5> QED
          BY <1>3, <1>6, <4>1, <5>1, <5>2, MergeFacts
      <4>2. CASE k \notin DOMAIN rows
        BY <1>3, <1>6, <4>2
      <4> QED
        BY <4>1, <4>2
    <3>2. k = KeyOf(r, Order[f][2].takes)
      BY <1>2 DEF k
    <3> QED
      BY <1>2, <2>1, <2>3, <3>1, <3>2 DEF ComesFrom
  <2> QED
    BY <2>2, <2>3
<1> QED
  BY <1>1, <1>6, <1>7, <1>10, <1>11, <1>12, <1>13 DEF ImportInv

LEMMA StartStep ==
  ASSUME ImportInv, NEW v \in Versions, Start(v)
  PROVE  ImportInv'
<1>1. PICK f : f = FileAfter(v, 0)
  OBVIOUS
<1>2. f \in 1 .. Len(Order) + 1 /\ \A j \in 1 .. Len(Order) : j < f => RowsIn(v, j) = {}
  <2>1. 0 \in 0 .. Len(Order)
    BY OrderFacts
  <2> QED
    BY <1>1, <2>1, FileAfterFacts, OrderFacts
<1>3. /\ load = Idle /\ load' = Reading(v, f, {}) /\ started' = started \cup {v}
      /\ last' = IF last = v THEN last ELSE Nowhere
      /\ UNCHANGED rows
  BY <1>1 DEF Start
<1>4. /\ load' \in Loading /\ load' # Idle /\ load'.of = v /\ load'.file = f
      /\ load'.left = RowsIn(v, f) /\ load'.seen = {}
  BY <1>2, <1>3 DEF Reading, Loading, Idle, RowsIn, DatasetRows
<1>5. ASSUME NEW x \in HasRead(load') PROVE FALSE
  <2>1. PICK j \in DOMAIN Order : /\ x \in Datasets[v] /\ Order[j][1] = x.file
                                  /\ j < f \/ (j = f /\ x \notin RowsIn(v, f))
    BY <1>4 DEF HasRead
  <2>2. x \in RowsIn(v, j)
    BY <2>1, OrderFacts DEF RowsIn
  <2> QED
    BY <1>2, <2>1, <2>2, OrderFacts
<1>6. RowsFit' /\ LoadFits'
  BY <1>3, <1>4 DEF ImportInv, RowsFit, LoadFits
<1>7. LoadKnows'
  BY <1>4, <1>5 DEF LoadKnows
<1>8. LastStands'
  BY <1>3, <1>4 DEF ImportInv, LastStands, Settled, SettledAt
<1>9. Unmixed'
  BY <1>3 DEF ImportInv, Unmixed, ComesFrom
<1> QED
  BY <1>6, <1>7, <1>8, <1>9 DEF ImportInv

LEMMA NextFileStep ==
  ASSUME ImportInv, NextFile
  PROVE  ImportInv'
<1>1. PICK v, i, f : v = load.of /\ i = load.file /\ f = FileAfter(v, i)
  OBVIOUS
<1>2. /\ load # Idle /\ load.left = {} /\ i \in 1 .. Len(Order) /\ v \in Versions /\ v \in started
      /\ load.seen \subseteq {FileOf(x) : x \in DatasetRows}
  BY <1>1, LoadFacts, OrderFacts DEF NextFile, Loading
<1>3. /\ f \in 1 .. Len(Order) + 1 /\ i < f
      /\ \A j \in i + 1 .. Len(Order) : j < f => RowsIn(v, j) = {}
  BY <1>1, <1>2, FileAfterFacts, OrderFacts
<1>4. load' = Reading(v, f, load.seen) /\ UNCHANGED <<rows, last, started, loads>>
  BY <1>1 DEF NextFile
<1>5. /\ load' \in Loading /\ load' # Idle /\ load'.of = v /\ load'.file = f
      /\ load'.left = RowsIn(v, f) /\ load'.seen = load.seen
  BY <1>2, <1>3, <1>4 DEF Reading, Loading, Idle, RowsIn, DatasetRows
<1>6. ASSUME NEW x \in HasRead(load') PROVE x \in HasRead(load)
  <2>1. PICK j \in DOMAIN Order : /\ x \in Datasets[v] /\ Order[j][1] = x.file
                                  /\ j < f \/ (j = f /\ x \notin RowsIn(v, f))
    BY <1>5 DEF HasRead
  <2>2. x \in RowsIn(v, j)
    BY <2>1, OrderFacts DEF RowsIn
  <2>3. j < i \/ j = i
    BY <1>2, <1>3, <2>1, <2>2, OrderFacts
  <2> QED
    BY <1>1, <1>2, <2>1, <2>3 DEF HasRead
<1>7. RowsFit' /\ LoadFits'
  BY <1>2, <1>4, <1>5 DEF ImportInv, RowsFit, LoadFits
<1>8. LoadKnows'
  BY <1>1, <1>2, <1>4, <1>5, <1>6 DEF ImportInv, LoadKnows, Settled, SettledAt
<1>9. LastStands'
  BY <1>1, <1>2, <1>4, <1>5 DEF ImportInv, LastStands, Settled, SettledAt
<1>10. Unmixed'
  BY <1>4 DEF ImportInv, Unmixed, ComesFrom
<1> QED
  BY <1>7, <1>8, <1>9, <1>10 DEF ImportInv

(* A load ends, at its end or before it.                                     *)
LEMMA EndStep ==
  ASSUME ImportInv, load' = Idle, UNCHANGED <<rows, started>>,
         \/ last' = Nowhere \/ last' = last
         \/ last' \in Versions /\ \A x \in Datasets[last'] : Settled(last', x)
  PROVE  ImportInv'
<1>1. RowsFit' /\ LoadFits'
  BY DEF ImportInv, RowsFit, LoadFits
<1>2. LoadKnows' /\ Unmixed'
  BY DEF ImportInv, LoadKnows, Unmixed, ComesFrom
<1>3. LastStands'
  BY DEF ImportInv, LastStands, Settled, SettledAt
<1> QED
  BY <1>1, <1>2, <1>3 DEF ImportInv

LEMMA FinishStep ==
  ASSUME ImportInv, Finish
  PROVE  ImportInv'
<1>1. PICK v : v = load.of
  OBVIOUS
<1>2. load # Idle /\ load.file > Len(Order) /\ v \in Versions /\ load' = Idle /\ last' = v
      /\ load.file \in 1 .. Len(Order) + 1 /\ UNCHANGED <<rows, started>>
  BY <1>1, LoadFacts DEF Finish
<1>3. ASSUME NEW x \in Datasets[v] PROVE Settled(v, x)
  <2>1. PICK j \in DOMAIN Order : Order[j][1] = x.file
    BY <1>2, ImportAssumption DEF FileNames
  <2>2. j < load.file
    BY <1>2, OrderFacts
  <2>3. x \in HasRead(load)
    BY <1>1, <2>1, <2>2 DEF HasRead
  <2> QED
    BY <1>1, <1>2, <2>3 DEF ImportInv, LoadKnows
<1> QED
  BY <1>2, <1>3, EndStep

LEMMA ImportStart == ImportInit => ImportInv
<1> SUFFICES ASSUME ImportInit PROVE ImportInv
  OBVIOUS
<1>1. rows = <<>> /\ load = Idle /\ last = Nowhere /\ started = {}
  BY DEF ImportInit
<1>2. DOMAIN rows = {} /\ rows = [k \in DOMAIN rows |-> rows[k]]
  BY <1>1
<1> QED
  BY <1>1, <1>2 DEF ImportInv, RowsFit, LoadFits, LoadKnows, LastStands, Unmixed

LEMMA ImportStep ==
  ImportInv /\ [ImportNext]_importVars =>
      ImportInv' /\ (load # Idle /\ last = load.of => rows' = rows)
<1> SUFFICES ASSUME ImportInv, [ImportNext]_importVars
             PROVE  ImportInv' /\ (load # Idle /\ last = load.of => rows' = rows)
  OBVIOUS
<1>1. CASE \E v \in Versions : Start(v)
  BY <1>1, StartStep DEF Start
<1>2. CASE \E v \in Versions : \E r \in Datasets[v] : LoadRow(r)
  BY <1>2, LoadRowStep
<1>3. CASE \E v \in Versions : \E r \in Datasets[v] : Bail(r)
  BY <1>3, EndStep DEF Bail
<1>4. CASE NextFile
  BY <1>4, NextFileStep DEF NextFile
<1>5. CASE Stop
  BY <1>5, EndStep DEF Stop
<1>6. CASE Finish
  BY <1>6, FinishStep DEF Finish
<1>7. CASE UNCHANGED importVars
  BY <1>7 DEF importVars, ImportInv, RowsFit, LoadFits, LoadKnows, HasRead, LastStands, Settled,
     SettledAt, Unmixed, ComesFrom
<1> QED
  BY <1>1, <1>2, <1>3, <1>4, <1>5, <1>6, <1>7 DEF ImportNext

(* A second load of the version last loaded to its end changes no row,       *)
(* however far it gets and in whatever order a file's rows come              *)
(* (ingest/import.rs 16).                                                    *)
THEOREM TwiceTheSameAlways == ImportSpec => TwiceTheSame
<1>1. ImportInv /\ [ImportNext]_importVars => [load # Idle /\ last = load.of => rows' = rows]_importVars
  BY ImportStep
<1> QED
  BY <1>1, ImportStart, ImportStep, PTL DEF ImportSpec, TwiceTheSame

(* The rows and the files' rows are as many: each comes from one.            *)
LEMMA AsMany ==
  ASSUME NEW v \in Versions, ImportInv, \A k \in DOMAIN rows : ComesFrom(v, k),
         \A x \in Datasets[v] : Settled(v, x)
  PROVE  Cardinality(DOMAIN rows) = Cardinality(Datasets[v])
<1> DEFINE At(x) == CHOOSE i \in DOMAIN Order : Order[i][1] = x.file
           f == [x \in Datasets[v] |-> KeyOf(x, Order[At(x)][2].takes)]
<1>1. \A x \in Datasets[v] : At(x) \in DOMAIN Order /\ Order[At(x)][1] = x.file
  BY ImportAssumption DEF FileNames
<1>2. \A x \in Datasets[v], i \in DOMAIN Order : Order[i][1] = x.file => i = At(x)
  BY <1>1, OrderFacts
<1> HIDE DEF At
<1>3. \A x \in Datasets[v] : f[x] \in DOMAIN rows
  BY <1>1 DEF Settled, SettledAt
<1>4. \A x, y \in Datasets[v] : f[x] = f[y] => x = y
  BY KeysDiffer
<1>5. \A k \in DOMAIN rows : \E x \in Datasets[v] : f[x] = k
  BY <1>2 DEF ComesFrom
<1>6. f \in Bijection(Datasets[v], DOMAIN rows)
  BY <1>3, <1>4, <1>5 DEF Bijection, Injection, Surjection, IsInjective
<1>7. ExistsBijection(Datasets[v], DOMAIN rows) /\ IsFiniteSet(Datasets[v])
  BY <1>6, ImportAssumption DEF ExistsBijection
<1> QED
  BY <1>7, FS_Bijection

(* After a load to the end, into a database that saw only loads of this      *)
(* version, however many were broken off, the database holds each row of the *)
(* files once and nothing else (ingest/import.rs 3-6).                       *)
THEOREM ReconstructedAlways == ImportSpec => []Reconstructed
<1>1. ASSUME ImportInv PROVE Reconstructed
  <2> SUFFICES ASSUME last # Nowhere, started = {last}, load = Idle
               PROVE  /\ Cardinality(DOMAIN rows) = Cardinality(Datasets[last])
                      /\ \A r \in Datasets[last] : \E k \in DOMAIN rows :
                            /\ k[1] = r.file /\ k[2] = r.key
                            /\ rows[k] = NewRow(r, {n \in r.names :
                                    \E x \in Datasets[last] : FileOf(x) = n})
    BY DEF Reconstructed
  <2>1. /\ last \in Versions /\ \A x \in Datasets[last] : Settled(last, x)
        /\ \A k \in DOMAIN rows : ComesFrom(last, k)
    BY <1>1 DEF ImportInv, LoadFits, LastStands, Unmixed
  <2>2. ASSUME NEW r \in Datasets[last]
        PROVE  \E k \in DOMAIN rows :
                 k[1] = r.file /\ k[2] = r.key /\ rows[k] = NewRow(r, Known(last, r))
    <3>1. PICK i \in DOMAIN Order : Order[i][1] = r.file
      BY <2>1, ImportAssumption DEF FileNames
    <3>2. PICK k \in DOMAIN rows : k = KeyOf(r, Order[i][2].takes)
      BY <2>1, <3>1 DEF Settled, SettledAt
    <3>3. PICK x \in Datasets[last], j \in DOMAIN Order :
            k = KeyOf(x, Order[j][2].takes) /\ rows[k] = NewRow(x, Known(last, x))
      BY <2>1 DEF ComesFrom
    <3>4. x = r
      <4>1. KeyOf(x, Order[j][2].takes) = KeyOf(r, Order[i][2].takes)
        BY <3>2, <3>3
      <4>2. last \in Versions
        BY <2>1
      <4> QED
        BY <4>1, <4>2, KeysDiffer
    <3>5. k[1] = r.file /\ k[2] = r.key
      BY <3>2 DEF KeyOf, FileOf
    <3> QED
      BY <3>3, <3>4, <3>5
  <2>3. Cardinality(DOMAIN rows) = Cardinality(Datasets[last])
    BY <1>1, <2>1, AsMany
  <2>4. \A r \in Datasets[last] :
          Known(last, r) = {n \in r.names : \E x \in Datasets[last] : FileOf(x) = n}
    BY DEF Known
  <2> QED
    BY <2>2, <2>3, <2>4
<1> QED
  BY <1>1, ImportStart, ImportStep, PTL DEF ImportSpec

------------------------------------------------------------------------------
(* The types of Import: what a load has met is in the database, so that a    *)
(* row names only rows that are there.                                       *)
KnownFile(k) == k[1] \in FileNames
ImportBounds ==
    /\ \A k \in DOMAIN rows : KnownFile(k) /\ rows[k].names \subseteq DOMAIN rows
    /\ load # Idle => load.seen \subseteq DOMAIN rows
    /\ loads \in 0..MaxLoads

LEMMA LoadRowBounds ==
  ASSUME ImportInv, ImportBounds, NEW r, LoadRow(r)
  PROVE  ImportBounds'
<1> DEFINE t == Order[load.file][2].takes
           k == KeyOf(r, t)
           names == r.names \cap load.seen
<1>1. /\ load # Idle /\ r \in load.left /\ load \in Loading /\ r \in Datasets[load.of]
      /\ load.of \in Versions /\ load.file \in DOMAIN Order
  BY LoadFacts DEF LoadRow, RowsIn
<1>2. /\ rows' = Stored(r, Order[load.file][2])
      /\ load' = [load EXCEPT !.left = @ \ {r},
                              !.seen = IF Keyed(load.file) THEN @ \cup {FileOf(r)} ELSE @]
      /\ loads' = loads
  BY DEF LoadRow
<1>3. k[1] \in FileNames
  BY <1>1, ImportAssumption DEF KeyOf, FileOf
<1>4. Keyed(load.file) => FileOf(r) = k
  BY DEF Keyed, KeyOf
<1>5. load'.seen = IF Keyed(load.file) THEN load.seen \cup {FileOf(r)} ELSE load.seen
  BY <1>1, <1>2 DEF Loading
<1>6. names \subseteq DOMAIN rows
  BY <1>1 DEF ImportBounds
<1> HIDE DEF k, names, t
<1>7. /\ DOMAIN rows' = DOMAIN rows \cup {k}
      /\ \A x \in DOMAIN rows : x # k => rows'[x] = rows[x]
      /\ rows'[k] = IF k \in DOMAIN rows THEN Merge(rows[k], r, names, t) ELSE NewRow(r, names)
  BY <1>2, StoredFacts, SMTT(30) DEF ImportInv, k, names, t
<1>8. NewRow(r, names).names = names
  BY DEF NewRow
<1>9. \A old : IsRow(old) => Merge(old, r, names, t).names \in {old.names, names}
  <2> SUFFICES ASSUME NEW m, NEW e, NEW s, NEW n
               PROVE  Merge(AsRow(m, e, s, n), r, names, t).names \in {n, names}
    BY DEF IsRow, AsRow
  <2>1. \A a, b, c, d : AsRow(a, b, c, d).names = d
    BY DEF AsRow
  <2> QED
    BY <2>1, MergedRow
<1>10. ASSUME NEW x \in DOMAIN rows' PROVE KnownFile(x) /\ rows'[x].names \subseteq DOMAIN rows'
  <2>1. CASE x # k
    BY <1>7, <1>10, <2>1 DEF ImportBounds
  <2>2. CASE x = k /\ k \in DOMAIN rows
    <3>1. IsRow(rows[k]) /\ rows[k].names \subseteq DOMAIN rows
      BY <2>2 DEF ImportInv, RowsFit, ImportBounds
    <3>2. rows'[k].names \in {rows[k].names, names}
      BY <1>7, <1>9, <2>2, <3>1
    <3> QED
      BY <1>3, <1>6, <1>7, <2>2, <3>1, <3>2 DEF KnownFile
  <2>3. CASE x = k /\ k \notin DOMAIN rows
    BY <1>3, <1>6, <1>7, <1>8, <2>3 DEF KnownFile
  <2> QED
    BY <2>1, <2>2, <2>3
<1>11. load'.seen \subseteq DOMAIN rows'
  BY <1>1, <1>4, <1>5, <1>7 DEF ImportBounds
<1> QED
  BY <1>2, <1>10, <1>11 DEF ImportBounds, KnownFile

LEMMA ImportBoundsStep ==
  ASSUME ImportInv, ImportBounds, [ImportNext]_importVars
  PROVE  ImportBounds'
<1>1. ASSUME UNCHANGED rows, loads' \in 0..MaxLoads,
             load' # Idle => load'.seen = {} \/ (load # Idle /\ load'.seen = load.seen)
      PROVE  ImportBounds'
  BY <1>1 DEF ImportBounds, KnownFile
<1>2. loads \in 0..MaxLoads /\ MaxLoads \in Nat
  BY ImportAssumption DEF ImportBounds
<1>3. ASSUME NEW v \in Versions, Start(v)
      PROVE  ImportBounds'
  <2>1. load'.seen = {} /\ UNCHANGED rows
    BY <1>3 DEF Start, Reading
  <2>2. loads' \in 0..MaxLoads
    BY <1>2, <1>3 DEF Start
  <2> QED
    BY <1>1, <2>1, <2>2
<1>4. CASE NextFile
  <2>1. load # Idle /\ load'.seen = load.seen /\ UNCHANGED <<rows, loads>>
    BY <1>4 DEF NextFile, Reading
  <2> QED
    BY <1>1, <1>2, <2>1
<1>5. ASSUME NEW r, Bail(r)
      PROVE  ImportBounds'
  BY <1>1, <1>2, <1>5 DEF Bail
<1>6. CASE Stop \/ Finish
  BY <1>1, <1>2, <1>6 DEF Stop, Finish
<1>7. CASE UNCHANGED importVars
  BY <1>1, <1>2, <1>7 DEF importVars
<1> QED
  BY <1>3, <1>4, <1>5, <1>6, <1>7, LoadRowBounds DEF ImportNext

LEMMA ImportTyped == ImportSpec => []ImportTypeOK
<1>1. ImportInit => ImportBounds
  <2> SUFFICES ASSUME ImportInit PROVE ImportBounds
    OBVIOUS
  <2>1. rows = <<>> /\ load = Idle /\ loads = 0
    BY DEF ImportInit
  <2>2. DOMAIN rows = {}
    BY <2>1
  <2> QED
    BY <2>1, <2>2, ImportAssumption DEF ImportBounds
<1>2. ImportInv /\ ImportBounds /\ [ImportNext]_importVars => ImportInv' /\ ImportBounds'
  BY ImportStep, ImportBoundsStep
<1>3. ImportInv /\ ImportBounds => ImportTypeOK
  <2> SUFFICES ASSUME ImportInv, ImportBounds PROVE ImportTypeOK
    OBVIOUS
  <2>1. ASSUME NEW k \in DOMAIN rows
        PROVE  k[1] \in FileNames /\ rows[k].copies > 0 /\ rows[k].names \subseteq DOMAIN rows
    <3>1. rows[k].copies = 1
      BY DEF ImportInv, RowsFit, IsRow
    <3> QED
      BY <3>1 DEF ImportBounds, KnownFile
  <2>2. load = Idle \/ (load.of \in Versions /\ load.file \in 1..Len(Order) + 1
                        /\ load.left \subseteq Datasets[load.of] /\ load.seen \subseteq DOMAIN rows)
    BY LoadFacts DEF ImportBounds, RowsIn
  <2> QED
    BY <2>1, <2>2 DEF ImportTypeOK, ImportInv, LoadFits, ImportBounds
<1> QED
  BY ImportStart, <1>1, <1>2, <1>3, PTL DEF ImportSpec

-----------------------------------------------------------------------------
(* Captcha: a solution is accepted once for as long as it is remembered, for *)
(* any number of challenges and requests, and for any clock, deadline and    *)
(* duration of a request.  What is accepted is no longer due or has a row    *)
(* that says so (RowsCover); a transaction that is to delete a row, or to    *)
(* insert one, holds it alone (HeldApart), so that what it found out about   *)
(* it stays true (Deletes, Inserts).                                         *)

SolutionsFit == \A r \in Requests : step[r] # "idle" => proof[r].solution \in Challenges

(* No row is in the hands of two transactions.                             *)
HeldApart == \A r, q \in Requests : r # q => Holds(r) \intersect Holds(q) = {}

Forgotten(c) == \A i \in DOMAIN accepted[c] : accepted[c][i].expires < now

RowsCover ==
  \A c \in Challenges : \A i \in DOMAIN accepted[c] :
    accepted[c][i].expires < now \/ (used[c] # None /\ accepted[c][i].expires <= used[c])

Deletes == \A r \in Requests : \A c \in proof[r].pruned : Forgotten(c)
Inserts == \A r \in Requests : step[r] = "commit" /\ proof[r].first => Forgotten(proof[r].solution)

CaptchaInv == CaptchaTypeOK /\ SolutionsFit /\ HeldApart /\ RowsCover /\ Deletes /\ Inserts /\ OnceWhileRemembered

CaptchaSteps == {"idle", "prune", "insert", "commit"}
Taken(next, j) == j.pruned \union (IF next = "commit" THEN {j.solution} ELSE {})

-----------------------------------------------------------------------------
LEMMA Durations ==
  /\ TTL \in Nat
  /\ \A t \in Nat : t + TTL \in Nat /\ Seconds(t) \in Nat
<1>1. TicksPerSecond \in Nat /\ TicksPerSecond > 0 /\ TTLSeconds \in Nat
  BY CaptchaAssumption
<1>2. TTL \in Nat
  BY <1>1 DEF TTL
<1>3. \A t \in Nat : Seconds(t) \in Nat
  BY <1>1 DEF Seconds
<1> QED
  BY <1>2, <1>3

LEMMA NoProofFits == NoProof \in Proof /\ NoProof.pruned = {} /\ ~NoProof.first
BY DEF NoProof, Proof

LEMMA Expiries ==
  ASSUME CaptchaTypeOK, NEW c \in Challenges, NEW i \in DOMAIN accepted[c]
  PROVE  accepted[c][i].expires \in Nat
<1>1. accepted[c] \in Seq(Accepted)
  BY DEF CaptchaTypeOK
<1>2. i \in 1 .. Len(accepted[c])
  BY <1>1, LenProperties
<1>3. accepted[c][i] \in Accepted
  BY <1>1, <1>2, ElementOfSeq
<1> QED
  BY <1>3 DEF Accepted

(* What a request's slot holds after a step of it.                         *)
LEMMA ProofSlot ==
  ASSUME CaptchaTypeOK, NEW r \in Requests, NEW next \in CaptchaSteps, NEW j \in Proof, Goto(r, next, j)
  PROVE  /\ step' \in [Requests -> CaptchaSteps] /\ proof' \in [Requests -> Proof]
         /\ step'[r] = next /\ proof'[r] = j /\ Holds(r)' = Taken(next, j)
         /\ \A q \in Requests \ {r} : /\ step'[q] = step[q] /\ proof'[q] = proof[q]
                                      /\ Holds(q)' = Holds(q)
BY DEF CaptchaTypeOK, Goto, CaptchaSteps, Holds, Taken

LEMMA StillHeldApart ==
  ASSUME CaptchaInv, NEW r \in Requests, NEW next \in CaptchaSteps, NEW j \in Proof, Goto(r, next, j),
         \A c \in Taken(next, j) : ~HeldByOther(r, c)
  PROVE  HeldApart'
<1>1. Holds(r)' = Taken(next, j) /\ \A q \in Requests \ {r} : Holds(q)' = Holds(q)
  BY ProofSlot DEF CaptchaInv
<1>2. ASSUME NEW p \in Requests, NEW q \in Requests, p # q
      PROVE  Holds(p)' \intersect Holds(q)' = {}
  BY <1>1, <1>2 DEF CaptchaInv, HeldApart, HeldByOther
<1> QED
  BY <1>2 DEF HeldApart

(* A request moves on, and what it takes hold of nobody else holds.        *)
LEMMA ProofMoves ==
  ASSUME CaptchaInv, NEW r \in Requests, NEW next \in CaptchaSteps, NEW j \in Proof, Goto(r, next, j),
         UNCHANGED <<now, deadline, used, accepted>>,
         next # "idle" => j.solution \in Challenges,
         \A c \in Taken(next, j) : ~HeldByOther(r, c),
         \A c \in j.pruned : Forgotten(c),
         next = "commit" /\ j.first => Forgotten(j.solution)
  PROVE  CaptchaInv'
<1>1. /\ step' \in [Requests -> CaptchaSteps] /\ proof' \in [Requests -> Proof]
      /\ step'[r] = next /\ proof'[r] = j
      /\ \A q \in Requests \ {r} : step'[q] = step[q] /\ proof'[q] = proof[q]
  BY ProofSlot DEF CaptchaInv
<1>2. CaptchaTypeOK'
  BY <1>1 DEF CaptchaInv, CaptchaTypeOK, CaptchaSteps
<1>3. SolutionsFit'
  BY <1>1 DEF CaptchaInv, SolutionsFit
<1>4. HeldApart'
  BY StillHeldApart
<1>5. \A c : Forgotten(c)' = Forgotten(c)
  BY DEF Forgotten
<1>6. Deletes'
  BY <1>1, <1>5 DEF CaptchaInv, Deletes
<1>7. Inserts'
  <2> SUFFICES ASSUME NEW q \in Requests, step'[q] = "commit", proof'[q].first
               PROVE  \A c : c = proof'[q].solution => Forgotten(c)
    BY <1>5 DEF Inserts, Forgotten
  <2> QED
    BY <1>1 DEF CaptchaInv, Inserts
<1>8. RowsCover' /\ OnceWhileRemembered'
  BY DEF CaptchaInv, RowsCover, OnceWhileRemembered
<1> QED
  BY <1>2, <1>3, <1>4, <1>6, <1>7, <1>8 DEF CaptchaInv

LEMMA VerifyStep ==
  ASSUME CaptchaInv, NEW r \in Requests, NEW c \in Challenges, Verify(r, c)
  PROVE  CaptchaInv'
<1> DEFINE j == [NoProof EXCEPT !.solution = c, !.since = now, !.expires = now + TTL]
<1>1. now \in Nat /\ now + TTL \in Nat
  BY Durations DEF CaptchaInv, CaptchaTypeOK
<1>2. j \in Proof /\ j.solution = c /\ j.pruned = {}
  BY <1>1 DEF NoProof, Proof
<1>3. Goto(r, "prune", j) /\ UNCHANGED <<now, deadline, used, accepted>>
  BY DEF Verify
<1> HIDE DEF j
<1> QED
  BY <1>2, <1>3, ProofMoves DEF CaptchaSteps, Taken

LEMMA PruneStep ==
  ASSUME CaptchaInv, NEW r \in Requests, Prune(r)
  PROVE  CaptchaInv'
<1> DEFINE j == [proof[r] EXCEPT !.at = now, !.pruned = Expired(now)]
<1>1. now \in Nat /\ proof[r] \in Proof /\ proof[r].solution \in Challenges
  BY DEF CaptchaInv, CaptchaTypeOK, SolutionsFit, Prune
<1>2. Expired(now) \subseteq Challenges
  BY DEF Expired
<1>3. j \in Proof /\ j.solution = proof[r].solution /\ j.pruned = Expired(now)
  BY <1>1, <1>2 DEF Proof
<1>4. /\ Goto(r, "insert", j) /\ UNCHANGED <<now, deadline, used, accepted>>
      /\ \A c \in Expired(now) : ~HeldByOther(r, c)
  BY DEF Prune
<1>5. ASSUME NEW c \in Expired(now), NEW i \in DOMAIN accepted[c]
      PROVE  accepted[c][i].expires < now
  <2>1. c \in Challenges /\ used[c] # None /\ used[c] < now
    BY DEF Expired
  <2>2. used[c] \in Nat /\ accepted[c] \in Seq(Accepted)
    BY <2>1 DEF CaptchaInv, CaptchaTypeOK
  <2>3. accepted[c][i].expires \in Nat
    BY <2>1, Expiries DEF CaptchaInv
  <2> QED
    BY <1>1, <2>1, <2>2, <2>3 DEF CaptchaInv, RowsCover
<1> HIDE DEF j
<1> QED
  BY <1>1, <1>3, <1>4, <1>5, ProofMoves DEF CaptchaSteps, Taken, Forgotten

(* The row is free and absent, or this request has deleted it.             *)
LEMMA InsertStep ==
  ASSUME CaptchaInv, NEW r \in Requests, InsertSolution(r)
  PROVE  CaptchaInv'
<1> DEFINE c == proof[r].solution
           free == used[c] = None \/ c \in proof[r].pruned
           j == [proof[r] EXCEPT !.first = free]
<1>1. proof[r] \in Proof /\ c \in Challenges
  BY DEF CaptchaInv, CaptchaTypeOK, SolutionsFit, InsertSolution
<1>2. Goto(r, "commit", j) /\ UNCHANGED <<now, deadline, used, accepted>> /\ ~HeldByOther(r, c)
  BY DEF InsertSolution
<1>3. free \in BOOLEAN
  OBVIOUS
<1> HIDE DEF free
<1>4. j \in Proof /\ j.solution = c /\ j.pruned = proof[r].pruned /\ j.first = free
  BY <1>1, <1>3 DEF Proof
<1>5. free => Forgotten(c)
  <2>1. CASE used[c] = None
    BY <1>1, <2>1 DEF CaptchaInv, RowsCover, Forgotten
  <2>2. CASE c \in proof[r].pruned
    BY <2>2 DEF CaptchaInv, Deletes
  <2> QED
    BY <2>1, <2>2 DEF free
<1>6. \A x \in proof[r].pruned : Forgotten(x) /\ ~HeldByOther(r, x)
  BY DEF CaptchaInv, Deletes, HeldApart, HeldByOther, Holds
<1> HIDE DEF j, c
<1> QED
  BY <1>1, <1>2, <1>4, <1>5, <1>6, ProofMoves DEF CaptchaSteps, Taken

LEMMA AbortStep ==
  ASSUME CaptchaInv, NEW r \in Requests, Abort(r)
  PROVE  CaptchaInv'
<1>1. Goto(r, "idle", NoProof) /\ UNCHANGED <<now, deadline, used, accepted>>
  BY DEF Abort
<1> QED
  BY <1>1, NoProofFits, ProofMoves DEF CaptchaSteps, Taken

(* What others found out is of rows they hold, which this one does not.    *)
LEMMA CommitProofStep ==
  ASSUME CaptchaInv, NEW r \in Requests, CommitSolution(r)
  PROVE  CaptchaInv'
<1> DEFINE j == proof[r]
           new == [at |-> now, expires |-> j.expires]
<1>0. CaptchaTypeOK /\ step[r] = "commit" /\ UNCHANGED <<now, deadline>> /\ Goto(r, "idle", NoProof)
  BY DEF CommitSolution, CaptchaInv
<1>1. /\ j \in Proof /\ j.solution \in Challenges /\ j.expires \in Nat /\ now \in Nat
      /\ j.pruned \subseteq Challenges /\ j.first \in BOOLEAN
  BY <1>0 DEF CaptchaInv, CaptchaTypeOK, SolutionsFit, Proof
<1>2. Holds(r) = j.pruned \union {j.solution}
  BY <1>0 DEF Holds
<1>3. /\ used' \in [Challenges -> Nat \union {None}]
      /\ \A c \in Challenges : used'[c] = IF j.first /\ c = j.solution THEN j.expires
                                          ELSE IF c \in j.pruned THEN None ELSE used[c]
  <2> DEFINE kept == [c \in Challenges |-> IF c \in j.pruned THEN None ELSE used[c]]
  <2>1. kept \in [Challenges -> Nat \union {None}]
    BY <1>0 DEF CaptchaTypeOK
  <2>2. CASE j.first
    <3>1. used' = [kept EXCEPT ![j.solution] = j.expires]
      BY <2>2 DEF CommitSolution
    <3> QED
      BY <1>1, <2>1, <2>2, <3>1
  <2>3. CASE ~j.first
    <3>1. used' = kept
      BY <2>3 DEF CommitSolution
    <3> QED
      BY <2>1, <2>3, <3>1
  <2> QED
    BY <2>2, <2>3
<1>4. new \in Accepted /\ new.at = now /\ new.expires = j.expires
  BY <1>1 DEF Accepted
<1>5. accepted' = IF j.first THEN [accepted EXCEPT ![j.solution] = Append(accepted[j.solution], new)]
                  ELSE accepted
  BY DEF CommitSolution
<1> HIDE DEF new
<1>6. /\ accepted' \in [Challenges -> Seq(Accepted)]
      /\ \A c \in Challenges : accepted'[c] = IF j.first /\ c = j.solution THEN Append(accepted[c], new)
                                              ELSE accepted[c]
  <2>1. Append(accepted[j.solution], new) \in Seq(Accepted)
    BY <1>0, <1>1, <1>4, AppendProperties DEF CaptchaTypeOK
  <2> QED
    BY <1>0, <1>1, <1>5, <2>1 DEF CaptchaTypeOK
<1>7. /\ step' \in [Requests -> CaptchaSteps] /\ proof' \in [Requests -> Proof]
      /\ step'[r] = "idle" /\ proof'[r] = NoProof
      /\ \A q \in Requests \ {r} : step'[q] = step[q] /\ proof'[q] = proof[q]
  BY <1>0, NoProofFits, ProofSlot DEF CaptchaSteps
<1>8. CaptchaTypeOK'
  BY <1>0, <1>3, <1>6, <1>7 DEF CaptchaTypeOK, CaptchaSteps
<1>9. SolutionsFit'
  BY <1>7 DEF CaptchaInv, SolutionsFit
<1>10. HeldApart'
  BY <1>0, NoProofFits, StillHeldApart DEF CaptchaSteps, Taken
<1>11. \A c \in Challenges : c \notin Holds(r) => (Forgotten(c)' = Forgotten(c))
  BY <1>0, <1>2, <1>6 DEF Forgotten
<1>12. ASSUME NEW q \in Requests \ {r}, NEW c \in Holds(q) PROVE c \notin Holds(r)
  BY DEF CaptchaInv, HeldApart
<1>13. Deletes'
  <2> SUFFICES ASSUME NEW q \in Requests, NEW c \in proof'[q].pruned
               PROVE  Forgotten(c)'
    BY DEF Deletes
  <2>1. q # r /\ proof'[q] = proof[q]
    BY <1>7, NoProofFits
  <2>2. c \in Challenges /\ c \in Holds(q) /\ Forgotten(c)
    BY <1>0, <2>1 DEF CaptchaTypeOK, Proof, Holds, CaptchaInv, Deletes
  <2> QED
    BY <1>11, <1>12, <2>1, <2>2
<1>14. Inserts'
  <2> SUFFICES ASSUME NEW q \in Requests, step'[q] = "commit", proof'[q].first,
                      NEW c, c = proof'[q].solution
               PROVE  Forgotten(c)'
    BY DEF Inserts, Forgotten
  <2>1. q # r /\ proof'[q] = proof[q] /\ step[q] = "commit"
    BY <1>7
  <2>2. c \in Challenges /\ c \in Holds(q) /\ Forgotten(c)
    BY <2>1 DEF Holds, CaptchaInv, Inserts, SolutionsFit
  <2> QED
    BY <1>11, <1>12, <2>1, <2>2
<1>15. ASSUME NEW c \in Challenges
       PROVE  \/ accepted'[c] = accepted[c] /\ ~(j.first /\ c = j.solution)
              \/ /\ j.first /\ c = j.solution /\ used'[c] = j.expires
                 /\ Len(accepted[c]) \in Nat /\ DOMAIN accepted[c] = 1 .. Len(accepted[c])
                 /\ DOMAIN accepted'[c] = 1 .. (Len(accepted[c]) + 1)
                 /\ \A i \in DOMAIN accepted[c] :
                      accepted'[c][i] = accepted[c][i] /\ accepted[c][i].expires < now
                 /\ accepted'[c][Len(accepted[c]) + 1] = new
  <2>1. CASE j.first /\ c = j.solution
    <3>1. accepted[c] \in Seq(Accepted) /\ Forgotten(c)
      BY <1>0, <2>1 DEF CaptchaInv, Inserts, CaptchaTypeOK
    <3>2. /\ Len(accepted[c]) \in Nat /\ DOMAIN accepted[c] = 1 .. Len(accepted[c])
          /\ \A i \in DOMAIN accepted[c] : accepted[c][i].expires < now
      BY <3>1, LenProperties DEF Forgotten
    <3>3. accepted'[c] = Append(accepted[c], new) /\ used'[c] = j.expires
      BY <1>3, <1>6, <2>1
    <3>4. /\ accepted'[c] \in Seq(Accepted) /\ Len(accepted'[c]) = Len(accepted[c]) + 1
          /\ \A i \in 1 .. Len(accepted[c]) : accepted'[c][i] = accepted[c][i]
          /\ accepted'[c][Len(accepted[c]) + 1] = new
      BY <1>4, <3>1, <3>3, AppendProperties
    <3>5. DOMAIN accepted'[c] = 1 .. (Len(accepted[c]) + 1)
      BY <3>4, LenProperties
    <3> HIDE DEF j
    <3> QED
      BY <2>1, <3>2, <3>3, <3>4, <3>5
  <2>2. CASE ~(j.first /\ c = j.solution)
    BY <1>6, <2>2
  <2> QED
    BY <2>1, <2>2
<1>16. RowsCover'
  <2> SUFFICES ASSUME NEW c \in Challenges, NEW i \in DOMAIN accepted'[c]
               PROVE  \/ accepted'[c][i].expires < now
                      \/ used'[c] # None /\ accepted'[c][i].expires <= used'[c]
    BY <1>0 DEF RowsCover
  <2>1. CASE accepted'[c] = accepted[c] /\ ~(j.first /\ c = j.solution)
    <3>1. CASE c \in j.pruned
      BY <2>1, <3>1 DEF CaptchaInv, Deletes, Forgotten
    <3>2. CASE c \notin j.pruned
      BY <1>3, <2>1, <3>2 DEF CaptchaInv, RowsCover
    <3> QED
      BY <3>1, <3>2
  <2>2. CASE ~(accepted'[c] = accepted[c] /\ ~(j.first /\ c = j.solution))
    <3>1. used'[c] = j.expires /\ j.expires # None
      BY <1>1, <1>3, <1>15, <2>2, CaptchaAssumption
    <3>2. i \in DOMAIN accepted[c] \/ i = Len(accepted[c]) + 1
      BY <1>15, <2>2
    <3> QED
      BY <1>1, <1>4, <1>15, <2>2, <3>1, <3>2
  <2> QED
    BY <2>1, <2>2
<1>17. OnceWhileRemembered'
  <2> SUFFICES ASSUME NEW c \in Challenges, NEW i \in DOMAIN accepted'[c], NEW k \in DOMAIN accepted'[c],
                      i < k
               PROVE  accepted'[c][i].expires < accepted'[c][k].at
    BY DEF OnceWhileRemembered
  <2>1. CASE accepted'[c] = accepted[c]
    BY <2>1 DEF CaptchaInv, OnceWhileRemembered
  <2>2. CASE accepted'[c] # accepted[c]
    <3>1. i \in DOMAIN accepted[c] /\ (k \in DOMAIN accepted[c] \/ k = Len(accepted[c]) + 1)
      BY <1>15, <2>2
    <3> QED
      BY <1>4, <1>15, <2>2, <3>1 DEF CaptchaInv, OnceWhileRemembered
  <2> QED
    BY <2>1, <2>2
<1> QED
  BY <1>8, <1>9, <1>10, <1>13, <1>14, <1>16, <1>17 DEF CaptchaInv

-----------------------------------------------------------------------------
LEMMA TickStep ==
  ASSUME CaptchaInv, Tick
  PROVE  CaptchaInv'
<1>1. /\ now \in Nat /\ now' \in 0 .. LastTick /\ now' = now + 1
      /\ UNCHANGED <<deadline, used, accepted, step, proof>>
  BY CaptchaAssumption DEF CaptchaInv, CaptchaTypeOK, Tick
<1>2. CaptchaTypeOK' /\ SolutionsFit' /\ OnceWhileRemembered'
  BY <1>1 DEF CaptchaInv, CaptchaTypeOK, SolutionsFit, OnceWhileRemembered
<1>3. HeldApart'
  BY <1>1 DEF CaptchaInv, HeldApart, Holds
<1>4. ASSUME NEW c \in Challenges, NEW i \in DOMAIN accepted[c], accepted[c][i].expires < now
      PROVE  accepted[c][i].expires < now'
  BY <1>1, <1>4, Expiries DEF CaptchaInv
<1>5. RowsCover'
  BY <1>1, <1>4 DEF CaptchaInv, RowsCover
<1>6. \A c \in Challenges : Forgotten(c) => Forgotten(c)'
  BY <1>1, <1>4 DEF Forgotten
<1>7. Deletes'
  <2>1. \A r \in Requests : proof[r].pruned \subseteq Challenges
    BY DEF CaptchaInv, CaptchaTypeOK, Proof
  <2> QED
    BY <1>1, <1>6, <2>1 DEF CaptchaInv, Deletes
<1>8. Inserts'
  <2> SUFFICES ASSUME NEW r \in Requests, step[r] = "commit", proof[r].first,
                      NEW c, c = proof[r].solution
               PROVE  Forgotten(c)'
    BY <1>1 DEF Inserts, Forgotten
  <2> QED
    BY <1>6 DEF CaptchaInv, Inserts, SolutionsFit
<1> QED
  BY <1>2, <1>3, <1>5, <1>7, <1>8 DEF CaptchaInv

LEMMA CaptchaInitInv == CaptchaInit => CaptchaInv
<1> SUFFICES ASSUME CaptchaInit PROVE CaptchaInv
  OBVIOUS
<1>1. CaptchaTypeOK
  BY NoProofFits, EmptySeq, CaptchaAssumption DEF CaptchaInit, CaptchaTypeOK
<1>2. \A r \in Requests : Holds(r) = {}
  BY NoProofFits DEF CaptchaInit, Holds
<1>3. SolutionsFit /\ HeldApart
  BY <1>2 DEF CaptchaInit, SolutionsFit, HeldApart
<1>4. Deletes /\ Inserts
  BY NoProofFits DEF CaptchaInit, Deletes, Inserts
<1>5. RowsCover /\ OnceWhileRemembered
  BY DEF CaptchaInit, RowsCover, OnceWhileRemembered
<1> QED
  BY <1>1, <1>3, <1>4, <1>5 DEF CaptchaInv

LEMMA CaptchaStepInv == CaptchaInv /\ [CaptchaNext]_captchaVars => CaptchaInv'
<1> SUFFICES ASSUME CaptchaInv, [CaptchaNext]_captchaVars PROVE CaptchaInv'
  OBVIOUS
<1>1. ASSUME UNCHANGED <<now, used, accepted, step, proof>>,
             deadline' \in [Challenges -> Nat \union {None}]
      PROVE  CaptchaInv'
  <2>1. CaptchaTypeOK' /\ SolutionsFit' /\ RowsCover' /\ OnceWhileRemembered'
    BY <1>1 DEF CaptchaInv, CaptchaTypeOK, SolutionsFit, RowsCover, OnceWhileRemembered
  <2>2. HeldApart'
    BY <1>1 DEF CaptchaInv, HeldApart, Holds
  <2>3. Deletes' /\ Inserts'
    BY <1>1 DEF CaptchaInv, Deletes, Inserts, Forgotten
  <2> QED
    BY <2>1, <2>2, <2>3 DEF CaptchaInv
<1>2. CASE UNCHANGED captchaVars
  BY <1>1, <1>2 DEF captchaVars, CaptchaInv, CaptchaTypeOK
<1>3. ASSUME NEW c \in Challenges, Challenge(c) PROVE CaptchaInv'
  <2>1. Seconds(now + TTL) \in Nat /\ deadline \in [Challenges -> Nat \union {None}]
    BY Durations, SMTT(30) DEF CaptchaInv, CaptchaTypeOK
  <2> QED
    BY <1>1, <1>3, <2>1 DEF Challenge
<1>4. CASE CaptchaNext
  BY <1>3, <1>4, VerifyStep, PruneStep, InsertStep, CommitProofStep, AbortStep, TickStep DEF CaptchaNext
<1> QED
  BY <1>2, <1>4

(* "A captcha solution is valid once": for as long as a solution is        *)
(* remembered it is not accepted again, whatever submissions of it are in  *)
(* flight and whoever prunes the table (mark_used, crates/db captcha.rs).  *)
THEOREM OnceWhileRememberedAlways == CaptchaSpec => []OnceWhileRemembered
<1>1. CaptchaInit => CaptchaInv
  BY CaptchaInitInv
<1>2. CaptchaInv /\ [CaptchaNext]_captchaVars => CaptchaInv'
  BY CaptchaStepInv
<1>3. CaptchaInv => OnceWhileRemembered
  BY DEF CaptchaInv
<1> QED
  BY <1>1, <1>2, <1>3, PTL DEF CaptchaSpec
==============================================================================
