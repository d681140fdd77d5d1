---------------------------- MODULE NewsroomProofs ----------------------------
(* Proofs about Newsroom for any wire and any number of deliveries and edits: *)
(* a document is one source, a source one article, which one delivery        *)
(* created, a pair of articles one relation; and deliveries decide nothing.  *)
(*                                                                           *)
(* What keeps two deliveries apart is what they hold (Apart): the row of a   *)
(* source that is there, or the unique key of one that is not.  So what a    *)
(* delivery looked up is still true when it commits (Fits).                  *)
EXTENDS Newsroom, SequenceTheorems, TLAPS

Writing == {"look", "write", "commit"}
SourceRow == [url: Urls, hash: Digests \cup {NoHash}, kind: {"news_rss", "manual"},
              label: Labels \cup {Null}, outlet: Labels \cup {Null}, date: Date]
ItemRow == [source: RowsOf(sources), draft: Summaries \cup {Null},
            summary: Summaries \cup {Null}, embedded: BOOLEAN]
Relation == [a: RowsOf(items), b: RowsOf(items), method: {"embedding", "verified"}]
Steps == {"idle", "touch", "add", "look", "write", "commit", "link", "label"}
KeyOfSource(j) == <<"key", j.url, j.hash>>

(* What a delivery about to take step p, with locals j, holding h, may rely on. *)
Suits(p, j, h) ==
    /\ p # "idle" => j \in Jobs
    /\ p = "label" => j.of \in [what: {"outlet"}, label: Labels]
    /\ p \in {"touch", "add"} => j.of \in Articles \cup BareSources
    /\ p \in Writing \cup {"link"} => j.of \in Articles
    /\ p = "touch" => j.src # 0
    /\ p = "add" => j.src = 0
    /\ p = "link" => j.item # 0
    /\ p \in Writing /\ j.src # 0 => <<"source", j.src>> \in h
    /\ p \in Writing /\ j.src = 0 /\ j.of.hash # NoHash => KeyOfSource(j.of) \in h /\ Document(j.of) = {}
    /\ p \in {"write", "commit"} => (j.existed <=> ItemsOf(j.src) # {})

Fits(d) == Suits(pc[d], job[d], holds[d])
JobsFit == \A d \in Deliveries : Fits(d)
Apart == \A d, e \in Deliveries : d # e => holds[d] \cap holds[e] = {}
(* A relation names the smaller article first, so that a pair has one form.  *)
SmallerFirst == \A r \in related : r.a < r.b

IInv == PressTypeOK /\ JobsFit /\ Apart /\ OneRowEach /\ SmallerFirst

-----------------------------------------------------------------------------
(* Tables that grow.                                                         *)

LEMMA Grown ==
  ASSUME NEW S, NEW s \in Seq(S), NEW x \in S
  PROVE  /\ Append(s, x) \in Seq(S)
         /\ Len(s) \in Nat /\ DOMAIN s = 1 .. Len(s)
         /\ Len(s) + 1 \in Nat /\ Len(s) + 1 # 0 /\ Len(s) + 1 \notin DOMAIN s
         /\ DOMAIN Append(s, x) = DOMAIN s \cup {Len(s) + 1}
         /\ \A i \in DOMAIN s : Append(s, x)[i] = s[i]
         /\ Append(s, x)[Len(s) + 1] = x
<1>1. Len(s) \in Nat /\ DOMAIN s = 1 .. Len(s)
  BY LenProperties
<1>2. /\ Append(s, x) \in Seq(S) /\ Len(Append(s, x)) = Len(s) + 1
      /\ \A i \in 1 .. Len(s) : Append(s, x)[i] = s[i]
      /\ Append(s, x)[Len(s) + 1] = x
  BY AppendProperties
<1>3. DOMAIN Append(s, x) = 1 .. Len(s) + 1
  BY <1>2, LenProperties
<1>4. 1 .. Len(s) + 1 = (1 .. Len(s)) \cup {Len(s) + 1} /\ Len(s) + 1 \notin 1 .. Len(s)
  BY <1>1
<1> QED
  BY <1>1, <1>2, <1>3, <1>4

LEMMA Rows ==
  ASSUME NEW S, NEW s \in Seq(S)
  PROVE  /\ Len(s) \in Nat /\ DOMAIN s = 1 .. Len(s) /\ 0 \notin DOMAIN s
         /\ \A i \in DOMAIN s : s[i] \in S /\ i \in Nat /\ i # 0
BY LenProperties, ElementOfSeq

SourcesKeep ==
    \A i \in RowsOf(sources) :
        /\ i \in RowsOf(sources') /\ sources'[i].url = sources[i].url /\ sources'[i].hash = sources[i].hash
        /\ sources[i].outlet # Null => sources'[i].outlet = sources[i].outlet
ItemsKeep ==
    \A n \in RowsOf(items) : n \in RowsOf(items') /\ items'[n].source = items[n].source

(* A step keeps the rows, and every source with its outlet, once it has one. *)
Onward == IInv' /\ SourcesKeep /\ ItemsKeep

(* What a delivery holds is not what another one adds.                       *)
Spares(e) ==
    /\ SourcesKeep /\ ItemsKeep
    /\ \A i \in RowsOf(sources') \ RowsOf(sources) :
          sources'[i].hash # NoHash => KeyOfSource(sources'[i]) \notin holds[e]
    /\ \A n \in RowsOf(items') \ RowsOf(items) :
          /\ items'[n].source # 0
          /\ items'[n].source \in RowsOf(sources) => <<"source", items'[n].source>> \notin holds[e]

LEMMA TypesGrow ==
  ASSUME RowsOf(sources) \subseteq RowsOf(sources'), RowsOf(items) \subseteq RowsOf(items')
  PROVE  /\ Jobs \subseteq Jobs' /\ Resources \subseteq Resources'
         /\ ItemRow \subseteq ItemRow' /\ Relation \subseteq Relation'
BY DEF Jobs, Resources, ItemRow, Relation, RowsOf

LEMMA Bystander ==
  ASSUME IInv, NEW e \in Deliveries, Spares(e),
         pc'[e] = pc[e], job'[e] = job[e], holds'[e] = holds[e]
  PROVE  Fits(e)'
<1>1. Jobs \subseteq Jobs'
  BY TypesGrow DEF Spares, SourcesKeep, ItemsKeep
<1>2. ASSUME pc[e] \in Writing, job[e].src = 0, job[e].of.hash # NoHash
      PROVE  Document(job[e].of)' = {}
  <2>1. KeyOfSource(job[e].of) \in holds[e] /\ Document(job[e].of) = {}
    BY <1>2 DEF IInv, JobsFit, Fits, Suits
  <2>2. ASSUME NEW i \in RowsOf(sources'), sources'[i].url = job[e].of.url, sources'[i].hash = job[e].of.hash
        PROVE  FALSE
    BY <1>2, <2>1, <2>2 DEF Spares, SourcesKeep, Document, KeyOfSource
  <2> QED
    BY <2>2 DEF Document
<1>3. ASSUME pc[e] \in {"write", "commit"}
      PROVE  ItemsOf(job[e].src)' = ItemsOf(job[e].src)
  <2>1. pc[e] \in Writing /\ job[e] \in Jobs /\ (job[e].src # 0 => <<"source", job[e].src>> \in holds[e])
    BY <1>3 DEF IInv, JobsFit, Fits, Suits, Writing
  <2>2. job[e].src = 0 \/ job[e].src \in RowsOf(sources)
    BY <2>1 DEF Jobs
  <2>3. ASSUME NEW n \in RowsOf(items'), n \notin RowsOf(items) PROVE items'[n].source # job[e].src
    BY <2>1, <2>2, <2>3 DEF Spares
  <2> QED
    BY <2>3, <1>3 DEF ItemsOf, Spares, ItemsKeep
<1> QED
  BY <1>1, <1>2, <1>3 DEF IInv, JobsFit, Fits, Suits

-----------------------------------------------------------------------------
(* Steps that only move a delivery on.                                       *)

(* The slot of a delivery after a step of it.                                *)
Moves(d, p, j, h) ==
    /\ pc' = [pc EXCEPT ![d] = p] /\ job' = [job EXCEPT ![d] = j] /\ holds' = [holds EXCEPT ![d] = h]

LEMMA Moved ==
  ASSUME IInv, NEW d \in Deliveries, NEW p \in Steps, NEW j, NEW h, Moves(d, p, j, h)
  PROVE  /\ pc' \in [Deliveries -> Steps] /\ pc'[d] = p /\ job'[d] = j /\ holds'[d] = h
         /\ \A e \in Deliveries : e # d => /\ pc'[e] = pc[e] /\ job'[e] = job[e]
                                           /\ holds'[e] = holds[e]
         /\ DOMAIN job' = Deliveries /\ DOMAIN holds' = Deliveries
         /\ job' = [e \in Deliveries |-> job'[e]] /\ holds' = [e \in Deliveries |-> holds'[e]]
BY DEF IInv, PressTypeOK, Moves, Steps

(* The types of the slots, when tables may have grown.                       *)
LEMMA MovedTypes ==
  ASSUME IInv, NEW d \in Deliveries, NEW p \in Steps, NEW j, NEW h, Moves(d, p, j, h),
         RowsOf(sources) \subseteq RowsOf(sources'), RowsOf(items) \subseteq RowsOf(items'),
         j = NoJob \/ j \in Jobs', h \subseteq Resources'
  PROVE  /\ pc' \in [Deliveries -> Steps]
         /\ job' \in [Deliveries -> Jobs' \cup {NoJob}]
         /\ holds' \in [Deliveries -> SUBSET Resources']
<1>1. Jobs \subseteq Jobs' /\ Resources \subseteq Resources'
  BY TypesGrow
<1>2. \A e \in Deliveries : job[e] \in Jobs \cup {NoJob} /\ holds[e] \subseteq Resources
  BY DEF IInv, PressTypeOK
<1>3. \A e \in Deliveries : job'[e] \in Jobs' \cup {NoJob}
  BY <1>1, <1>2, Moved
<1>4. \A e \in Deliveries : holds'[e] \subseteq Resources'
  BY <1>1, <1>2, Moved
<1> QED
  BY <1>3, <1>4, Moved

LEMMA MovedApart ==
  ASSUME IInv, NEW d \in Deliveries, NEW p \in Steps, NEW j, NEW h, Moves(d, p, j, h),
         \A r \in h : r \in holds[d] \/ FreeFor(d, r)
  PROVE  Apart'
<1> SUFFICES ASSUME NEW e \in Deliveries, NEW f \in Deliveries, e # f
             PROVE  holds'[e] \cap holds'[f] = {}
  BY DEF Apart
<1>1. holds[e] \cap holds[f] = {}
  BY DEF IInv, Apart
<1>2. CASE e = d
  BY <1>1, <1>2, Moved DEF FreeFor
<1>3. CASE f = d
  BY <1>1, <1>3, Moved DEF FreeFor
<1>4. CASE e # d /\ f # d
  BY <1>1, <1>4, Moved
<1> QED
  BY <1>2, <1>3, <1>4

LEMMA MovedFit ==
  ASSUME IInv, NEW d \in Deliveries, NEW p \in Steps, NEW j, NEW h, Moves(d, p, j, h),
         Suits(p, j, h)', \A e \in Deliveries \ {d} : Spares(e)
  PROVE  JobsFit'
<1> SUFFICES ASSUME NEW e \in Deliveries PROVE Fits(e)'
  BY DEF JobsFit
<1>1. CASE e = d
  BY <1>1, Moved DEF Fits, Suits
<1>2. CASE e # d
  BY <1>2, Moved, Bystander
<1> QED
  BY <1>1, <1>2

LEMMA SameTables ==
  ASSUME UNCHANGED <<sources, items>>
  PROVE  /\ RowsOf(sources) \subseteq RowsOf(sources') /\ RowsOf(items) \subseteq RowsOf(items')
         /\ Jobs' = Jobs /\ Resources' = Resources
         /\ \A e \in Deliveries : Spares(e)
BY DEF RowsOf, Jobs, Resources, Spares, SourcesKeep, ItemsKeep

(* A delivery takes its next step, and no row is added or changes its source.*)
LEMMA SlotStep ==
  ASSUME IInv, UNCHANGED <<sources, items, related, statements, edits, created>>,
         mentions' \subseteq RowsOf(items) \X Named, DOMAIN outlets' \subseteq Labels,
         begun' \in 0 .. MaxDeliveries,
         NEW d \in Deliveries, NEW p \in Steps, NEW j, NEW h, Moves(d, p, j, h),
         j = NoJob \/ j \in Jobs, h \subseteq Resources,
         \A r \in h : r \in holds[d] \/ FreeFor(d, r), Suits(p, j, h)
  PROVE  Onward
<1>1. /\ RowsOf(sources) \subseteq RowsOf(sources') /\ RowsOf(items) \subseteq RowsOf(items')
      /\ Jobs' = Jobs /\ Resources' = Resources
      /\ \A e \in Deliveries : Spares(e)
  BY SameTables
<1>2. /\ pc' \in [Deliveries -> Steps] /\ job' \in [Deliveries -> Jobs \cup {NoJob}]
      /\ holds' \in [Deliveries -> SUBSET Resources]
  BY <1>1, MovedTypes
<1>3. PressTypeOK'
  BY <1>1, <1>2 DEF IInv, PressTypeOK, Steps, RowsOf
<1>4. Suits(p, j, h)'
  BY <1>1 DEF Suits, Document, ItemsOf
<1>5. OneRowEach' /\ SmallerFirst'
  BY DEF IInv, OneRowEach, SmallerFirst
<1>6. SourcesKeep /\ ItemsKeep
  BY DEF SourcesKeep, ItemsKeep, RowsOf
<1> QED
  BY <1>1, <1>3, <1>4, <1>5, <1>6, MovedFit, MovedApart DEF IInv, Onward

LEMMA TablesType ==
  ASSUME IInv, UNCHANGED tables
  PROVE  /\ UNCHANGED <<sources, items, mentions, related, statements, outlets>>
         /\ mentions' \subseteq RowsOf(items) \X Named /\ DOMAIN outlets' \subseteq Labels
BY DEF IInv, PressTypeOK, tables

LEMMA SlotType ==
  ASSUME IInv, NEW d \in Deliveries
  PROVE  /\ pc[d] \in Steps /\ holds[d] \subseteq Resources
         /\ pc[d] # "idle" => /\ job[d] \in Jobs
                              /\ job[d].src \in RowsOf(sources) \cup {0}
                              /\ job[d].item \in RowsOf(items) \cup {0} /\ job[d].existed \in BOOLEAN
         /\ Suits(pc[d], job[d], holds[d])
         /\ begun \in 0 .. MaxDeliveries /\ edits \in 0 .. MaxEdits
         /\ [holds EXCEPT ![d] = holds[d]] = holds /\ [job EXCEPT ![d] = job[d]] = job
BY DEF IInv, PressTypeOK, JobsFit, Fits, Suits, Steps, Jobs

Opened(what, src) == [of |-> what, src |-> src, existed |-> FALSE, item |-> 0]

LEMMA BeginStep ==
  ASSUME IInv, NEW d \in Deliveries, NEW what, NEW src, NEW at, Begin(d, what, src, at),
         UNCHANGED <<sources, items, mentions, related, statements, holds, edits, created>>,
         DOMAIN outlets' \subseteq Labels,
         \/ /\ what \in Articles \cup BareSources
            /\ (at = "add" /\ src = 0) \/ (at = "touch" /\ src \in RowsOf(sources))
         \/ (what \in [what: {"outlet"}, label: Labels] /\ at = "label" /\ src = 0)
  PROVE  Onward
<1> DEFINE j == Opened(what, src)
<1>1. pc' = [pc EXCEPT ![d] = at] /\ job' = [job EXCEPT ![d] = j] /\ begun' = begun + 1 /\ begun < MaxDeliveries
  BY DEF Begin, Opened
<1>2. holds' = [holds EXCEPT ![d] = holds[d]] /\ holds[d] \subseteq Resources
  BY SlotType
<1>3. src \in RowsOf(sources) => src # 0
  BY Rows DEF IInv, PressTypeOK, RowsOf
<1>4. j \in Jobs /\ j.src = src /\ j.of = what
  BY DEF Opened, Jobs
<1>5. begun' \in 0 .. MaxDeliveries
  BY <1>1, SlotType, NewsroomAssumption
<1>6. mentions' \subseteq RowsOf(items) \X Named
  BY DEF IInv, PressTypeOK
<1> HIDE DEF j
<1>7. Suits(at, j, holds[d])
  BY <1>3, <1>4 DEF Suits, Writing
<1>8. at \in Steps /\ Moves(d, at, j, holds[d])
  BY <1>1, <1>2 DEF Steps, Moves
<1> QED
  BY <1>2, <1>4, <1>5, <1>6, <1>7, <1>8, SlotStep

LEMMA FindStep ==
  ASSUME IInv, NEW d \in Deliveries, Find(d)
  PROVE  Onward
<1>1. /\ UNCHANGED <<sources, items, mentions, related, statements, holds, edits, created>>
      /\ DOMAIN outlets' \subseteq Labels
  BY TablesType DEF Find
<1>2. PICK j \in Wire : \/ Document(j) = {} /\ Begin(d, j, 0, "add")
                        \/ \E i \in Document(j) : Begin(d, j, i, "touch")
  BY DEF Find
<1>3. j \in Articles \cup BareSources /\ Document(j) \subseteq RowsOf(sources)
  BY NewsroomAssumption DEF Document
<1> QED
  BY <1>1, <1>2, <1>3, BeginStep

LEMMA DeliverOutletStep ==
  ASSUME IInv, NEW d \in Deliveries, NEW l \in Labels, DeliverOutlet(d, l)
  PROVE  Onward
<1>1. DOMAIN outlets' = DOMAIN outlets \cup {l}
  BY DEF DeliverOutlet, PutOutlet
<1>2. DOMAIN outlets' \subseteq Labels
  BY <1>1 DEF IInv, PressTypeOK
<1>3. [what |-> "outlet", label |-> l] \in [what: {"outlet"}, label: Labels]
  OBVIOUS
<1> QED
  BY <1>2, <1>3, BeginStep DEF DeliverOutlet

(* A request ends, by an answer or before one.                               *)
LEMMA LeaveStep ==
  ASSUME IInv, NEW d \in Deliveries, Leave(d), UNCHANGED <<tables, begun, edits, created>>
  PROVE  Onward
<1>1. Moves(d, "idle", NoJob, {}) /\ "idle" \in Steps
  BY DEF Leave, Moves, Steps
<1>2. Suits("idle", NoJob, {})
  BY DEF Suits, Writing
<1>3. begun' \in 0 .. MaxDeliveries /\ UNCHANGED <<sources, items, related, statements, edits, created>>
  BY TablesType, SlotType
<1> QED
  BY <1>1, <1>2, <1>3, TablesType, SlotStep

LEMMA TouchStep ==
  ASSUME IInv, NEW d \in Deliveries, Touch(d)
  PROVE  Onward
<1> DEFINE j == job[d]
           h == holds[d] \cup {<<"source", j.src>>}
<1>1. /\ j \in Jobs /\ j.of \in Articles \cup BareSources /\ j.src \in RowsOf(sources) /\ j.src # 0
      /\ pc[d] = "touch"
  BY SlotType DEF Touch, Suits
<1>2. CASE j.of.what = "source"
  BY <1>2, LeaveStep DEF Touch
<1>3. CASE j.of.what # "source"
  <2>1. j.of \in Articles
    BY <1>1, <1>3 DEF BareSources
  <2>2. /\ FreeFor(d, <<"source", j.src>>) /\ Moves(d, "look", j, h)
        /\ UNCHANGED <<tables, begun, edits, created>>
    BY <1>3, SlotType DEF Touch, Moves
  <2>3. h \subseteq Resources
    BY <1>1, SlotType DEF Resources
  <2>4. Suits("look", j, h)
    BY <1>1, <2>1 DEF Suits, Writing
  <2>5. \A r \in h : r \in holds[d] \/ FreeFor(d, r)
    BY <2>2
  <2> HIDE DEF h, j
  <2>6. begun' \in 0 .. MaxDeliveries /\ UNCHANGED <<sources, items, related, statements, edits, created>>
    BY <2>2, TablesType, SlotType
  <2> QED
    BY <1>1, <2>2, <2>3, <2>4, <2>5, <2>6, TablesType, SlotStep DEF Steps
<1> QED
  BY <1>2, <1>3

LEMMA LookStep ==
  ASSUME IInv, NEW d \in Deliveries, Look(d)
  PROVE  Onward
<1> DEFINE existed == ItemsOf(job[d].src) # {}
           j == [job[d] EXCEPT !.existed = existed]
<1>1. job[d] \in Jobs /\ Suits("look", job[d], holds[d]) /\ pc[d] = "look" /\ holds[d] \subseteq Resources
  BY SlotType DEF Look
<1>2. existed \in BOOLEAN
  OBVIOUS
<1> HIDE DEF existed
<1>3. j \in Jobs /\ j.of = job[d].of /\ j.src = job[d].src /\ j.existed = existed /\ j.item = job[d].item
  BY <1>1, <1>2 DEF Jobs
<1>4. Moves(d, "write", j, holds[d]) /\ UNCHANGED <<tables, begun, edits, created>>
  BY SlotType DEF Look, Moves, existed
<1> HIDE DEF j
<1>5. Suits("write", j, holds[d])
  BY <1>1, <1>3 DEF Suits, Writing, existed
<1>6. begun' \in 0 .. MaxDeliveries /\ UNCHANGED <<sources, items, related, statements, edits, created>>
  BY <1>4, TablesType, SlotType
<1> QED
  BY <1>1, <1>3, <1>4, <1>5, <1>6, TablesType, SlotStep DEF Steps

LEMMA WriteItemStep ==
  ASSUME IInv, NEW d \in Deliveries, WriteItem(d)
  PROVE  Onward
<1> DEFINE h == holds[d] \cup {<<"item", i>> : i \in {job[d].src} \ {0}}
<1>1. /\ job[d] \in Jobs /\ Suits("write", job[d], holds[d]) /\ pc[d] = "write"
      /\ holds[d] \subseteq Resources /\ job[d].src \in RowsOf(sources) \cup {0}
  BY SlotType DEF WriteItem
<1>2. Moves(d, "commit", job[d], h) /\ UNCHANGED <<tables, begun, edits, created>>
  BY SlotType DEF WriteItem, Moves
<1>3. h \subseteq Resources
  BY <1>1 DEF Resources
<1>4. \A r \in h : r \in holds[d] \/ FreeFor(d, r)
  BY DEF WriteItem
<1>5. Suits("commit", job[d], h)
  BY <1>1 DEF Suits, Writing
<1> HIDE DEF h
<1>6. begun' \in 0 .. MaxDeliveries /\ UNCHANGED <<sources, items, related, statements, edits, created>>
  BY <1>2, TablesType, SlotType
<1> QED
  BY <1>1, <1>2, <1>3, <1>4, <1>5, <1>6, TablesType, SlotStep DEF Steps

LEMMA LinkStep ==
  ASSUME IInv, NEW d \in Deliveries, Link(d)
  PROVE  Onward
<1>1. PICK p \in job[d].of.names :
        /\ mentions' = mentions \cup {<<job[d].item, q>> : q \in {p} \cap Named}
        /\ job' = [job EXCEPT ![d].of.names = @ \ {p}]
  BY DEF Link
<1> DEFINE j == [job[d] EXCEPT !.of.names = @ \ {p}]
<1>2. /\ job[d] \in Jobs /\ job[d].of \in Articles /\ job[d].item \in RowsOf(items) /\ pc[d] = "link"
      /\ holds[d] \subseteq Resources /\ job[d].item # 0
  BY SlotType DEF Link, Suits
<1>3. j.of \in Articles /\ j \in Jobs /\ j.item = job[d].item
  BY <1>2 DEF Articles, Jobs
<1>4. pc' = [pc EXCEPT ![d] = "link"] /\ holds' = [holds EXCEPT ![d] = holds[d]]
  BY <1>2, SlotType DEF Link, IInv, PressTypeOK
<1>5. Moves(d, "link", j, holds[d])
  BY <1>1, <1>4 DEF Moves
<1>6. mentions' \subseteq RowsOf(items) \X Named
  BY <1>1, <1>2 DEF IInv, PressTypeOK
<1> HIDE DEF j
<1>7. Suits("link", j, holds[d])
  BY <1>2, <1>3 DEF Suits, Writing
<1>8. /\ begun' \in 0 .. MaxDeliveries /\ UNCHANGED <<sources, items, related, statements, edits, created>>
      /\ DOMAIN outlets' \subseteq Labels
  BY SlotType DEF Link, IInv, PressTypeOK
<1> QED
  BY <1>2, <1>3, <1>5, <1>6, <1>7, <1>8, SlotStep DEF Steps

-----------------------------------------------------------------------------
(* Steps that write the tables.                                              *)

UniqueSources ==
    \A i, k \in RowsOf(sources) :
        sources[i].url = sources[k].url /\ sources[i].hash = sources[k].hash
            /\ sources[i].hash # NoHash => i = k

LEMMA SourceAdded ==
  ASSUME IInv, NEW s \in SourceRow, sources' = Append(sources, s), s.hash # NoHash => Document(s) = {}
  PROVE  /\ sources' \in Seq(SourceRow) /\ SourcesKeep /\ UniqueSources'
         /\ RowsOf(sources') = RowsOf(sources) \cup {Len(sources) + 1}
         /\ Len(sources) + 1 \notin RowsOf(sources) /\ Len(sources) + 1 # 0
         /\ sources'[Len(sources) + 1] = s
<1>1. sources \in Seq(SourceRow)
  BY DEF IInv, PressTypeOK, SourceRow
<1>2. /\ sources' \in Seq(SourceRow)
      /\ RowsOf(sources') = RowsOf(sources) \cup {Len(sources) + 1}
      /\ Len(sources) + 1 \notin RowsOf(sources) /\ Len(sources) + 1 # 0
      /\ \A i \in RowsOf(sources) : sources'[i] = sources[i]
      /\ sources'[Len(sources) + 1] = s
  BY <1>1, Grown DEF RowsOf
<1>3. UniqueSources'
  <2> SUFFICES ASSUME NEW i \in RowsOf(sources'), NEW k \in RowsOf(sources'),
                      sources'[i].url = sources'[k].url, sources'[i].hash = sources'[k].hash,
                      sources'[i].hash # NoHash
               PROVE  i = k
    BY DEF UniqueSources
  <2>1. CASE i \in RowsOf(sources) /\ k \in RowsOf(sources)
    BY <1>2, <2>1 DEF IInv, OneRowEach
  <2>2. CASE i = Len(sources) + 1 /\ k \in RowsOf(sources)
    BY <1>2, <2>2 DEF Document
  <2>3. CASE k = Len(sources) + 1 /\ i \in RowsOf(sources)
    BY <1>2, <2>3 DEF Document
  <2> QED
    BY <1>2, <2>1, <2>2, <2>3
<1> QED
  BY <1>2, <1>3 DEF SourcesKeep

UniqueItems == \A m, n \in RowsOf(items) : items[m].source = items[n].source => m = n
RelatedOnce ==
    /\ \A r, s \in related : {r.a, r.b} = {s.a, s.b} => r = s
    /\ \A r \in related : r.a # r.b
CreatedOnce == \A k, l \in DOMAIN created : created[k] = created[l] => k = l

LEMMA OneRowParts ==
  /\ OneRowEach <=> UniqueSources /\ UniqueItems /\ RelatedOnce /\ CreatedOnce
  /\ OneRowEach' <=> UniqueSources' /\ UniqueItems' /\ RelatedOnce' /\ CreatedOnce'
BY DEF OneRowEach, UniqueSources, UniqueItems, RelatedOnce, CreatedOnce

(* What a step makes of the tables that it writes.                           *)
Written ==
    /\ sources' \in Seq(SourceRow) /\ SourcesKeep /\ UniqueSources'
    /\ items' \in Seq(ItemRow') /\ ItemsKeep /\ UniqueItems'
    /\ created' \in Seq(RowsOf(items')) /\ CreatedOnce'
    /\ mentions' \subseteq RowsOf(items') \X Named
    /\ related' \subseteq Relation' /\ RelatedOnce' /\ SmallerFirst'
    /\ statements' \subseteq [source: RowsOf(sources'), about: Named]
    /\ DOMAIN outlets' \subseteq Labels
    /\ begun' \in 0 .. MaxDeliveries /\ edits' \in 0 .. MaxEdits

LEMMA RowsGrow ==
  ASSUME SourcesKeep, ItemsKeep
  PROVE  RowsOf(sources) \subseteq RowsOf(sources') /\ RowsOf(items) \subseteq RowsOf(items')
BY DEF SourcesKeep, ItemsKeep

(* What a step leaves alone stays as it was, also where the rows have grown. *)
LEMMA Unwritten ==
  ASSUME IInv, SourcesKeep, ItemsKeep
  PROVE  /\ UNCHANGED items => items' \in Seq(ItemRow') /\ UniqueItems'
         /\ UNCHANGED sources => sources' \in Seq(SourceRow) /\ UniqueSources'
         /\ UNCHANGED created => created' \in Seq(RowsOf(items')) /\ CreatedOnce'
         /\ UNCHANGED mentions => mentions' \subseteq RowsOf(items') \X Named
         /\ UNCHANGED related => related' \subseteq Relation' /\ RelatedOnce' /\ SmallerFirst'
         /\ UNCHANGED statements => statements' \subseteq [source: RowsOf(sources'), about: Named]
         /\ UNCHANGED outlets => DOMAIN outlets' \subseteq Labels
         /\ UNCHANGED begun => begun' \in 0 .. MaxDeliveries
         /\ UNCHANGED edits => edits' \in 0 .. MaxEdits
<1>1. /\ sources \in Seq(SourceRow) /\ items \in Seq(ItemRow) /\ created \in Seq(RowsOf(items))
      /\ mentions \subseteq RowsOf(items) \X Named /\ related \subseteq Relation
      /\ statements \subseteq [source: RowsOf(sources), about: Named]
      /\ DOMAIN outlets \subseteq Labels /\ begun \in 0 .. MaxDeliveries /\ edits \in 0 .. MaxEdits
  BY DEF IInv, PressTypeOK, SourceRow, ItemRow, Relation
<1>2. UniqueSources /\ UniqueItems /\ RelatedOnce /\ CreatedOnce /\ SmallerFirst
  BY OneRowParts DEF IInv
<1>3. /\ RowsOf(sources) \subseteq RowsOf(sources') /\ RowsOf(items) \subseteq RowsOf(items')
      /\ ItemRow \subseteq ItemRow' /\ Relation \subseteq Relation'
  BY RowsGrow, TypesGrow
<1>4. items \in Seq(ItemRow') /\ created \in Seq(RowsOf(items'))
  BY <1>1, <1>3, SeqMonotonic
<1>5. /\ UNCHANGED items => items' \in Seq(ItemRow') /\ UniqueItems'
      /\ UNCHANGED sources => sources' \in Seq(SourceRow) /\ UniqueSources'
      /\ UNCHANGED created => created' \in Seq(RowsOf(items')) /\ CreatedOnce'
  BY <1>1, <1>2, <1>4 DEF UniqueItems, UniqueSources, CreatedOnce
<1>6. /\ UNCHANGED mentions => mentions' \subseteq RowsOf(items') \X Named
      /\ UNCHANGED related => related' \subseteq Relation' /\ RelatedOnce' /\ SmallerFirst'
      /\ UNCHANGED statements => statements' \subseteq [source: RowsOf(sources'), about: Named]
  BY <1>1, <1>2, <1>3 DEF RelatedOnce, SmallerFirst
<1> QED
  BY <1>1, <1>5, <1>6

LEMMA WrittenTypes ==
  ASSUME Written, pc' \in [Deliveries -> Steps],
         job' \in [Deliveries -> Jobs' \cup {NoJob}], holds' \in [Deliveries -> SUBSET Resources']
  PROVE  PressTypeOK' /\ OneRowEach' /\ SmallerFirst'
BY OneRowParts DEF Written, PressTypeOK, Steps, SourceRow, ItemRow, Relation

LEMMA WriteStep ==
  ASSUME IInv, Written, NEW d \in Deliveries, NEW p \in Steps, NEW j, NEW h, Moves(d, p, j, h),
         j = NoJob \/ j \in Jobs', h \subseteq Resources',
         \A r \in h : r \in holds[d] \/ FreeFor(d, r), Suits(p, j, h)',
         \A e \in Deliveries \ {d} : Spares(e)
  PROVE  Onward
<1>1. RowsOf(sources) \subseteq RowsOf(sources') /\ RowsOf(items) \subseteq RowsOf(items')
  BY RowsGrow DEF Written
<1>2. /\ pc' \in [Deliveries -> Steps] /\ job' \in [Deliveries -> Jobs' \cup {NoJob}]
      /\ holds' \in [Deliveries -> SUBSET Resources']
  BY <1>1, MovedTypes
<1>3. PressTypeOK' /\ OneRowEach' /\ SmallerFirst'
  BY <1>2, WrittenTypes
<1>4. SourcesKeep /\ ItemsKeep
  BY DEF Written
<1> QED
  BY <1>3, <1>4, MovedFit, MovedApart DEF IInv, Onward

(* A statement that writes sources alone ends its request.                   *)
LEMMA SourcesStep ==
  ASSUME IInv, NEW d \in Deliveries, Leave(d),
         UNCHANGED <<items, mentions, related, statements, outlets, begun, edits, created>>,
         sources' \in Seq(SourceRow), SourcesKeep, UniqueSources',
         \A e \in Deliveries \ {d} : \A i \in RowsOf(sources') \ RowsOf(sources) :
            sources'[i].hash # NoHash => KeyOfSource(sources'[i]) \notin holds[e]
  PROVE  Onward
<1>1. ItemsKeep /\ \A e \in Deliveries \ {d} : Spares(e)
  BY DEF ItemsKeep, Spares, RowsOf
<1>2. Written
  BY <1>1, Unwritten DEF Written
<1>3. Moves(d, "idle", NoJob, {}) /\ "idle" \in Steps
  BY DEF Leave, Moves, Steps
<1>4. Suits("idle", NoJob, {})'
  BY DEF Suits, Writing
<1> QED
  BY <1>1, <1>2, <1>3, <1>4, WriteStep

LEMMA AddSourceStep ==
  ASSUME IInv, NEW d \in Deliveries, AddSource(d)
  PROVE  Onward
<1> DEFINE j == job[d]
           h == holds[d] \cup {<<"key", j.of.url, x>> : x \in {j.of.hash} \ {NoHash}}
<1>1. /\ j \in Jobs /\ j.of \in Articles \cup BareSources /\ j.src = 0 /\ pc[d] = "add"
      /\ holds[d] \subseteq Resources
      /\ UNCHANGED <<begun, edits, created>>
  BY SlotType DEF AddSource, Suits
<1>2. CASE j.of.hash # NoHash /\ Document(j.of) # {}
  <2>1. Leave(d) /\ UNCHANGED tables
    BY <1>2 DEF AddSource
  <2> QED
    BY <1>1, <2>1, LeaveStep
<1>3. CASE ~(j.of.hash # NoHash /\ Document(j.of) # {})
  <2>1. /\ j.of.hash # NoHash => FreeFor(d, KeyOfSource(j.of))
        /\ UNCHANGED <<items, mentions, related, statements, outlets>>
    BY <1>3 DEF AddSource, KeyOfSource
  <2>2. CASE j.of.what = "source"
    <3> DEFINE s == NewSource(j.of, "manual")
    <3>1. sources' = Append(sources, s) /\ Leave(d)
      BY <1>3, <2>2 DEF AddSource
    <3>2. s \in SourceRow /\ s.url = j.of.url /\ s.hash = j.of.hash
      BY <1>1 DEF NewSource, SourceRow, Articles, BareSources, Date
    <3>3. Document(s) = Document(j.of) /\ KeyOfSource(s) = KeyOfSource(j.of)
      BY <3>2 DEF Document, KeyOfSource
    <3> HIDE DEF s
    <3>4. s.hash # NoHash => Document(s) = {}
      BY <1>3, <3>2, <3>3
    <3>5. /\ sources' \in Seq(SourceRow) /\ SourcesKeep /\ UniqueSources'
          /\ RowsOf(sources') = RowsOf(sources) \cup {Len(sources) + 1}
          /\ sources'[Len(sources) + 1] = s
      BY <3>1, <3>2, <3>4, SourceAdded
    <3>6. ASSUME NEW e \in Deliveries \ {d}, NEW i \in RowsOf(sources') \ RowsOf(sources),
                 sources'[i].hash # NoHash
          PROVE  KeyOfSource(sources'[i]) \notin holds[e]
      BY <2>1, <3>2, <3>3, <3>5, <3>6 DEF FreeFor
    <3> QED
      BY <1>1, <2>1, <3>1, <3>5, <3>6, SourcesStep
  <2>3. CASE j.of.what # "source"
    <3>1. j.of \in Articles
      BY <1>1, <2>3 DEF BareSources
    <3>2. Moves(d, "look", j, h) /\ UNCHANGED sources
      BY <1>3, <2>3, SlotType DEF AddSource, Moves
    <3>3. h \subseteq Resources
      BY <1>1, <3>1 DEF Resources, Articles
    <3>4. \A r \in h : r \in holds[d] \/ FreeFor(d, r)
      BY <2>1 DEF KeyOfSource
    <3>5. Suits("look", j, h)
      BY <1>1, <1>3, <3>1 DEF Suits, Writing, KeyOfSource
    <3> HIDE DEF h, j
    <3>6. /\ begun' \in 0 .. MaxDeliveries /\ UNCHANGED <<sources, items, related, statements, edits, created>>
          /\ mentions' \subseteq RowsOf(items) \X Named /\ DOMAIN outlets' \subseteq Labels
      BY <1>1, <2>1, <3>2, SlotType DEF IInv, PressTypeOK
    <3> QED
      BY <1>1, <3>2, <3>3, <3>4, <3>5, <3>6, SlotStep DEF Steps
  <2> QED
    BY <2>2, <2>3
<1> QED
  BY <1>2, <1>3

LEMMA LinkSourcesStep ==
  ASSUME IInv, NEW d \in Deliveries, LinkSources(d)
  PROVE  Onward
<1> DEFINE l == job[d].of.label
<1>1. l \in Labels /\ Leave(d) /\ UNCHANGED <<items, mentions, related, statements, outlets, begun, edits, created>>
  BY SlotType DEF LinkSources, Suits
<1>2. sources \in Seq(SourceRow)
  BY DEF IInv, PressTypeOK, SourceRow
<1>3. sources' = [i \in RowsOf(sources) |-> IF i \in Unlinked(l)
                                           THEN [sources[i] EXCEPT !.outlet = l] ELSE sources[i]]
  BY DEF LinkSources
<1> HIDE DEF l
<1>4. /\ Len(sources) \in Nat /\ DOMAIN sources = 1 .. Len(sources)
      /\ \A i \in DOMAIN sources : sources[i] \in SourceRow
  BY <1>2, Rows
<1>5. /\ RowsOf(sources') = RowsOf(sources)
      /\ \A i \in RowsOf(sources) : /\ sources'[i] \in SourceRow /\ sources'[i].url = sources[i].url
                                    /\ sources'[i].hash = sources[i].hash
                                    /\ sources[i].outlet # Null => sources'[i].outlet = sources[i].outlet
  BY <1>1, <1>3, <1>4 DEF RowsOf, SourceRow, Unlinked
<1>6. sources' \in [1 .. Len(sources) -> SourceRow]
  BY <1>3, <1>4, <1>5 DEF RowsOf
<1>7. sources' \in Seq(SourceRow)
  BY <1>4, <1>6, SeqDef
<1>8. SourcesKeep /\ UniqueSources'
  BY <1>5, OneRowParts DEF IInv, SourcesKeep, UniqueSources
<1> QED
  BY <1>1, <1>5, <1>7, <1>8, SourcesStep

LEMMA ItemAdded ==
  ASSUME IInv, SourcesKeep, NEW x, x \in ItemRow', ItemsOf(x.source) = {}, items' = Append(items, x)
  PROVE  /\ items' \in Seq(ItemRow') /\ ItemsKeep /\ UniqueItems'
         /\ RowsOf(items') = RowsOf(items) \cup {Len(items) + 1}
         /\ Len(items) + 1 \notin RowsOf(items) /\ Len(items) + 1 # 0
         /\ items'[Len(items) + 1] = x /\ \A n \in RowsOf(items) : items'[n] = items[n]
<1>1. items \in Seq(ItemRow) /\ ItemRow \subseteq ItemRow'
  BY DEF IInv, PressTypeOK, ItemRow, SourcesKeep
<1>2. items \in Seq(ItemRow')
  BY <1>1, SeqMonotonic
<1>3. /\ items' \in Seq(ItemRow')
      /\ RowsOf(items') = RowsOf(items) \cup {Len(items) + 1}
      /\ Len(items) + 1 \notin RowsOf(items) /\ Len(items) + 1 # 0
      /\ \A n \in RowsOf(items) : items'[n] = items[n]
      /\ items'[Len(items) + 1] = x
  BY <1>2, Grown DEF RowsOf
<1>4. UniqueItems'
  <2> SUFFICES ASSUME NEW m \in RowsOf(items'), NEW n \in RowsOf(items'), items'[m].source = items'[n].source
               PROVE  m = n
    BY DEF UniqueItems
  <2>1. CASE m \in RowsOf(items) /\ n \in RowsOf(items)
    BY <1>3, <2>1, OneRowParts DEF IInv, UniqueItems
  <2>2. CASE m = Len(items) + 1 /\ n \in RowsOf(items)
    BY <1>3, <2>2 DEF ItemsOf
  <2>3. CASE n = Len(items) + 1 /\ m \in RowsOf(items)
    BY <1>3, <2>3 DEF ItemsOf
  <2> QED
    BY <1>3, <2>1, <2>2, <2>3
<1> QED
  BY <1>3, <1>4 DEF ItemsKeep

(* Rows that keep their source and get other fields.                         *)
LEMMA ItemsRewritten ==
  ASSUME IInv, SourcesKeep, DOMAIN items' = DOMAIN items, items' = [n \in DOMAIN items |-> items'[n]],
         \A n \in RowsOf(items) : items'[n] \in ItemRow /\ items'[n].source = items[n].source
  PROVE  items' \in Seq(ItemRow') /\ ItemsKeep /\ UniqueItems' /\ RowsOf(items') = RowsOf(items)
<1>1. items \in Seq(ItemRow) /\ ItemRow \subseteq ItemRow'
  BY DEF IInv, PressTypeOK, ItemRow, SourcesKeep, RowsOf
<1>2. Len(items) \in Nat /\ DOMAIN items = 1 .. Len(items)
  BY <1>1, Rows
<1>3. items' \in [1 .. Len(items) -> ItemRow']
  BY <1>1, <1>2 DEF RowsOf
<1>4. items' \in Seq(ItemRow')
  BY <1>2, <1>3, SeqDef
<1>5. ItemsKeep /\ UniqueItems' /\ RowsOf(items') = RowsOf(items)
  BY OneRowParts DEF IInv, ItemsKeep, UniqueItems, RowsOf
<1> QED
  BY <1>4, <1>5

LEMMA ItemType ==
  ASSUME IInv, NEW n \in RowsOf(items)
  PROVE  items[n] \in ItemRow /\ items[n].source \in RowsOf(sources) /\ n \in Nat /\ n # 0
<1>1. items \in Seq(ItemRow)
  BY DEF IInv, PressTypeOK, ItemRow
<1>2. items[n] \in ItemRow /\ n \in Nat /\ n # 0
  BY <1>1, Rows DEF RowsOf
<1> QED
  BY <1>2 DEF ItemRow

(* No source has number 0, and none that is yet to come has an article.      *)
LEMMA NoItemsOf ==
  ASSUME IInv, NEW i, i \notin RowsOf(sources)
  PROVE  ItemsOf(i) = {}
BY ItemType DEF ItemsOf

(* What a commit makes of the source: a new row under the key that was held, *)
(* or other fields of the row that was.                                      *)
LEMMA CommitSource ==
  ASSUME IInv, NEW d \in Deliveries, Commit(d),
         NEW src, src = IF job[d].src = 0 THEN Len(sources) + 1 ELSE job[d].src
  PROVE  /\ sources' \in Seq(SourceRow) /\ SourcesKeep /\ UniqueSources'
         /\ src \in RowsOf(sources') /\ src # 0
         /\ job[d].src # 0 => RowsOf(sources') = RowsOf(sources)
         /\ job[d].src = 0 => /\ RowsOf(sources') = RowsOf(sources) \cup {src} /\ src \notin RowsOf(sources)
                              /\ sources'[src].url = job[d].of.url /\ sources'[src].hash = job[d].of.hash
<1> DEFINE j == job[d]
           s == [NewSource(j.of, "news_rss") EXCEPT !.label = j.of.label, !.date = j.of.date]
<1>1. /\ j \in Jobs /\ j.of \in Articles /\ j.src \in RowsOf(sources) \cup {0}
      /\ j.src = 0 /\ j.of.hash # NoHash => Document(j.of) = {}
  BY SlotType DEF Commit, Suits, Writing
<1>2. sources \in Seq(SourceRow)
  BY DEF IInv, PressTypeOK, SourceRow
<1>3. CASE j.src = 0
  <2>1. sources' = Append(sources, s) /\ src = Len(sources) + 1
    BY <1>3 DEF Commit
  <2>2. s \in SourceRow /\ s.url = j.of.url /\ s.hash = j.of.hash
    BY <1>1 DEF NewSource, SourceRow, Articles, Date
  <2>3. Document(s) = Document(j.of)
    BY <2>2 DEF Document
  <2> HIDE DEF s
  <2>4. s.hash # NoHash => Document(s) = {}
    BY <1>1, <1>3, <2>2, <2>3
  <2> QED
    BY <1>3, <2>1, <2>2, <2>4, SourceAdded
<1>4. CASE j.src # 0
  <2>1. j.src \in RowsOf(sources) /\ src = j.src
    BY <1>1, <1>4
  <2>2. sources' = [sources EXCEPT ![src].label = j.of.label, ![src].date = j.of.date]
    BY <1>4, <2>1 DEF Commit
  <2>3. /\ Len(sources) \in Nat /\ DOMAIN sources = 1 .. Len(sources)
        /\ \A i \in DOMAIN sources : sources[i] \in SourceRow
    BY <1>2, Rows
  <2>4. j.of.label \in Labels /\ j.of.date \in Date
    BY <1>1 DEF Articles
  <2> HIDE DEF j
  <2>5. /\ DOMAIN sources' = DOMAIN sources /\ sources' = [i \in DOMAIN sources |-> sources'[i]]
        /\ \A i \in DOMAIN sources : sources'[i] = IF i = src
             THEN [sources[i] EXCEPT !.label = j.of.label, !.date = j.of.date] ELSE sources[i]
    BY <2>1, <2>2, <2>3 DEF RowsOf
  <2>6. \A i \in DOMAIN sources : /\ sources'[i] \in SourceRow /\ sources'[i].url = sources[i].url
                                  /\ sources'[i].hash = sources[i].hash
                                  /\ sources'[i].outlet = sources[i].outlet
    <3>1. PICK l \in Labels, date \in Date : l = j.of.label /\ date = j.of.date
      BY <2>4
    <3> DEFINE Refiled(x) == [x EXCEPT !.label = l, !.date = date]
    <3>2. ASSUME NEW x \in SourceRow
          PROVE  /\ Refiled(x) \in SourceRow /\ Refiled(x).url = x.url
                 /\ Refiled(x).hash = x.hash /\ Refiled(x).outlet = x.outlet
      BY DEF SourceRow
    <3> SUFFICES ASSUME NEW i \in DOMAIN sources
                 PROVE  /\ sources'[i] \in SourceRow /\ sources'[i].url = sources[i].url
                        /\ sources'[i].hash = sources[i].hash
                        /\ sources'[i].outlet = sources[i].outlet
      OBVIOUS
    <3>3. sources[i] \in SourceRow
      BY <2>3
    <3>4. CASE i = src
      <4>1. sources'[i] = Refiled(sources[i])
        BY <2>5, <3>1, <3>4
      <4> HIDE DEF Refiled
      <4> QED
        BY <3>2, <3>3, <4>1
    <3>5. CASE i # src
      BY <2>5, <3>3, <3>5
    <3> QED
      BY <3>4, <3>5
  <2>7. sources' \in Seq(SourceRow)
    <3>1. sources' \in [1 .. Len(sources) -> SourceRow]
      BY <2>3, <2>5, <2>6
    <3> QED
      BY <2>3, <3>1, SeqDef
  <2>8. SourcesKeep /\ UniqueSources' /\ RowsOf(sources') = RowsOf(sources)
    <3>1. UniqueSources
      BY OneRowParts DEF IInv
    <3>2. RowsOf(sources') = RowsOf(sources) /\ SourcesKeep
      BY <2>5, <2>6 DEF SourcesKeep, RowsOf
    <3> QED
      BY <3>1, <3>2 DEF UniqueSources, SourcesKeep
  <2> QED
    BY <1>4, <2>1, <2>7, <2>8 DEF j
<1> QED
  BY <1>3, <1>4

(* A delivery's article: new under its source, or the one that was there,    *)
(* whose public summary stays, and whose draft is at most replaced.          *)
KeepsDecisions ==
    \A n \in RowsOf(items) : /\ items'[n].summary = items[n].summary
                             /\ items[n].draft # Null => items'[n].draft # Null

LEMMA Redrafting ==
  ASSUME NEW it \in ItemRow, NEW draft \in Summaries \cup {Null}
  PROVE  /\ Redrafted(it, draft) \in ItemRow /\ Redrafted(it, draft).source = it.source
         /\ Redrafted(it, draft).summary = it.summary
         /\ it.draft # Null => Redrafted(it, draft).draft # Null
BY DEF Redrafted, ItemRow

(* The number of the article is that of the source's, or the next.           *)
ItemFor(item, src) ==
    \/ ItemsOf(src) = {} /\ item = Len(items) + 1
    \/ item \in ItemsOf(src)

LEMMA CommitItem ==
  ASSUME IInv, SourcesKeep, NEW src, src \in RowsOf(sources'), NEW item, ItemFor(item, src),
         NEW summary \in Summaries \cup {Null},
         items' = IF item > Len(items) THEN Append(items, NewItem(src, summary, Null))
                  ELSE [items EXCEPT ![item] = Redrafted(items[item], summary)]
  PROVE  /\ items' \in Seq(ItemRow') /\ ItemsKeep /\ UniqueItems' /\ KeepsDecisions
         /\ item \in RowsOf(items') /\ item # 0 /\ RowsOf(items') \subseteq RowsOf(items) \cup {item}
         /\ item \notin RowsOf(items) => items'[item].source = src
         /\ ItemsOf(src) = {} => item \notin RowsOf(items)
<1> DEFINE x == NewItem(src, summary, Null)
<1>3. items \in Seq(ItemRow)
  BY DEF IInv, PressTypeOK, ItemRow
<1>4. Len(items) \in Nat /\ DOMAIN items = 1 .. Len(items)
  BY <1>3, Rows
<1>6. CASE ItemsOf(src) = {}
  <2>1. item = Len(items) + 1 /\ items' = Append(items, x)
    <3>1. item = Len(items) + 1
      BY <1>6 DEF ItemFor
    <3>2. Len(items) + 1 > Len(items)
      BY <1>4
    <3> QED
      BY <3>1, <3>2
  <2>2. x \in ItemRow' /\ x.source = src
    BY DEF NewItem, ItemRow
  <2> HIDE DEF x
  <2>3. /\ items' \in Seq(ItemRow') /\ ItemsKeep /\ UniqueItems'
        /\ RowsOf(items') = RowsOf(items) \cup {item}
        /\ item \notin RowsOf(items) /\ item # 0 /\ items'[item] = x
        /\ \A n \in RowsOf(items) : items'[n] = items[n]
    BY <1>6, <2>1, <2>2, ItemAdded
  <2> QED
    BY <2>2, <2>3 DEF KeepsDecisions
<1>7. CASE ItemsOf(src) # {}
  <2> HIDE DEF x
  <2>1. item \in RowsOf(items)
    BY <1>7 DEF ItemFor, ItemsOf
  <2>2. PICK k \in 1 .. Len(items) : k = item
    BY <1>4, <2>1 DEF RowsOf
  <2>3. items' = [items EXCEPT ![item] = Redrafted(items[item], summary)] /\ item # 0
    <3>1. k # 0 /\ ~(k > Len(items))
      BY <1>4
    <3> QED
      BY <2>2, <3>1
  <2>4. /\ DOMAIN items' = DOMAIN items /\ items' = [n \in DOMAIN items |-> items'[n]]
        /\ \A m \in DOMAIN items : items'[m] = IF m = item THEN Redrafted(items[m], summary) ELSE items[m]
    BY <2>1, <2>3 DEF RowsOf
  <2>5. \A m \in RowsOf(items) : items[m] \in ItemRow
    BY ItemType
  <2>6. \A m \in RowsOf(items) : /\ items'[m] \in ItemRow /\ items'[m].source = items[m].source
                                 /\ items'[m].summary = items[m].summary
                                 /\ items[m].draft # Null => items'[m].draft # Null
    BY <2>4, <2>5, Redrafting DEF RowsOf
  <2>7. items' \in Seq(ItemRow') /\ ItemsKeep /\ UniqueItems' /\ RowsOf(items') = RowsOf(items)
    BY <2>4, <2>6, ItemsRewritten
  <2>8. KeepsDecisions
    BY <2>6 DEF KeepsDecisions
  <2> QED
    BY <1>7, <2>1, <2>3, <2>7, <2>8
<1> QED
  BY <1>6, <1>7

LEMMA CommitStep ==
  ASSUME IInv, NEW d \in Deliveries, Commit(d)
  PROVE  Onward
<1> DEFINE src == IF job[d].src = 0 THEN Len(sources) + 1 ELSE job[d].src
           item == IF ItemsOf(src) = {} THEN Len(items) + 1 ELSE CHOOSE n \in ItemsOf(src) : TRUE
           summary == job[d].of.summary
           locals == [job[d] EXCEPT !.src = src, !.item = item]
<1>1. src = IF job[d].src = 0 THEN Len(sources) + 1 ELSE job[d].src
  OBVIOUS
<1>2. /\ ItemFor(item, src)
      /\ items' = IF item > Len(items) THEN Append(items, NewItem(src, summary, Null))
                  ELSE [items EXCEPT ![item] = Redrafted(items[item], summary)]
      /\ job' = [job EXCEPT ![d].src = src, ![d].item = item]
      /\ created' = IF job[d].existed THEN created ELSE Append(created, item)
      /\ UNCHANGED <<mentions, related, statements, outlets, begun, edits>>
      /\ pc' = [pc EXCEPT ![d] = "link"] /\ holds' = [holds EXCEPT ![d] = {}]
  <2>1. ItemFor(item, src)
    <3>1. ItemsOf(src) # {} => (CHOOSE n \in ItemsOf(src) : TRUE) \in ItemsOf(src)
      OBVIOUS
    <3> QED
      BY <3>1 DEF ItemFor
  <2> QED
    BY <2>1 DEF Commit
<1> HIDE DEF src, item, summary
<1>a. PICK j : j = locals
  OBVIOUS
<1>3. /\ pc[d] = "commit" /\ job[d] \in Jobs /\ job[d].of \in Articles /\ job[d].existed \in BOOLEAN
      /\ job[d].src \in RowsOf(sources) \cup {0}
      /\ job[d].src # 0 => <<"source", job[d].src>> \in holds[d]
      /\ job[d].src = 0 /\ job[d].of.hash # NoHash => KeyOfSource(job[d].of) \in holds[d]
      /\ job[d].existed <=> ItemsOf(job[d].src) # {}
  BY SlotType DEF Commit, Suits, Writing
<1>4. /\ sources' \in Seq(SourceRow) /\ SourcesKeep /\ UniqueSources'
      /\ src \in RowsOf(sources') /\ src # 0
      /\ job[d].src # 0 => RowsOf(sources') = RowsOf(sources)
      /\ job[d].src = 0 => /\ RowsOf(sources') = RowsOf(sources) \cup {src} /\ src \notin RowsOf(sources)
                           /\ sources'[src].url = job[d].of.url /\ sources'[src].hash = job[d].of.hash
  BY <1>1, CommitSource
<1>5. /\ items' \in Seq(ItemRow') /\ ItemsKeep /\ UniqueItems' /\ KeepsDecisions
      /\ item \in RowsOf(items') /\ item # 0 /\ RowsOf(items') \subseteq RowsOf(items) \cup {item}
      /\ item \notin RowsOf(items) => items'[item].source = src
      /\ ItemsOf(src) = {} => item \notin RowsOf(items)
  <2>1. summary \in Summaries \cup {Null}
    BY <1>3 DEF summary, Articles
  <2> QED
    BY <1>2, <1>4, <2>1, CommitItem
<1>6. /\ created' = IF job[d].existed THEN created ELSE Append(created, item)
      /\ UNCHANGED <<mentions, related, statements, outlets, begun, edits>>
      /\ Moves(d, "link", j, {})
  <2>1. job' = [job EXCEPT ![d] = j]
    BY <1>2, <1>a DEF IInv, PressTypeOK
  <2> QED
    BY <1>2, <2>1 DEF Moves
<1>7. j \in Jobs' /\ j.of = job[d].of /\ j.item = item
  BY <1>3, <1>4, <1>5, <1>a DEF Jobs
<1>8. Suits("link", j, {})'
  <2>1. j \in Jobs' /\ j.of \in Articles /\ j.item # 0 /\ Articles' = Articles
    BY <1>3, <1>5, <1>7 DEF Articles, Date
  <2> QED
    BY <2>1 DEF Suits, Writing
<1>9. created' \in Seq(RowsOf(items')) /\ CreatedOnce'
  <2>1. CASE job[d].existed
    BY <1>4, <1>5, <1>6, <2>1, Unwritten
  <2>2. CASE ~job[d].existed
    <3>1. ItemsOf(src) = {}
      BY <1>1, <1>3, <1>4, <2>2, NoItemsOf
    <3>2. created \in Seq(RowsOf(items)) /\ CreatedOnce
      BY OneRowParts DEF IInv, PressTypeOK
    <3>3. \A k \in DOMAIN created : created[k] # item
      BY <1>5, <3>1, <3>2, Rows
    <3>4. created \in Seq(RowsOf(items'))
      BY <1>4, <1>5, <3>2, RowsGrow, SeqMonotonic
    <3>5. /\ created' \in Seq(RowsOf(items'))
          /\ DOMAIN created' = DOMAIN created \cup {Len(created) + 1}
          /\ \A k \in DOMAIN created : created'[k] = created[k]
          /\ created'[Len(created) + 1] = item
      BY <1>5, <1>6, <2>2, <3>4, Grown
    <3> QED
      BY <3>2, <3>3, <3>5 DEF CreatedOnce
  <2> QED
    BY <1>3, <2>1, <2>2
<1>10. Written
  BY <1>4, <1>5, <1>6, <1>9, Unwritten DEF Written
<1>11. ASSUME NEW e \in Deliveries \ {d} PROVE Spares(e)
  <2>1. holds[d] \cap holds[e] = {}
    BY DEF IInv, Apart
  <2>2. ASSUME NEW i \in RowsOf(sources') \ RowsOf(sources), sources'[i].hash # NoHash
        PROVE  KeyOfSource(sources'[i]) \notin holds[e]
    <3>1. job[d].src = 0 /\ i = src
      BY <1>4
    <3>2. KeyOfSource(sources'[i]) = KeyOfSource(job[d].of) /\ job[d].of.hash # NoHash
      BY <1>4, <2>2, <3>1 DEF KeyOfSource
    <3> QED
      BY <1>3, <2>1, <3>1, <3>2
  <2>3. ASSUME NEW n \in RowsOf(items') \ RowsOf(items), items'[n].source \in RowsOf(sources)
        PROVE  <<"source", items'[n].source>> \notin holds[e]
    BY <1>1, <1>3, <1>4, <1>5, <2>1, <2>3
  <2>4. \A n \in RowsOf(items') \ RowsOf(items) : items'[n].source # 0
    BY <1>4, <1>5
  <2> QED
    BY <1>4, <1>5, <2>2, <2>3, <2>4 DEF Spares
<1>12. "link" \in Steps /\ {} \subseteq Resources' /\ \A r \in {} : r \in holds[d] \/ FreeFor(d, r)
  BY DEF Steps
<1> QED
  BY <1>6, <1>7, <1>8, <1>10, <1>11, <1>12, WriteStep

-----------------------------------------------------------------------------
(* The editor's forms move no delivery.                                      *)

AtDesk == UNCHANGED <<pc, job, holds, begun, created>> /\ edits' \in 0 .. MaxEdits

LEMMA DeskWrites ==
  ASSUME IInv, AtDesk, Written, \A e \in Deliveries : Spares(e)
  PROVE  Onward
<1>1. Jobs \subseteq Jobs' /\ Resources \subseteq Resources'
  BY RowsGrow, TypesGrow DEF Written
<1>2. \A e \in Deliveries : job[e] \in Jobs' \cup {NoJob} /\ holds[e] \in SUBSET Resources'
  BY <1>1 DEF IInv, PressTypeOK
<1>3. /\ pc' \in [Deliveries -> Steps] /\ job' \in [Deliveries -> Jobs' \cup {NoJob}]
      /\ holds' \in [Deliveries -> SUBSET Resources']
  BY <1>2 DEF IInv, PressTypeOK, AtDesk, Steps
<1>4. PressTypeOK' /\ OneRowEach' /\ SmallerFirst'
  BY <1>3, WrittenTypes
<1>5. JobsFit'
  BY Bystander DEF JobsFit, AtDesk
<1>6. Apart'
  BY DEF IInv, Apart, AtDesk
<1>7. SourcesKeep /\ ItemsKeep
  BY DEF Written
<1> QED
  BY <1>4, <1>5, <1>6, <1>7 DEF IInv, Onward

(* A form that adds and moves no row.                                        *)
LEMMA SameRows ==
  ASSUME SourcesKeep, ItemsKeep, RowsOf(sources') = RowsOf(sources), RowsOf(items') = RowsOf(items)
  PROVE  \A e \in Deliveries : Spares(e)
BY DEF Spares

LEMMA Unmoved ==
  /\ UNCHANGED sources => SourcesKeep /\ RowsOf(sources') = RowsOf(sources)
  /\ UNCHANGED items => ItemsKeep /\ RowsOf(items') = RowsOf(items)
BY DEF SourcesKeep, ItemsKeep, RowsOf

(* The source of a form has no hash.                                         *)
LEMMA FormSource ==
  ASSUME IInv, NEW s \in SourceRow, s.hash = NoHash, sources' = Append(sources, s)
  PROVE  /\ sources' \in Seq(SourceRow) /\ SourcesKeep /\ UniqueSources'
         /\ RowsOf(sources') = RowsOf(sources) \cup {Len(sources) + 1}
         /\ Len(sources) + 1 \notin RowsOf(sources) /\ Len(sources) + 1 # 0
         /\ \A i \in RowsOf(sources') \ RowsOf(sources) : sources'[i].hash = NoHash
BY SourceAdded

LEMMA CreateNewsStep ==
  ASSUME IInv, AtDesk, NEW f \in ArticleForms, CreateNews(f)
  PROVE  Onward
<1> DEFINE i == Len(sources) + 1
           x == NewItem(i, Null, f.summary)
           s == [NewSource([url |-> f.url, hash |-> NoHash], "news_rss") EXCEPT
                    !.label = f.label, !.date = f.date]
<1>a. s \in SourceRow /\ s.hash = NoHash /\ sources' = Append(sources, s)
  BY DEF CreateNews, NewSource, SourceRow, ArticleForms
<1> HIDE DEF s
<1>1. /\ sources' \in Seq(SourceRow) /\ SourcesKeep /\ UniqueSources'
      /\ RowsOf(sources') = RowsOf(sources) \cup {i}
      /\ i \notin RowsOf(sources) /\ i # 0
      /\ \A k \in RowsOf(sources') \ RowsOf(sources) : sources'[k].hash = NoHash
  BY <1>a, FormSource
<1>2. /\ items' = Append(items, x) /\ mentions' = mentions \cup ({Len(items) + 1} \X f.names)
      /\ UNCHANGED <<related, statements, outlets>>
  BY DEF CreateNews
<1> HIDE DEF i
<1>3. x \in ItemRow' /\ x.source = i /\ ItemsOf(x.source) = {}
  BY <1>1, NoItemsOf DEF NewItem, ItemRow, ArticleForms
<1> HIDE DEF x
<1>4. /\ items' \in Seq(ItemRow') /\ ItemsKeep /\ UniqueItems'
      /\ RowsOf(items') = RowsOf(items) \cup {Len(items) + 1}
      /\ items'[Len(items) + 1] = x
  BY <1>1, <1>2, <1>3, ItemAdded
<1>5. mentions' \subseteq RowsOf(items') \X Named
  BY <1>2, <1>4 DEF IInv, PressTypeOK, ArticleForms
<1>6. Written
  BY <1>1, <1>2, <1>4, <1>5, Unwritten DEF Written, AtDesk
<1>7. ASSUME NEW e \in Deliveries PROVE Spares(e)
  BY <1>1, <1>3, <1>4 DEF Spares
<1> QED
  BY <1>6, <1>7, DeskWrites

LEMMA CreateStatementStep ==
  ASSUME IInv, AtDesk, NEW u \in Urls, NEW p \in Named, CreateStatement(u, p)
  PROVE  Onward
<1> DEFINE i == Len(sources) + 1
           s == NewSource([url |-> u, hash |-> NoHash], "manual")
<1>a. s \in SourceRow /\ s.hash = NoHash /\ sources' = Append(sources, s)
  BY DEF CreateStatement, NewSource, SourceRow, Date
<1> HIDE DEF s
<1>1. /\ sources' \in Seq(SourceRow) /\ SourcesKeep /\ UniqueSources'
      /\ RowsOf(sources') = RowsOf(sources) \cup {i}
      /\ \A k \in RowsOf(sources') \ RowsOf(sources) : sources'[k].hash = NoHash
  BY <1>a, FormSource
<1>2. /\ statements' = statements \cup {[source |-> i, about |-> p]}
      /\ UNCHANGED <<items, mentions, related, outlets>>
  BY DEF CreateStatement
<1> HIDE DEF i
<1>3. statements' \subseteq [source: RowsOf(sources'), about: Named]
  BY <1>1, <1>2 DEF IInv, PressTypeOK
<1>4. Written
  BY <1>1, <1>2, <1>3, Unmoved, Unwritten DEF Written, AtDesk
<1>5. ASSUME NEW e \in Deliveries PROVE Spares(e)
  BY <1>1, <1>2, Unmoved DEF Spares
<1> QED
  BY <1>4, <1>5, DeskWrites

LEMMA RelatedTablesStep ==
  ASSUME IInv, AtDesk, UNCHANGED <<sources, items, statements>>,
         mentions' \subseteq RowsOf(items) \X Named, DOMAIN outlets' \subseteq Labels,
         related' \subseteq Relation, RelatedOnce', SmallerFirst'
  PROVE  Onward
<1>1. /\ SourcesKeep /\ RowsOf(sources') = RowsOf(sources)
      /\ ItemsKeep /\ RowsOf(items') = RowsOf(items)
  BY Unmoved
<1>2. Relation' = Relation
  BY <1>1 DEF Relation
<1>3. Written
  BY <1>1, <1>2, Unwritten DEF Written, AtDesk
<1> QED
  BY <1>1, <1>3, SameRows, DeskWrites

LEMMA SaveOutletStep ==
  ASSUME IInv, AtDesk, NEW l \in Labels, NEW logo, SaveOutlet(l, logo)
  PROVE  Onward
<1>1. /\ DOMAIN outlets' = DOMAIN outlets \cup {l}
      /\ UNCHANGED <<sources, items, mentions, related, statements>>
  BY DEF SaveOutlet, PutOutlet
<1>2. mentions' \subseteq RowsOf(items) \X Named /\ DOMAIN outlets' \subseteq Labels /\ related' \subseteq Relation
  BY <1>1 DEF IInv, PressTypeOK, Relation
<1>3. RelatedOnce' /\ SmallerFirst'
  BY <1>1, OneRowParts DEF IInv, RelatedOnce, SmallerFirst
<1> QED
  BY <1>1, <1>2, <1>3, RelatedTablesStep

LEMMA SetMentionsStep ==
  ASSUME IInv, AtDesk, NEW m, m \subseteq RowsOf(items) \X Named, SetMentions(m)
  PROVE  Onward
<1>1. mentions' = m /\ UNCHANGED <<sources, items, related, statements, outlets>>
  BY DEF SetMentions
<1>2. DOMAIN outlets' \subseteq Labels /\ related' \subseteq Relation
  BY <1>1 DEF IInv, PressTypeOK, Relation
<1>3. RelatedOnce' /\ SmallerFirst'
  BY <1>1, OneRowParts DEF IInv, RelatedOnce, SmallerFirst
<1> QED
  BY <1>1, <1>2, <1>3, RelatedTablesStep

LEMMA LinkRelatedStep ==
  ASSUME IInv, AtDesk, NEW x \in RowsOf(items), NEW y \in RowsOf(items),
         NEW method \in {"embedding", "verified"}, LinkRelated(x, y, method)
  PROVE  Onward
<1>1. x \in Nat /\ y \in Nat /\ x # y
  BY ItemType DEF LinkRelated
<1>2. PICK a \in {x, y}, b \in {x, y} : Pair(x, y) = <<a, b>> /\ a < b
  BY <1>1 DEF Pair
<1>3. /\ related' = {r \in related : <<r.a, r.b>> # <<a, b>>} \cup {[a |-> a, b |-> b, method |-> method]}
      /\ UNCHANGED <<sources, items, mentions, statements, outlets>>
  BY <1>2 DEF LinkRelated
<1>4. /\ related \subseteq Relation /\ mentions' \subseteq RowsOf(items) \X Named
      /\ DOMAIN outlets' \subseteq Labels
  BY <1>3 DEF IInv, PressTypeOK, Relation
<1>5. related' \subseteq Relation
  BY <1>3, <1>4 DEF Relation
<1>6. SmallerFirst'
  BY <1>2, <1>3 DEF IInv, SmallerFirst
<1>7. ASSUME NEW r \in related', NEW s \in related', {r.a, r.b} = {s.a, s.b}
      PROVE  r = s
  <2>1. /\ r.a \in Nat /\ r.b \in Nat /\ r.a < r.b
        /\ s.a \in Nat /\ s.b \in Nat /\ s.a < s.b
    <3>1. r \in Relation /\ s \in Relation
      BY <1>5
    <3>2. r.a \in Nat /\ r.b \in Nat /\ s.a \in Nat /\ s.b \in Nat
      BY <3>1, ItemType DEF Relation
    <3> QED
      BY <1>6, <3>2 DEF SmallerFirst
  <2>2. r.a = s.a /\ r.b = s.b
    BY <1>7, <2>1
  <2>3. CASE <<r.a, r.b>> = <<a, b>>
    BY <1>3, <2>2, <2>3
  <2>4. CASE <<r.a, r.b>> # <<a, b>>
    <3>1. r \in related /\ s \in related
      BY <1>3, <2>2, <2>4
    <3> QED
      BY <1>7, <3>1, OneRowParts DEF IInv, RelatedOnce
  <2> QED
    BY <2>3, <2>4
<1>8. \A r \in related' : r.a # r.b
  <2> SUFFICES ASSUME NEW r \in related' PROVE r.a # r.b
    OBVIOUS
  <2>1. r.a \in Nat /\ r.b \in Nat /\ r.a < r.b
    BY <1>5, <1>6, ItemType DEF Relation, SmallerFirst
  <2> QED
    BY <2>1
<1>9. RelatedOnce'
  BY <1>7, <1>8 DEF RelatedOnce
<1> QED
  BY <1>3, <1>4, <1>5, <1>6, <1>9, RelatedTablesStep

LEMMA ItemFieldsStep ==
  ASSUME IInv, AtDesk, UNCHANGED <<sources, mentions, related, statements, outlets>>,
         DOMAIN items' = DOMAIN items, items' = [n \in DOMAIN items |-> items'[n]],
         \A n \in RowsOf(items) : items'[n] \in ItemRow /\ items'[n].source = items[n].source
  PROVE  Onward
<1>1. SourcesKeep /\ RowsOf(sources') = RowsOf(sources)
  BY Unmoved
<1>2. items' \in Seq(ItemRow') /\ ItemsKeep /\ UniqueItems' /\ RowsOf(items') = RowsOf(items)
  BY <1>1, ItemsRewritten
<1>3. Written
  BY <1>1, <1>2, Unwritten DEF Written, AtDesk
<1> QED
  BY <1>1, <1>2, <1>3, SameRows, DeskWrites

LEMMA EditItemStep ==
  ASSUME IInv, AtDesk, NEW n \in RowsOf(items), NEW it \in ItemRow, it.source = items[n].source,
         EditItem(n, it)
  PROVE  Onward
<1>1. /\ items' = [items EXCEPT ![n] = it]
      /\ UNCHANGED <<sources, mentions, related, statements, outlets>>
  BY DEF EditItem
<1>2. \A m \in RowsOf(items) : items[m] \in ItemRow
  BY ItemType
<1>3. items = [m \in DOMAIN items |-> items[m]]
  <2>1. items \in Seq(ItemRow)
    BY DEF IInv, PressTypeOK, ItemRow
  <2> QED
    BY <2>1
<1>4. /\ DOMAIN items' = DOMAIN items /\ items' = [m \in DOMAIN items |-> items'[m]]
      /\ \A m \in DOMAIN items : items'[m] = IF m = n THEN it ELSE items[m]
  BY <1>1, <1>3 DEF RowsOf
<1>5. \A m \in RowsOf(items) : items'[m] \in ItemRow /\ items'[m].source = items[m].source
  BY <1>2, <1>4 DEF RowsOf
<1> QED
  BY <1>1, <1>4, <1>5, ItemFieldsStep

(* The fields that an editor's form or a pass over the articles sets.        *)
LEMMA EditedItem ==
  ASSUME NEW it \in ItemRow, NEW t \in Summaries \cup {Null}
  PROVE  /\ [it EXCEPT !.summary = t] \in ItemRow /\ [it EXCEPT !.summary = t].source = it.source
         /\ [it EXCEPT !.draft = t] \in ItemRow /\ [it EXCEPT !.draft = t].source = it.source
         /\ [it EXCEPT !.summary = t, !.draft = Null] \in ItemRow
         /\ [it EXCEPT !.summary = t, !.draft = Null].source = it.source
         /\ [it EXCEPT !.embedded = TRUE] \in ItemRow /\ [it EXCEPT !.embedded = TRUE].source = it.source
BY DEF ItemRow

LEMMA SetEmbeddingStep ==
  ASSUME IInv, AtDesk, NEW S, SetEmbedding(S)
  PROVE  Onward
<1>1. /\ items' = [n \in RowsOf(items) |-> IF n \in S THEN [items[n] EXCEPT !.embedded = TRUE] ELSE items[n]]
      /\ UNCHANGED <<sources, mentions, related, statements, outlets>>
  BY DEF SetEmbedding
<1>2. DOMAIN items' = DOMAIN items /\ items' = [n \in DOMAIN items |-> items'[n]]
  BY <1>1 DEF RowsOf
<1>3. ASSUME NEW n \in RowsOf(items)
      PROVE  items'[n] \in ItemRow /\ items'[n].source = items[n].source
  <2>1. items[n] \in ItemRow
    BY ItemType
  <2>2. /\ [items[n] EXCEPT !.embedded = TRUE] \in ItemRow
        /\ [items[n] EXCEPT !.embedded = TRUE].source = items[n].source
    BY <2>1 DEF ItemRow
  <2> QED
    BY <1>1, <2>1, <2>2
<1> QED
  BY <1>1, <1>2, <1>3, ItemFieldsStep

LEMMA DeskStep ==
  ASSUME IInv, Desk
  PROVE  Onward
<1>1. AtDesk
  <2>1. edits \in 0 .. MaxEdits /\ edits < MaxEdits /\ edits' = edits + 1
    BY DEF Desk, IInv, PressTypeOK
  <2>2. edits' \in 0 .. MaxEdits
    BY <2>1, NewsroomAssumption
  <2> QED
    BY <2>2 DEF Desk, AtDesk
<1>2. ASSUME NEW f \in Forms, CreateNews(f)
      PROVE  Onward
  BY <1>1, <1>2, CreateNewsStep, NewsroomAssumption
<1>3. ASSUME NEW u \in Urls, NEW p \in Named, CreateStatement(u, p)
      PROVE  Onward
  BY <1>1, <1>3, CreateStatementStep
<1>4. ASSUME NEW l \in Labels, NEW logo, SaveOutlet(l, logo)
      PROVE  Onward
  BY <1>1, <1>4, SaveOutletStep
<1>5. CASE SetEmbedding(NeedsEmbedding)
  BY <1>1, <1>5, SetEmbeddingStep
<1>6. ASSUME NEW n \in RowsOf(items),
             \/ \E t \in Summaries \cup {Null} : UpdateFields(n, t)
             \/ \E t \in Summaries : PublishSummary(n, t) \/ SetDraft(n, t)
             \/ DiscardDraft(n)
      PROVE  Onward
  <2>1. items[n] \in ItemRow
    BY ItemType
  <2>2. ASSUME NEW t \in Summaries \cup {Null}, UpdateFields(n, t)
        PROVE  Onward
    BY <1>1, <2>1, <2>2, EditedItem, EditItemStep DEF UpdateFields
  <2>3. ASSUME NEW t \in Summaries, PublishSummary(n, t)
        PROVE  Onward
    BY <1>1, <2>1, <2>3, EditedItem, EditItemStep DEF PublishSummary
  <2>4. ASSUME NEW t \in Summaries, SetDraft(n, t)
        PROVE  Onward
    BY <1>1, <2>1, <2>4, EditedItem, EditItemStep DEF SetDraft
  <2>5. CASE DiscardDraft(n)
    BY <1>1, <2>1, <2>5, EditedItem, EditItemStep DEF DiscardDraft
  <2> QED
    BY <1>6, <2>2, <2>3, <2>4, <2>5
<1>7. ASSUME NEW n \in RowsOf(items), NEW p \in Named, LinkPerson(n, p) \/ UnlinkPerson(n, p)
      PROVE  Onward
  <2>1. mentions \cup {<<n, p>>} \subseteq RowsOf(items) \X Named
        /\ mentions \ {<<n, p>>} \subseteq RowsOf(items) \X Named
    BY DEF IInv, PressTypeOK
  <2> QED
    BY <1>1, <1>7, <2>1, SetMentionsStep DEF LinkPerson, UnlinkPerson
<1>8. ASSUME NEW n \in RowsOf(items), NEW y \in RowsOf(items),
             LinkRelated(n, y, "embedding") \/ LinkRelated(n, y, "verified")
      PROVE  Onward
  BY <1>1, <1>8, LinkRelatedStep
<1>9. \A n \in RowsOf(items) : Neighbours(n) \subseteq RowsOf(items)
  BY DEF Neighbours
<1> QED
  BY <1>2, <1>3, <1>4, <1>5, <1>6, <1>7, <1>8, <1>9 DEF Desk

-----------------------------------------------------------------------------
(* The theorems.                                                             *)

LEMMA InitInv == NewsroomInit => IInv
<1> SUFFICES ASSUME NewsroomInit PROVE IInv
  OBVIOUS
<1>1. PressTypeOK
  BY NewsroomAssumption DEF NewsroomInit, PressTypeOK, RowsOf
<1>2. JobsFit
  BY DEF NewsroomInit, JobsFit, Fits, Suits, Writing
<1>3. Apart
  BY DEF NewsroomInit, Apart
<1>4. OneRowEach /\ SmallerFirst
  BY DEF NewsroomInit, OneRowEach, SmallerFirst, RowsOf
<1> QED
  BY <1>1, <1>2, <1>3, <1>4 DEF IInv

LEMMA PressStep == IInv /\ [PressNext]_pressVars => Onward
<1> SUFFICES ASSUME IInv, [PressNext]_pressVars PROVE Onward
  OBVIOUS
<1>1. CASE Desk
  BY <1>1, DeskStep
<1>2. ASSUME NEW d \in Deliveries, Answer(d) \/ Abandon(d) PROVE Onward
  BY <1>2, LeaveStep DEF Answer, Abandon
<1>3. ASSUME NEW d \in Deliveries,
             \/ Find(d) \/ Touch(d) \/ AddSource(d) \/ Look(d) \/ WriteItem(d)
             \/ Commit(d) \/ Link(d) \/ LinkSources(d) \/ \E l \in Labels : DeliverOutlet(d, l)
      PROVE  Onward
  BY <1>3, FindStep, TouchStep, AddSourceStep, LookStep, WriteItemStep, CommitStep, LinkStep,
     LinkSourcesStep, DeliverOutletStep
<1>4. CASE UNCHANGED pressVars
  <2>1. /\ UNCHANGED <<sources, items, mentions, related, statements, outlets>>
        /\ UNCHANGED <<pc, job, holds, begun, edits, created>>
    BY <1>4 DEF pressVars
  <2>2. PressTypeOK'
    BY <2>1 DEF IInv, PressTypeOK, RowsOf, Jobs, Resources
  <2>3. JobsFit' /\ Apart' /\ OneRowEach' /\ SmallerFirst'
    BY <2>1 DEF IInv, JobsFit, Fits, Suits, Document, ItemsOf, Jobs, RowsOf, Apart, OneRowEach, SmallerFirst
  <2>4. SourcesKeep /\ ItemsKeep
    BY <2>1 DEF SourcesKeep, ItemsKeep, RowsOf
  <2> QED
    BY <2>2, <2>3, <2>4 DEF IInv, Onward
<1> QED
  BY <1>1, <1>2, <1>3, <1>4 DEF PressNext

(* A visit of a page writes nothing.                                         *)
LEMMA StepInv == IInv /\ [NewsroomNext]_newsroomVars => IInv'
<1>1. [NewsroomNext]_newsroomVars => [PressNext]_pressVars
  BY DEF NewsroomNext, newsroomVars
<1> QED
  BY <1>1, PressStep DEF Onward

(* However deliveries of the same documents race, and whatever editors do    *)
(* meanwhile, no document with a hash has two sources, no source two         *)
(* articles and no two articles two relations, and no two deliveries are     *)
(* told that they created one article (db/news.rs upsert).                   *)
THEOREM OneRowEachAlways == NewsroomSpec => []OneRowEach
<1>1. IInv => OneRowEach
  BY DEF IInv
<1> QED
  BY <1>1, InitInv, StepInv, PTL DEF NewsroomSpec

LEMMA CommitKeeps ==
  ASSUME IInv, NEW d \in Deliveries, Commit(d)
  PROVE  KeepsDecisions
<1> DEFINE src == IF job[d].src = 0 THEN Len(sources) + 1 ELSE job[d].src
           item == IF ItemsOf(src) = {} THEN Len(items) + 1 ELSE CHOOSE n \in ItemsOf(src) : TRUE
           summary == job[d].of.summary
<1>1. src = IF job[d].src = 0 THEN Len(sources) + 1 ELSE job[d].src
  OBVIOUS
<1>2. ItemFor(item, src)
  <2>1. ItemsOf(src) # {} => (CHOOSE n \in ItemsOf(src) : TRUE) \in ItemsOf(src)
    OBVIOUS
  <2> QED
    BY <2>1 DEF ItemFor
<1>3. items' = IF item > Len(items) THEN Append(items, NewItem(src, summary, Null))
               ELSE [items EXCEPT ![item] = Redrafted(items[item], summary)]
  BY DEF Commit
<1>4. summary \in Summaries \cup {Null}
  BY SlotType DEF Commit, Suits, Writing, Articles
<1> HIDE DEF src, item, summary
<1>5. SourcesKeep /\ src \in RowsOf(sources')
  BY <1>1, CommitSource
<1> QED
  BY <1>2, <1>3, <1>4, <1>5, CommitItem

(* A delivery neither changes an article's public summary nor takes away the *)
(* draft that waits for an editor, also of an article that another delivery  *)
(* wrote since this one began.                                               *)
THEOREM DeliveriesDecideNothingAlways == NewsroomSpec => DeliveriesDecideNothing
<1>1. ASSUME IInv, [NewsroomNext]_newsroomVars, pc' # pc
      PROVE  KeepsDecisions
  <2>1. UNCHANGED items => KeepsDecisions
    BY DEF KeepsDecisions
  <2>2. ASSUME NEW d \in Deliveries, Commit(d)
        PROVE  KeepsDecisions
    BY <1>1, <2>2, CommitKeeps
  <2>3. ASSUME NEW d \in Deliveries,
               \/ Find(d) \/ Touch(d) \/ AddSource(d) \/ Look(d) \/ WriteItem(d)
               \/ Link(d) \/ Answer(d) \/ Abandon(d) \/ LinkSources(d)
               \/ \E l \in Labels : DeliverOutlet(d, l)
        PROVE  UNCHANGED items
    BY <2>3 DEF Find, Touch, AddSource, Look, WriteItem, Link, Answer, Abandon, LinkSources,
       DeliverOutlet, tables
  <2>4. ~Desk
    BY <1>1 DEF Desk
  <2>5. PressNext
    BY <1>1 DEF NewsroomNext, newsroomVars, pressVars
  <2> QED
    BY <1>1, <2>1, <2>2, <2>3, <2>4, <2>5 DEF PressNext
<1>2. IInv /\ [NewsroomNext]_newsroomVars
        => [pc' # pc => \A n \in RowsOf(items) :
                /\ items'[n].summary = items[n].summary
                /\ items[n].draft # Null => items'[n].draft # Null]_newsroomVars
  BY <1>1 DEF KeepsDecisions
<1> QED
  BY <1>2, InitInv, StepInv, PTL DEF NewsroomSpec, DeliveriesDecideNothing
==============================================================================
