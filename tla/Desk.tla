-------------------------------- MODULE Desk --------------------------------
(* The queues an editor decides: summaries proposed for parties and people,  *)
(* translations, reports of errors and conflicts between sources             *)
(* (pages/admin.rs over db/parties.rs, people.rs, translations.rs,           *)
(* corrections.rs, conflicts.rs), the public form that files a report        *)
(* (pages/corrections.rs), and what readers get of it (content.rs).          *)
(*                                                                           *)
(* A queue page that was opened stays open: `forms` holds every form that an *)
(* editor ever saw, to be sent at any time, edited or not.                   *)
(*                                                                           *)
(* A definition named after another with a suffix (CloseTwice, ...) is a     *)
(* mistake one could make there; a property must tell it from the code.      *)
EXTENDS Naturals, Sequences, FiniteSets

CONSTANTS
    Parties, People,   \* whom summaries are proposed for
    Fields,            \* translatable content, a field of an entity in a language
    Texts, Nil,
    Values,            \* claims of a source about one field
    Recorders,         \* cross-checks of the sources
    Reports,           \* what visitors send through the form
    MaxSteps           \* bound on the steps of a behaviour

(* What the form sends is counted in characters; an address on the site      *)
(* begins with a slash.                                                      *)
ASSUME ReportsAssumption ==
    \A r \in Reports :
        /\ r.page \in Nat /\ r.description \in Nat /\ r.source \in Nat /\ r.email \in Nat
        /\ r.sitePath => r.page > 0
ASSUME StepsAssumption == MaxSteps \in Nat

VARIABLES
    bios,              \* [Parties \cup People -> [draft, summary]]
    translations,      \* Seq([field, text, origin, status, reviewed])
    reports,           \* Seq([about, status, note, email])
    conflicts,         \* Seq([value, open])
    recording,         \* the value a recorder found no open conflict about
    forms,             \* {[queue, id, text]}
    publishing,        \* rows whose text is set and that are not published yet
    proposals,         \* history: drafts proposed and published of each bio
    approved,          \* history: <<row, text>> an editor sent
    steps

desk == <<bios, translations, reports, conflicts, recording, forms, publishing,
          proposals, approved>>
deskVars == <<desk, steps>>

Subjects == Parties \cup People
Ids(s) == DOMAIN s
NoteLimit == 1000

DeskTypeOK ==
    /\ bios \in [Subjects -> [draft: Texts \cup {Nil}, summary: Texts \cup {Nil}]]
    /\ translations \in Seq([field: Fields, text: Texts, origin: {"human", "machine"},
                             status: {"draft", "published", "gone"}, reviewed: BOOLEAN])
    /\ \A i \in Ids(reports) :
          /\ reports[i].about \in Reports /\ reports[i].note \in 0..NoteLimit
          /\ reports[i].status \in {"open", "resolved", "rejected"}
    /\ conflicts \in Seq([value: Values, open: BOOLEAN])
    /\ recording \in [Recorders -> Values \cup {Nil}]
    /\ \A f \in forms : f.queue \in {"bios", "people", "translations", "reports", "conflicts"}
    /\ publishing \subseteq Ids(translations)
    /\ steps \in 0..MaxSteps

DeskInit ==
    /\ bios = [x \in Subjects |-> [draft |-> Nil, summary |-> Nil]]
    /\ translations = <<>> /\ reports = <<>> /\ conflicts = <<>>
    /\ recording = [r \in Recorders |-> Nil]
    /\ forms = {} /\ publishing = {}
    /\ proposals = [x \in Subjects |-> [made |-> 0, published |-> 0]]
    /\ approved = {}
    /\ steps = 0

OnlyBios == UNCHANGED <<translations, reports, conflicts, recording, forms, publishing, approved>>
OnlyTranslations == UNCHANGED <<bios, reports, conflicts, recording, forms, proposals>>
OnlyReports ==
    UNCHANGED <<bios, translations, conflicts, recording, forms, publishing, proposals, approved>>
OnlyConflicts == UNCHANGED <<bios, translations, reports, forms, publishing, proposals, approved>>

-----------------------------------------------------------------------------
(* Queue pages: what each of them lists, with the texts its forms carry.     *)

Pending(S) == {x \in S : bios[x].draft # Nil}
Drafts == {i \in Ids(translations) : translations[i].status = "draft"}
OpenReports == {i \in Ids(reports) : reports[i].status = "open"}
OpenConflicts == {i \in Ids(conflicts) : conflicts[i].open}

QueueForms(q) ==
    CASE q = "bios" -> {[queue |-> q, id |-> x, text |-> bios[x].draft] : x \in Pending(Parties)}
      [] q = "people" -> {[queue |-> q, id |-> Nil, text |-> Nil] : x \in Pending(People)}
      [] q = "translations" ->
            {[queue |-> q, id |-> i, text |-> translations[i].text] : i \in Drafts}
      [] q = "reports" -> {[queue |-> q, id |-> i, text |-> Nil] : i \in OpenReports}
      [] q = "conflicts" -> {[queue |-> q, id |-> i, text |-> Nil] : i \in OpenConflicts}

OpenQueue(q) ==
    /\ forms' = forms \cup QueueForms(q)
    /\ UNCHANGED <<bios, translations, reports, conflicts, recording, publishing, proposals,
                   approved>>

-----------------------------------------------------------------------------
(* Summaries.  A party's is decided alone, the people's all at once.         *)

SetSummaryDraft(x, t) ==
    /\ bios' = [bios EXCEPT ![x].draft = t]
    /\ proposals' = [proposals EXCEPT ![x].made = @ + 1]
    /\ OnlyBios

(* The drafts of S go, and their summaries become those of `summary`.        *)
Decide(S, summary) ==
    /\ bios' = [x \in Subjects |-> IF x \in S THEN [draft |-> Nil, summary |-> summary[x]]
                                              ELSE bios[x]]
    /\ proposals' = [x \in Subjects |->
            [proposals[x] EXCEPT !.published = IF x \in S /\ summary[x] # bios[x].summary
                                               THEN @ + 1 ELSE @]]
    /\ OnlyBios
Kept == [x \in Subjects |-> bios[x].summary]
Drafted == [x \in Subjects |-> bios[x].draft]
Edited(t) == [x \in Subjects |-> t]

PublishSummaryTwice(x, t) == Decide({x}, Edited(t))
(* update parties .. where id = $1 and summary_draft is not null             *)
PublishSummaryDraft(x, t) == Decide({x} \cap Pending(Parties), Edited(t))
DiscardSummaryDraft(x) == Decide({x}, Kept)
PublishAllSummaryDrafts == Decide(Pending(People), Drafted)
DiscardAllSummaryDrafts == Decide(Pending(People), Kept)

(* A text left empty discards.                                               *)
BioPublish(f, t) ==
    /\ f.queue = "bios"
    /\ IF t = Nil THEN DiscardSummaryDraft(f.id) ELSE PublishSummaryDraft(f.id, t)
BioDiscard(f) == f.queue = "bios" /\ DiscardSummaryDraft(f.id)
BioPeople(f) == f.queue = "people" /\ (PublishAllSummaryDrafts \/ DiscardAllSummaryDrafts)

-----------------------------------------------------------------------------
(* Translations: one row to a field, whose id is gone once it is discarded.  *)

RowOf(f) == {i \in Ids(translations) :
                translations[i].field = f /\ translations[i].status # "gone"}
SetRows(S, row(_)) == translations' = [i \in Ids(translations) |->
                                          IF i \in S THEN row(translations[i]) ELSE translations[i]]
Live(i) == {i} \ {k \in Ids(translations) : translations[k].status = "gone"}

Upsert(f, t, origin, status) ==
    LET new == [field |-> f, text |-> t, origin |-> origin, status |-> status,
                reviewed |-> FALSE]
    IN  /\ IF RowOf(f) = {} THEN translations' = Append(translations, new)
                            ELSE SetRows(RowOf(f), LAMBDA r : new)
        /\ UNCHANGED <<publishing, approved>>
        /\ OnlyTranslations

Discard(i) ==
    /\ SetRows({i}, LAMBDA r : [r EXCEPT !.status = "gone"])
    /\ UNCHANGED <<publishing, approved>>
    /\ OnlyTranslations

(* The editor's text and the publication are two statements.                 *)
SetText(i, t) ==
    /\ SetRows(Live(i), LAMBDA r : [r EXCEPT !.text = t])
    /\ publishing' = publishing \cup {i}
    /\ approved' = approved \cup {<<i, t>>}
    /\ OnlyTranslations
Publish(i) ==
    /\ i \in publishing
    /\ SetRows(Live(i), LAMBDA r : [r EXCEPT !.status = "published", !.reviewed = TRUE])
    /\ publishing' = publishing \ {i}
    /\ UNCHANGED approved
    /\ OnlyTranslations

TranslationPublish(f, t) ==
    /\ f.queue = "translations"
    /\ IF t = Nil THEN Discard(f.id) ELSE SetText(f.id, t)
TranslationDiscard(f) == f.queue = "translations" /\ Discard(f.id)

(* What a page shows of a field: its published translation, or the original. *)
PublishedRow(f) == {i \in RowOf(f) : translations[i].status = "published"}
Localized(f, original) == IF PublishedRow(f) = {} THEN original
                          ELSE translations[CHOOSE i \in PublishedRow(f) : TRUE].text

-----------------------------------------------------------------------------
(* Reports of errors.  Lengths are characters, 0 an empty or absent field.   *)

Problem(r) ==
    IF ~r.sitePath \/ r.page > 300 THEN "page"
    ELSE IF r.description < 10 THEN "short"
    ELSE IF r.description > 2000 THEN "long"
    ELSE IF r.source > 0 /\ (~r.http \/ r.source > 500) THEN "source"
    ELSE IF r.email > 0 /\ (~r.at \/ r.email > 254) THEN "email"
    ELSE "none"

(* The checks of the table (migrations/0044).                                *)
RowFits(r) ==
    /\ r.page \in 1..300
    /\ r.description \in 10..2000
    /\ r.source > 0 => r.source <= 500 /\ r.http
    /\ r.email <= 254

CreateReport(r) ==
    /\ Problem(r) = "none" /\ r.captcha /\ RowFits(r)
    /\ reports' = Append(reports, [about |-> r, status |-> "open", note |-> 0, email |-> r.email])
    /\ OnlyReports

CloseTwice(i, status, note) ==
    /\ reports' = [reports EXCEPT ![i].status = status, ![i].note = note, ![i].email = 0]
    /\ OnlyReports

(* One update that decides, keeps the note and forgets the address.          *)
Close(i, status, note) ==
    /\ reports' = IF reports[i].status = "open"
                  THEN [reports EXCEPT ![i].status = status, ![i].note = note, ![i].email = 0]
                  ELSE reports
    /\ OnlyReports
CorrectionClose(f, status, note) ==
    /\ f.queue = "reports"
    /\ Close(f.id, status, IF note > NoteLimit THEN NoteLimit ELSE note)

-----------------------------------------------------------------------------
(* Conflicts.  The look and the insert are two statements of a transaction.  *)

FindConflict(r, v) ==
    /\ recording[r] = Nil
    /\ \A i \in OpenConflicts : conflicts[i].value # v
    /\ recording' = [recording EXCEPT ![r] = v]
    /\ UNCHANGED conflicts
    /\ OnlyConflicts
InsertConflict(r) ==
    /\ recording[r] # Nil
    /\ conflicts' = Append(conflicts, [value |-> recording[r], open |-> TRUE])
    /\ recording' = [recording EXCEPT ![r] = Nil]
    /\ OnlyConflicts
ConflictResolve(f) ==
    /\ f.queue = "conflicts"
    /\ conflicts' = [conflicts EXCEPT ![f.id].open = FALSE]
    /\ UNCHANGED recording
    /\ OnlyConflicts

-----------------------------------------------------------------------------
DeskNext ==
    /\ steps < MaxSteps
    /\ steps' = steps + 1
    /\ \/ \E q \in {"bios", "people", "translations", "reports", "conflicts"} : OpenQueue(q)
       \/ \E x \in Subjects, t \in Texts : SetSummaryDraft(x, t)
       \/ \E f \in forms, t \in Texts \cup {Nil} : BioPublish(f, t) \/ TranslationPublish(f, t)
       \/ \E f \in forms : BioDiscard(f) \/ BioPeople(f) \/ TranslationDiscard(f)
       \/ \E i \in publishing : Publish(i)
       \/ \E f \in Fields, t \in Texts, origin \in {"human", "machine"},
             status \in {"draft", "published"} : Upsert(f, t, origin, status)
       \/ \E r \in Reports : CreateReport(r)
       \/ \E f \in forms, status \in {"resolved", "rejected"}, note \in {0, NoteLimit + 1} :
             CorrectionClose(f, status, note)
       \/ \E r \in Recorders, v \in Values : FindConflict(r, v)
       \/ \E r \in Recorders : InsertConflict(r)
       \/ \E f \in forms : ConflictResolve(f)

DeskSpec == DeskInit /\ [][DeskNext]_deskVars

-----------------------------------------------------------------------------
(* Properties.                                                               *)

(* However many editors decide from however old pages, a proposed summary    *)
(* becomes public at most once: a summary never changes without a draft that *)
(* was proposed for it and not decided yet.                                  *)
DraftsDecidedOnce ==
    \A x \in Subjects :
        proposals[x].published + Cardinality({x} \cap Pending(Subjects)) <= proposals[x].made

(* A report the form accepts is one the table accepts, and whose page the    *)
(* queue shows as a link; once closed it keeps its decision and its note,    *)
(* whatever a stale page sends, and its address is forgotten.                *)
ReportsFiledAndClosed ==
    [][/\ \A r \in Reports : Problem(r) = "none" => RowFits(r) /\ r.sitePath
       /\ \A i \in Ids(reports) :
             IF reports[i].status = "open"
             THEN reports'[i] = reports[i] \/ reports'[i].email = 0
             ELSE reports'[i] = reports[i] /\ reports[i].email = 0]_deskVars

(* The comment of migration 0024: a machine translation lands as a draft and *)
(* is shown only after review.  What is public was sent by an editor.        *)
ShownAfterReview ==
    \A f \in Fields : \A i \in PublishedRow(f) :
        translations[i].reviewed => <<i, Localized(f, Nil)>> \in approved

(* The comment of record: an identical unresolved conflict is not stored     *)
(* twice.                                                                    *)
StoredOnce ==
    \A i, k \in OpenConflicts : conflicts[i].value = conflicts[k].value => i = k
=============================================================================
