------------------------------ MODULE Compass -------------------------------
(* The compass: positions (theses), the evidence recorded about who stands   *)
(* where (db/compass.rs, pages/admin.rs), the match of a visitor's answers   *)
(* (domain/compass.rs, pages/compass.rs) and the links that share a match    *)
(* (pages/compass_share.rs).  A result is built from four separate reads,    *)
(* between which editors record and remove evidence.  Contestants are        *)
(* numbers, so that an order of ids is an order of numbers.                  *)
(*                                                                           *)
(* A definition named after another with a suffix (ScoreUnweighted, ...) is  *)
(* a mistake one could make there; a property must tell it from the code.    *)
EXTENDS Lists, Sequences, FiniteSetsExt

CONSTANTS
    About,         \* [theses -> [scope, topic]]
    ScoredParties, ScoredPersons, \* disjoint: who is scored in each scope
    Entries,       \* what editors may file: [thesis, who, kind, stance, date, url];
                   \* date 0 if none
    Published,     \* evidence of the dataset: Entries with source and roll
    Sheets,        \* what visitors post: [scope, answers, place], answers a
                   \* function from some theses to [value, weight]
    Chamber,       \* recorded votes and seats: [linked, votes, held, party, seat, place]
    SlugLength,    \* [ScoredParties -> characters of the slug]
    CountryLength, \* characters of the country's slug
    MaxRows, MaxMerged, MaxTokenLen, \* limits of a share token: 40, 8 and 4096 in the code
    Solid,         \* SOLID_READINGS, 3 in the code
    MaxChanges,    \* bound on what editors and imports do
    MaxVisits      \* bound on the results asked for

VARIABLES
    theses,        \* the positions there are
    evidence,      \* rows of position_evidence
    lastId,
    here,          \* parties and persons of the country
    visit,         \* a result being computed, or NoVisit
    page,          \* the last result rendered
    links,         \* rows of the share links given out
    visits, changes \* how many results were asked for, and changes made

compassVars == <<theses, evidence, lastId, here, visit, page, links, visits, changes>>

Theses == DOMAIN About
RecordedAction == {"bill", "motion", "court", "vote", "law", "decree", "alliance"}
Kinds == {"manifesto", "statement", "bill", "court", "vote", "law", "decree", "alliance"}
Contestants(scope) == IF scope = "party" THEN ScoredParties ELSE ScoredPersons
NoVisit == [at |-> "idle"]
NoPage == [rows |-> <<>>]

(* Stances are checked by the table, values and weights of answers by the    *)
(* form; evidence of the dataset that names a contestant of the other scope  *)
(* is never read; a country has far fewer parties than MAX_ROWS.             *)
ASSUME CompassAssumption ==
    /\ ScoredParties \cup ScoredPersons \subseteq Nat
    /\ IsFiniteSet(ScoredParties) /\ Cardinality(ScoredParties) <= MaxRows
    /\ \A x \in Entries : x.date \in Nat
    /\ \A x \in Published :
         /\ x.thesis \in Theses /\ x.who \in Contestants(About[x.thesis].scope)
         /\ x.stance \in -2..2 /\ x.date \in Nat
    /\ \A sheet \in Sheets : \A t \in DOMAIN sheet.answers :
         sheet.answers[t].value \in -2..2 /\ sheet.answers[t].weight \in 1..2
    /\ IsFiniteSet(Chamber.linked) /\ IsFiniteSet(Chamber.votes)
    /\ IsFiniteSet(DOMAIN Chamber.seat) /\ DOMAIN Chamber.seat \subseteq Nat
    /\ SlugLength \in [ScoredParties -> Nat] /\ CountryLength \in Nat
    /\ {MaxRows, MaxMerged, MaxTokenLen, Solid, MaxChanges, MaxVisits} \subseteq Nat

CompassTypeOK ==
    /\ theses \subseteq Theses /\ here \subseteq ScoredParties \cup ScoredPersons
    /\ lastId \in 0..changes /\ changes \in 0..MaxChanges /\ visits \in 0..MaxVisits
    /\ \A e \in evidence :
        e.id \in 1..lastId /\ e.thesis \in theses /\ e.stance \in -2..2
        /\ e.who \in Contestants(About[e.thesis].scope)
    /\ \A l \in links : \A i \in DOMAIN l : l[i].percent \in 0..100 /\ l[i].matched > 0

-----------------------------------------------------------------------------
(* The pure scorer of domain/compass.rs.                                     *)

AbsDiff(a, b) == IF a > b THEN a - b ELSE b - a
AgreementPoints(answer, stance) == 4 - AbsDiff(answer, stance)

OnAnswered(answers, stances, c) == {s \in stances : s.who = c /\ s.thesis \in DOMAIN answers}

Compared(answers, stances) ==
    {s.who : s \in {s \in stances : s.thesis \in DOMAIN answers}}
Earned(answers, of) ==
    Total([s \in of |-> AgreementPoints(answers[s.thesis].value, s.stance)
                        * answers[s.thesis].weight])
Possible(answers, of) == Total([s \in of |-> 4 * answers[s.thesis].weight])

ScoreUnweighted(answers, stances) ==
    [c \in Compared(answers, stances) |->
        LET of == OnAnswered(answers, stances, c)
        IN [earned |-> Earned(answers, of), possible |-> 4 * Cardinality(of),
            matched |-> Cardinality(of)]]
Score(answers, stances) ==
    [c \in Compared(answers, stances) |->
        LET of == OnAnswered(answers, stances, c)
        IN [earned |-> Earned(answers, of), possible |-> Possible(answers, of),
            matched |-> Cardinality(of)]]

(* Percentages are compared as fractions: small ones differ as floats too.   *)
Compare(x, y) == x.earned * y.possible - y.earned * x.possible
Outranks(x, c, y, d) == Compare(x, y) > 0 \/ (Compare(x, y) = 0 /\ c < d)
Ranked(scores, S) ==
    Listed(S, {x \in S \X S : Outranks(scores[x[1]], x[1], scores[x[2]], x[2])})

(* {:.0} of a percentage: the nearest integer, ties to the even one.         *)
Percent(s) ==
    LET q == (100 * s.earned) \div s.possible
        r == 2 * ((100 * s.earned) % s.possible)
    IN IF r > s.possible \/ (r = s.possible /\ q % 2 = 1) THEN q + 1 ELSE q

(* Identical, non-empty lists of evidence map to the lowest id among them.   *)
Signature(e) == [thesis |-> e.thesis, kind |-> e.kind, stance |-> e.stance,
                 url |-> e.url, date |-> e.date]
Signatures(rows, c) ==
    LET of == {e \in rows : e.who = c} IN
    [s \in {Signature(e) : e \in of} |-> Cardinality({e \in of : Signature(e) = s})]
MergeByTheses(rows) ==
    LET ids == {e.who : e \in rows}
        theses_of(c) == {e.thesis : e \in {e \in rows : e.who = c}} IN
    [c \in ids |-> Min({d \in ids : theses_of(d) = theses_of(c)})]
MergeIdentical(rows) ==
    LET ids == {e.who : e \in rows} IN
    [c \in ids |-> Min({d \in ids : Signatures(rows, d) = Signatures(rows, c)})]

-----------------------------------------------------------------------------
(* What db/compass.rs reads.                                                 *)

OfScope(scope) == {e \in evidence : About[e.thesis].scope = scope}

(* Recorded action, then the most recent (no date last), then the latest.    *)
Stronger(e, f) ==
    LET a == e.kind \in RecordedAction
        b == f.kind \in RecordedAction
    IN \/ a /\ ~b
       \/ a = b /\ (e.date > f.date \/ (e.date = f.date /\ e.id > f.id))
PositionsForCountry(scope) ==
    LET rows == OfScope(scope) IN
    {e \in rows : \A f \in rows :
        f.thesis = e.thesis /\ f.who = e.who /\ f # e => Stronger(e, f)}

(* The majority choice of a party in a roll call; a tie falls either way.    *)
VotesOf(r, q) == {v \in Chamber.votes : v.roll = r /\ Chamber.party[v.person] = q}
SplitOf(r, q, ch) == Cardinality({v \in VotesOf(r, q) : v.choice = ch})
PartyLines ==
    {line \in [{<<v.roll, Chamber.party[v.person]>> : v \in Chamber.votes} -> {"yes", "no"}] :
        \A k \in DOMAIN line : \A ch \in {"yes", "no"} :
            SplitOf(k[1], k[2], line[k]) >= SplitOf(k[1], k[2], ch)}

(* One row per thesis and member, the most recent vote that says something.  *)
Says(l, v, line) ==
    LET q == Chamber.party[v.person] IN
    /\ l.thesis \in theses /\ l.roll = v.roll /\ l[v.choice] \in -2..2
    /\ \/ q = 0
       \/ line[<<v.roll, q>>] # v.choice
       \/ \E e \in evidence : e.thesis = l.thesis /\ e.roll = v.roll /\ e.who = q
MemberStances(line) ==
    LET said == {x \in Chamber.linked \X Chamber.votes : Says(x[1], x[2], line)} IN
    {[thesis |-> x[1].thesis, who |-> x[2].person, stance |-> x[1][x[2].choice]] :
        x \in {x \in said : \A y \in said :
            y[1].thesis = x[1].thesis /\ y[2].person = x[2].person =>
                Chamber.held[y[2].roll] <= Chamber.held[x[2].roll]}}

-----------------------------------------------------------------------------
(* The admin desk and the import.                                            *)

(* The bound of an instance on changes.                                      *)
Edit == changes < MaxChanges /\ changes' = changes + 1

Row(x, id, source, roll) ==
    [thesis |-> x.thesis, who |-> x.who, kind |-> x.kind, stance |-> x.stance, date |-> x.date,
     url |-> x.url, id |-> id, source |-> source, roll |-> roll]

EvidenceAddUnchecked(x) ==
    /\ x.thesis \in theses /\ Edit
    /\ lastId' = lastId + 1
    /\ evidence' = evidence \cup {Row(x, lastId', "manual", "none")}
    /\ UNCHANGED <<theses, here, visit, page, links, visits>>

(* Each entry brings a source row of its own, so it never meets another; the *)
(* contestant may be one of another country.                                 *)
EvidenceAdd(x) ==
    /\ x.thesis \in theses /\ x.url # "" /\ x.stance \in -2..2 /\ x.kind \in Kinds
    /\ x.who \in Contestants(About[x.thesis].scope)
    /\ lastId' = lastId + 1 /\ Edit
    /\ evidence' = evidence \cup {Row(x, lastId', "manual", "none")}
    /\ UNCHANGED <<theses, here, visit, page, links, visits>>

EvidenceDelete(e) ==
    /\ e \in evidence /\ evidence' = evidence \ {e} /\ Edit
    /\ UNCHANGED <<theses, lastId, here, visit, page, links, visits>>

(* Deleting a position deletes what was recorded about it.                   *)
ThesisDelete(t) ==
    /\ t \in theses /\ theses' = theses \ {t} /\ Edit
    /\ evidence' = {e \in evidence : e.thesis # t}
    /\ UNCHANGED <<lastId, here, visit, page, links, visits>>

(* A position of the same text is a new row without evidence.                *)
ThesisCreate(t) ==
    /\ t \in Theses \ theses /\ theses' = theses \cup {t} /\ Edit
    /\ UNCHANGED <<evidence, lastId, here, visit, page, links, visits>>

(* The dataset loads again: its evidence is found by contestant, kind and    *)
(* source, and replaced or filed anew.                                       *)
EvidenceImport(x) ==
    LET same == {e \in evidence : e.thesis = x.thesis /\ e.who = x.who
                                  /\ e.kind = x.kind /\ e.source = x.source}
        id == IF same = {} THEN lastId + 1 ELSE Min({e.id : e \in same})
    IN /\ x.thesis \in theses /\ Edit
       /\ evidence' = (evidence \ same) \cup {Row(x, id, x.source, x.roll)}
       /\ lastId' = IF id > lastId THEN id ELSE lastId
       /\ UNCHANGED <<theses, here, visit, page, links, visits>>

(* The dataset puts a party under another country.                           *)
PartyMoves(c) ==
    /\ c \in here \cap ScoredParties /\ here' = here \ {c} /\ Edit
    /\ UNCHANGED <<theses, evidence, lastId, visit, page, links, visits>>

-----------------------------------------------------------------------------
(* result_scoped: theses, positions, evidence and contestants are read one   *)
(* after the other, then everything is computed and rendered.                *)

ReadTheses(sheet) ==
    /\ visit = NoVisit /\ visits < MaxVisits /\ visits' = visits + 1
    /\ visit' = [at |-> "positions", sheet |-> sheet,
                 theses |-> {t \in theses : About[t].scope = sheet.scope}]
    /\ UNCHANGED <<theses, evidence, lastId, here, page, links, changes>>

ReadPositions ==
    /\ visit.at = "positions"
    /\ visit' = [at |-> "evidence", sheet |-> visit.sheet, theses |-> visit.theses,
                 positions |-> PositionsForCountry(visit.sheet.scope)]
    /\ UNCHANGED <<theses, evidence, lastId, here, page, links, visits, changes>>

ReadEvidence ==
    /\ visit.at = "evidence"
    /\ visit' = [at |-> "render", sheet |-> visit.sheet, theses |-> visit.theses,
                 positions |-> visit.positions, evidence |-> OfScope(visit.sheet.scope)]
    /\ UNCHANGED <<theses, evidence, lastId, here, page, links, visits, changes>>

(* A person is read as a contestant only with evidence on a candidate thesis. *)
ById(scope) ==
    IF scope = "party" THEN here \cap ScoredParties
    ELSE {c \in here \cap ScoredPersons : \E e \in OfScope(scope) : e.who = c}

(* A row: the contestant it is scored under, and whoever is folded into it.  *)
ResultRowsOf(scores, stand, known) ==
    LET row(c) == [who |-> c, percent |-> Percent(scores[c]), matched |-> scores[c].matched,
                   also |-> {d \in known \cap DOMAIN stand : d # c /\ stand[d] = c}]
        shown == Ranked(scores, known \cap DOMAIN scores)
    IN [i \in DOMAIN shown |-> row(shown[i])]

(* Who is closest on each topic, when there are two topics to tell apart.    *)
TopicSection(answers, stances) ==
    LET on(p) == [t \in {t \in DOMAIN answers : About[t].topic = p} |-> answers[t]]
        best(sc) == {c \in DOMAIN sc : \A d \in DOMAIN sc : Compare(sc[c], sc[d]) >= 0}
        topics == {p \in {About[t].topic : t \in DOMAIN answers} \ {"none"} :
                    DOMAIN Score(on(p), stances) # {}}
    IN IF Cardinality(topics) < 2 THEN <<>>
       ELSE [p \in topics |-> best(Score(on(p), stances))]

(* The members of a place: those elected there, the list of its region, and  *)
(* how many have no vote to read.  Thin records follow the others.           *)
LocalMembers(place, answers, stances) ==
    LET seats == Chamber.place[place]
        members == {m \in DOMAIN Chamber.seat :
                        Chamber.seat[m] \in {seats.district, seats.region}}
        sc == Score(answers, {s \in stances : s.who \in members})
        firm == {c \in DOMAIN sc : sc[c].matched >= Solid}
        direct == {c \in DOMAIN sc : Chamber.seat[c] = seats.district}
        sorted(S) == Ranked(sc, S \cap firm) \o Ranked(sc, S \ firm)
    IN [direct |-> sorted(direct), list |-> sorted(DOMAIN sc \ direct),
        unread |-> Cardinality(members) - Cardinality(DOMAIN sc)]

Render ==
    /\ visit.at = "render"
    /\ \E line \in PartyLines :
        LET scope == visit.sheet.scope
            answers == [t \in visit.theses \cap DOMAIN visit.sheet.answers |->
                            visit.sheet.answers[t]]
            stand == MergeIdentical(visit.evidence)
            stances == {p \in visit.positions : p.who \in DOMAIN stand /\ stand[p.who] = p.who}
            scores == Score(answers, stances)
            known == ById(scope)
            rows == ResultRowsOf(scores, stand, known)
            read == MemberStances(line)
        IN /\ page' = [visit |-> visit, known |-> known, answers |-> answers, rows |-> rows,
                       topics |-> TopicSection(answers, stances),
                       members |->
                           IF scope = "party" /\ answers # <<>> /\ read # {}
                              /\ visit.sheet.place # "none"
                           THEN LocalMembers(visit.sheet.place, answers, read) ELSE <<>>]
           /\ links' = IF scope = "party" /\ scores # <<>> THEN links \cup {rows} ELSE links
    /\ visit' = NoVisit
    /\ UNCHANGED <<theses, evidence, lastId, here, visits, changes>>

-----------------------------------------------------------------------------
(* A link: its token is the rows in JSON, {"c":"tr","r":[["a+b",50,3],...],   *)
(* "t":1750000000,"v":1}, in base64url without padding, a dot and the tag of *)
(* 16 bytes in base64url.  What is counted is below a thousand.              *)

Digits(n) == IF n < 10 THEN 1 ELSE IF n < 100 THEN 2 ELSE 3
RowLength(r) ==
    Total([c \in {r.who} \cup r.also |-> SlugLength[c] + 1])
        + 5 + Digits(r.percent) + Digits(r.matched)
Base64Length(bytes) == (4 * bytes + 2) \div 3
TokenOf(payload) == Base64Length(payload) + 1 + 22
TokenLength(rows) ==
    TokenOf(35 + CountryLength
            + IF rows = <<>> THEN 1 ELSE Total([i \in DOMAIN rows |-> RowLength(rows[i]) + 1]))

(* Opening it: decode checks its limits, then each party is looked up again; *)
(* those gone drop out of their row, and an empty row out of the page.        *)
Decodes(rows) ==
    /\ TokenLength(rows) <= MaxTokenLen /\ Len(rows) <= MaxRows
    /\ \A i \in DOMAIN rows : rows[i].percent <= 100 /\ Cardinality(rows[i].also) < MaxMerged
Shared(rows) ==
    LET named(i) == ({rows[i].who} \cup rows[i].also) \cap here
        kept == {i \in DOMAIN rows : named(i) # {}}
        at == Listed(kept, {x \in kept \X kept : x[1] < x[2]})
    IN [k \in DOMAIN at |-> [names |-> named(at[k]), percent |-> rows[at[k]].percent,
                             matched |-> rows[at[k]].matched]]

CompassInit ==
    /\ theses = Theses /\ here = ScoredParties \cup ScoredPersons /\ evidence = {} /\ lastId = 0
    /\ visit = NoVisit /\ page = NoPage /\ links = {} /\ visits = 0 /\ changes = 0

CompassNext ==
    \/ \E x \in Entries : EvidenceAdd(x)
    \/ \E e \in evidence : EvidenceDelete(e)
    \/ \E t \in Theses : ThesisDelete(t) \/ ThesisCreate(t)
    \/ \E x \in Published : EvidenceImport(x)
    \/ \E c \in ScoredParties : PartyMoves(c)
    \/ \E s \in Sheets : ReadTheses(s)
    \/ ReadPositions \/ ReadEvidence \/ Render

CompassSpec == CompassInit /\ [][CompassNext]_compassVars

-----------------------------------------------------------------------------
SameEvidence(c, d) == Signatures(page.visit.evidence, c) = Signatures(page.visit.evidence, d)

(* Contestants who rest on the same evidence are one measurement             *)
(* (result_scoped, merge_identical): whatever is filed, removed or loaded    *)
(* between the reads of a result, no contestant and no member appears in two *)
(* places of it, a row folds in only those with the evidence of its          *)
(* contestant, and no one is left out whose evidence was read, unless the    *)
(* one it is folded under was recorded after the positions were read.        *)
MeasuredOnce ==
    page # NoPage =>
    LET rows == page.rows
        named(i) == {rows[i].who} \cup rows[i].also
    IN /\ \A i, j \in DOMAIN rows : i # j => named(i) \cap named(j) = {}
       /\ \A i \in DOMAIN rows : \A c \in rows[i].also :
            SameEvidence(c, rows[i].who)
       /\ \A p, q \in page.visit.positions :
            /\ p.thesis \in DOMAIN page.answers /\ {p.who, q.who} \subseteq page.known
            /\ \E e \in page.visit.evidence : e.who = p.who
            /\ SameEvidence(p.who, q.who) /\ p.who = MergeIdentical(page.visit.evidence)[p.who]
            => \E i \in DOMAIN rows : rows[i].who = p.who /\ q.who \in named(i)
       /\ page.members # <<>> =>
            LET m == page.members
                met == m.direct \o m.list
            IN /\ \A i, j \in DOMAIN met : met[i] = met[j] => i = j
               /\ Len(met) + m.unread = Cardinality({x \in DOMAIN Chamber.seat :
                    Chamber.seat[x] \in {Chamber.place[page.visit.sheet.place].district,
                                         Chamber.place[page.visit.sheet.place].region}})

TooMerged(l) == \E i \in DOMAIN l : Cardinality(l[i].also) >= MaxMerged
LongestToken == TokenOf(36 + CountryLength + Total([c \in ScoredParties |-> SlugLength[c] + 13]))

(* A percentage is a mean (score): it lies between the agreement on the      *)
(* position closest to the visitor and on the one furthest from him, and     *)
(* counts only positions he answered.  encode has no limit and decode has:   *)
(* a link does not open when so many parties share their evidence that a     *)
(* row names more than MAX_MERGED or when the slugs make the token longer    *)
(* than MAX_TOKEN_LEN, and it opens otherwise.  No result, however its rows  *)
(* are merged, makes a token longer than the parties of the country with a   *)
(* row each would.  The page a link opens neither rises from one row to the  *)
(* next nor names a party twice, whoever has gone since.                     *)
PercentIsMean ==
    /\ page # NoPage => \A i \in DOMAIN page.rows :
        LET r == page.rows[i]
            on == OnAnswered(page.answers, page.visit.positions, r.who)
            points == {25 * AgreementPoints(page.answers[p.thesis].value, p.stance) : p \in on}
        IN /\ r.matched = Cardinality({p.thesis : p \in on})
           /\ r.percent \in Min(points)..Max(points)
    /\ \A l \in links :
        /\ Decodes(l) <=> ~TooMerged(l) /\ TokenLength(l) <= MaxTokenLen
        /\ TokenLength(l) <= LongestToken
        /\ \A i, j \in DOMAIN Shared(l) :
             i < j => /\ Shared(l)[i].percent >= Shared(l)[j].percent
                      /\ Shared(l)[i].names \cap Shared(l)[j].names = {}

=============================================================================
