------------------------------ MODULE Newsroom ------------------------------
(* How articles, outlets and statements enter the record: the deliveries of  *)
(* the ingest API (server/api.rs), which race one another statement by       *)
(* statement, the editor's forms (pages/admin.rs), and what the public pages *)
(* of outlets and news read back.                                            *)
(*                                                                           *)
(* Every statement of a delivery is an action.  A transaction's writes stay  *)
(* in its `job` until it commits; `holds` are the rows and unique keys it    *)
(* has written, on which the writes of others wait.  An id is a position.    *)
(*                                                                           *)
(* A definition named after another with a suffix (TouchUnlocked, ...) is a  *)
(* mistake one could make there; a property must tell it from the code.      *)
EXTENDS Naturals, Sequences, SequencesExt, Lists

CONSTANTS
    Urls,        \* addresses of articles
    Digests,     \* content hashes a delivery may carry
    NoHash,      \* a delivery without one: SQL null, equal to no other null
    Labels,      \* names of outlets, which are also their slugs
    Named,       \* people and parties of the country that an article names
    Summaries,   \* summaries
    Null,        \* no summary, no outlet, no logo
    Wire,        \* what the pipeline may deliver: articles and bare sources
    Forms,       \* what editors may enter as an article
    Deliveries,  \* slots for requests to the ingest API
    PerPage,     \* articles on a page of an outlet, 20 in the code
    MaxSources,  \* bound on the sources of an instance
    MaxDeliveries, MaxEdits  \* bounds on the requests and on the editors' steps

VARIABLES
    sources,     \* Seq([url, hash, kind, label, outlet, date])
    items,       \* news_items: Seq([source, draft, summary, embedded])
    mentions,    \* news_item_people and news_item_parties: {<<item, name>>}
    related,     \* news_related: {[a, b, method]}
    statements,  \* {[source, about]}
    outlets,     \* slugs of the outlets, to their logo
    pc, job, holds,
    begun, edits, \* how many requests began, how many steps editors took
    created,     \* history: the items that deliveries were told they created
    browsing     \* a visit of an outlet's page, between its two reads and after

tables == <<sources, items, mentions, related, statements, outlets>>
pressVars == <<sources, items, mentions, related, statements, outlets, pc, job, holds, begun,
               edits, created>>
newsroomVars == <<pressVars, browsing>>

Date == 0..1                       \* 0 is an unknown date
NoJob == [what |-> "none"]
NotBrowsing == [at |-> "idle"]
RowsOf(s) == DOMAIN s

Articles == [what: {"news"}, url: Urls, hash: Digests \cup {NoHash}, label: Labels, date: Date,
             summary: Summaries \cup {Null}, names: SUBSET (Named \cup {"nobody"})]
ArticleForms == [url: Urls, label: Labels \cup {Null}, date: Date,
                 summary: Summaries \cup {Null}, names: (SUBSET Named) \ {{}}]
BareSources == [what: {"source"}, url: Urls, hash: Digests \cup {NoHash}]
Jobs == [of: Articles \cup BareSources \cup [what: {"outlet"}, label: Labels],
         src: RowsOf(sources) \cup {0}, existed: BOOLEAN, item: RowsOf(items) \cup {0}]

Resources == ({"source", "item"} \X RowsOf(sources)) \cup ({"key"} \X Urls \X Digests)

(* The constants the code justifies.                                         *)
ASSUME NewsroomAssumption ==
    /\ Wire \subseteq Articles \cup BareSources
    /\ Forms \subseteq ArticleForms /\ Null \notin Labels
    /\ PerPage \in Nat \ {0} /\ {MaxDeliveries, MaxEdits} \subseteq Nat

PressTypeOK ==
    /\ sources \in Seq([url: Urls, hash: Digests \cup {NoHash}, kind: {"news_rss", "manual"},
                        label: Labels \cup {Null}, outlet: Labels \cup {Null}, date: Date])
    /\ items \in Seq([source: RowsOf(sources), draft: Summaries \cup {Null},
                      summary: Summaries \cup {Null}, embedded: BOOLEAN])
    /\ mentions \subseteq RowsOf(items) \X Named
    /\ related \subseteq [a: RowsOf(items), b: RowsOf(items), method: {"embedding", "verified"}]
    /\ statements \subseteq [source: RowsOf(sources), about: Named]
    /\ DOMAIN outlets \subseteq Labels
    /\ pc \in [Deliveries -> {"idle", "touch", "add", "look", "write", "commit",
                              "link", "label"}]
    /\ job \in [Deliveries -> Jobs \cup {NoJob}]
    /\ holds \in [Deliveries -> SUBSET Resources]
    /\ begun \in 0..MaxDeliveries /\ edits \in 0..MaxEdits
    /\ created \in Seq(RowsOf(items))

BrowsingTypeOK ==
    browsing \in {NotBrowsing} \cup [at: {"counted", "shown"}, label: Labels, count: Nat,
                                  current: Nat \ {0}, shown: Seq(RowsOf(items))]

NewsroomTypeOK == PressTypeOK /\ BrowsingTypeOK

NewsroomInit ==
    /\ sources = <<>> /\ items = <<>>
    /\ mentions = {} /\ related = {} /\ statements = {}
    /\ outlets = [l \in {} |-> Null]
    /\ pc = [d \in Deliveries |-> "idle"]
    /\ job = [d \in Deliveries |-> NoJob]
    /\ holds = [d \in Deliveries |-> {}]
    /\ begun = 0 /\ edits = 0
    /\ created = <<>>
    /\ browsing = NotBrowsing

-----------------------------------------------------------------------------
(* Locks.                                                                    *)

Free(r) == \A d \in Deliveries : r \notin holds[d]
FreeFor(d, r) == \A e \in Deliveries \ {d} : r \notin holds[e]
Open == {d \in Deliveries : pc[d] \in {"look", "write", "commit"}}
Room == Len(sources) + Cardinality({d \in Open : job[d].src = 0}) < MaxSources

-----------------------------------------------------------------------------
(* A delivery of an article: db/news.rs upsert, then its links.              *)

Document(j) == {i \in RowsOf(sources) : sources[i].url = j.url /\ sources[i].hash = j.hash}

Begin(d, what, src, at) ==
    /\ pc[d] = "idle"
    /\ begun < MaxDeliveries
    /\ begun' = begun + 1
    /\ job' = [job EXCEPT ![d] = [of |-> what, src |-> src, existed |-> FALSE, item |-> 0]]
    /\ pc' = [pc EXCEPT ![d] = at]

(* A request arrives and looks for its source: the url with the same hash,   *)
(* where no hash is the same as no hash.                                     *)
Find(d) ==
    /\ \E j \in Wire :
          \/ Document(j) = {} /\ Begin(d, j, 0, "add")
          \/ \E i \in Document(j) : Begin(d, j, i, "touch")
    /\ UNCHANGED <<tables, holds, edits, created>>

Leave(d) ==
    /\ pc' = [pc EXCEPT ![d] = "idle"]
    /\ job' = [job EXCEPT ![d] = NoJob]
    /\ holds' = [holds EXCEPT ![d] = {}]

TouchUnlocked(d) ==
    /\ pc[d] = "touch"
    /\ IF job[d].of.what = "source" THEN Leave(d)
       ELSE pc' = [pc EXCEPT ![d] = "look"] /\ UNCHANGED <<job, holds>>
    /\ UNCHANGED <<tables, begun, edits, created>>

(* The update of a source that exists.  A bare source is one statement.      *)
Touch(d) ==
    /\ pc[d] = "touch"
    /\ FreeFor(d, <<"source", job[d].src>>)
    /\ IF job[d].of.what = "source"
       THEN Leave(d)
       ELSE /\ holds' = [holds EXCEPT ![d] = @ \cup {<<"source", job[d].src>>}]
            /\ pc' = [pc EXCEPT ![d] = "look"]
            /\ UNCHANGED job
    /\ UNCHANGED <<tables, begun, edits, created>>

(* The insert of a source.  The unique key (url, content_hash) makes it wait *)
(* for another transaction that inserts the same one, and then fail.         *)
NewSource(j, kind) == [url |-> j.url, hash |-> j.hash, kind |-> kind, label |-> Null,
                       outlet |-> Null, date |-> 0]
AddSource(d) ==
    /\ pc[d] = "add"
    /\ \/ /\ job[d].of.hash # NoHash /\ Document(job[d].of) # {}
          /\ Leave(d)
          /\ UNCHANGED tables
       \/ /\ job[d].of.hash = NoHash \/ Document(job[d].of) = {}
          /\ job[d].of.hash # NoHash => FreeFor(d, <<"key", job[d].of.url, job[d].of.hash>>)
          /\ Room
          /\ IF job[d].of.what = "source"
             THEN /\ sources' = Append(sources, NewSource(job[d].of, "manual"))
                  /\ Leave(d)
             ELSE /\ holds' = [holds EXCEPT ![d] = @ \cup
                        {<<"key", job[d].of.url, h>> : h \in {job[d].of.hash} \ {NoHash}}]
                  /\ pc' = [pc EXCEPT ![d] = "look"]
                  /\ UNCHANGED <<sources, job>>
          /\ UNCHANGED <<items, mentions, related, statements, outlets>>
    /\ UNCHANGED <<begun, edits, created>>

ItemsOf(i) == {n \in RowsOf(items) : items[n].source = i}
NewItem(i, draft, summary) ==
    [source |-> i, draft |-> draft, summary |-> summary, embedded |-> FALSE]

Look(d) ==
    /\ pc[d] = "look"
    /\ job' = [job EXCEPT ![d].existed = ItemsOf(job[d].src) # {}]
    /\ pc' = [pc EXCEPT ![d] = "write"]
    /\ UNCHANGED <<tables, holds, begun, edits, created>>

(* insert into news_items .. on conflict (source_id) do update               *)
WriteItem(d) ==
    /\ pc[d] = "write"
    /\ job[d].src # 0 => FreeFor(d, <<"item", job[d].src>>)
    /\ holds' = [holds EXCEPT ![d] = @ \cup {<<"item", i>> : i \in {job[d].src} \ {0}}]
    /\ pc' = [pc EXCEPT ![d] = "commit"]
    /\ UNCHANGED <<tables, job, begun, edits, created>>

Overdrafted(it, draft) == [it EXCEPT !.draft = draft]
Redrafted(it, draft) == [it EXCEPT !.draft = IF draft = Null THEN @ ELSE draft]

Commit(d) ==
    LET j == job[d]
        src == IF j.src = 0 THEN Len(sources) + 1 ELSE j.src
        item == IF ItemsOf(src) = {} THEN Len(items) + 1 ELSE CHOOSE n \in ItemsOf(src) : TRUE
    IN  /\ pc[d] = "commit"
        /\ sources' = IF j.src = 0
                      THEN Append(sources, [NewSource(j.of, "news_rss") EXCEPT
                                                !.label = j.of.label, !.date = j.of.date])
                      ELSE [sources EXCEPT ![src].label = j.of.label, ![src].date = j.of.date]
        /\ items' = IF item > Len(items)
                    THEN Append(items, NewItem(src, j.of.summary, Null))
                    ELSE [items EXCEPT ![item] = Redrafted(@, j.of.summary)]
        /\ job' = [job EXCEPT ![d].src = src, ![d].item = item]
        /\ holds' = [holds EXCEPT ![d] = {}]
        /\ pc' = [pc EXCEPT ![d] = "link"]
        /\ created' = IF j.existed THEN created ELSE Append(created, item)
        /\ UNCHANGED <<mentions, related, statements, outlets, begun, edits>>

(* One statement per name; a name nobody has links nothing.                  *)
Link(d) ==
    /\ pc[d] = "link"
    /\ \E p \in job[d].of.names :
          /\ mentions' = mentions \cup {<<job[d].item, q>> : q \in {p} \cap Named}
          /\ job' = [job EXCEPT ![d].of.names = @ \ {p}]
    /\ UNCHANGED <<sources, items, related, statements, outlets, pc, holds, begun, edits, created>>

Answer(d) ==
    /\ pc[d] = "link"
    /\ job[d].of.names = {}
    /\ Leave(d)
    /\ UNCHANGED <<tables, begun, edits, created>>

(* A statement fails, the client goes away or the process dies: an open      *)
(* transaction is rolled back, and the links made so far stay.               *)
Abandon(d) ==
    /\ pc[d] # "idle"
    /\ Leave(d)
    /\ UNCHANGED <<tables, begun, edits, created>>

-----------------------------------------------------------------------------
(* Outlets.  The API links the articles delivered under the name; the form   *)
(* does not.  Both replace the logo, the API by none.                        *)

PutOutlet(l, logo) == outlets' = [k \in DOMAIN outlets \cup {l} |->
                                      IF k = l THEN logo ELSE outlets[k]]
DeliverOutlet(d, l) ==
    /\ Begin(d, [what |-> "outlet", label |-> l], 0, "label")
    /\ PutOutlet(l, Null)
    /\ UNCHANGED <<sources, items, mentions, related, statements, holds, edits, created>>

Unlinked(l) == {i \in RowsOf(sources) : sources[i].label = l /\ sources[i].outlet = Null}

LinkSources(d) ==
    /\ pc[d] = "label"
    /\ \A i \in Unlinked(job[d].of.label) : Free(<<"source", i>>)
    /\ sources' = [i \in RowsOf(sources) |->
                      IF i \in Unlinked(job[d].of.label)
                      THEN [sources[i] EXCEPT !.outlet = job[d].of.label]
                      ELSE sources[i]]
    /\ Leave(d)
    /\ UNCHANGED <<items, mentions, related, statements, outlets, begun, edits, created>>

-----------------------------------------------------------------------------
(* What pages and the pipeline read.                                         *)

DateOf(n) == sources[items[n].source].date
NewerById(m, n) == m > n
Newer(m, n) == DateOf(m) > DateOf(n) \/ (DateOf(m) = DateOf(n) /\ m > n)
Newest(S) == Listed(S, {x \in S \X S : Newer(x[1], x[2])})
Window(s, limit, offset) ==
    SubSeq(s, offset + 1, IF offset + limit < Len(s) THEN offset + limit ELSE Len(s))

ArticlesOf(l) == {n \in RowsOf(items) : sources[items[n].source].outlet = l}
ForOutlet(l, limit, offset) == Window(Newest(ArticlesOf(l)), limit, offset)
ForPerson(p) == Newest({n \in RowsOf(items) : <<n, p>> \in mentions})
Recent(limit) ==
    Window(Newest({n \in RowsOf(items) : \E p \in Named : <<n, p>> \in mentions}), limit, 0)

(* The pager counts, keeps the number asked for within the pages, and reads  *)
(* the page of that number.                                                  *)
Count(l) == Cardinality(ArticlesOf(l))
Pages(count) == (count + PerPage - 1) \div PerPage
Current(count, p) ==
    LET last == IF Pages(count) = 0 THEN 1 ELSE Pages(count)
    IN  IF p < 1 THEN 1 ELSE IF p > last THEN last ELSE p
Before(current) == (current - 1) * PerPage
OutletPage(l, p) == ForOutlet(l, PerPage, Before(Current(Count(l), p)))

(* A visit counts the articles with the outlet it reads, and lists a page of *)
(* them in another statement.                                                *)
OpenOutlet(l, p) ==
    /\ browsing.at # "counted"
    /\ l \in DOMAIN outlets
    /\ browsing' = [at |-> "counted", label |-> l, count |-> Count(l),
                   current |-> Current(Count(l), p), shown |-> <<>>]
ListOutlet ==
    /\ browsing.at = "counted"
    /\ browsing' = [browsing EXCEPT !.at = "shown",
                       !.shown = ForOutlet(browsing.label, PerPage, Before(browsing.current))]

(* One row to a relation, whichever end of it the article is.                *)
RelatedNews(n) ==
    LET other(r) == IF r.a = n THEN r.b ELSE r.a
        rel == {r \in related : n \in {r.a, r.b}}
        seq == Listed(rel, {x \in rel \X rel : Newer(other(x[1]), other(x[2]))})
    IN  [k \in DOMAIN seq |-> other(seq[k])]

Unsummarized == {n \in RowsOf(items) : items[n].summary = Null /\ items[n].draft = Null}
NeedsEmbedding == {n \in RowsOf(items) : ~items[n].embedded}
Neighbours(n) == {m \in RowsOf(items) \ {n} : items[m].embedded /\ items[n].embedded}

-----------------------------------------------------------------------------
(* The editor's forms and the passes over the articles (summaries, vectors,  *)
(* related articles).  A form's transaction writes rows of its own only, so  *)
(* that it is one step; an update of an item waits for a delivery of it.     *)

SaveOutlet(l, logo) ==
    /\ PutOutlet(l, logo)
    /\ UNCHANGED <<sources, items, mentions, related, statements>>

CreateNews(f) ==
    /\ Room
    /\ sources' = Append(sources, [NewSource([url |-> f.url, hash |-> NoHash], "news_rss") EXCEPT
                                       !.label = f.label, !.date = f.date])
    /\ items' = Append(items, NewItem(Len(sources) + 1, Null, f.summary))
    /\ mentions' = mentions \cup ({Len(items) + 1} \X f.names)
    /\ UNCHANGED <<related, statements, outlets>>

CreateStatement(u, p) ==
    /\ Room
    /\ sources' = Append(sources, NewSource([url |-> u, hash |-> NoHash], "manual"))
    /\ statements' = statements \cup {[source |-> Len(sources) + 1, about |-> p]}
    /\ UNCHANGED <<items, mentions, related, outlets>>

EditItem(n, it) ==
    /\ Free(<<"item", items[n].source>>)
    /\ items' = [items EXCEPT ![n] = it]
    /\ UNCHANGED <<sources, mentions, related, statements, outlets>>

UpdateFields(n, t) == EditItem(n, [items[n] EXCEPT !.summary = t])
PublishSummary(n, t) == EditItem(n, [items[n] EXCEPT !.summary = t, !.draft = Null])
DiscardDraft(n) == EditItem(n, [items[n] EXCEPT !.draft = Null])
SetDraft(n, t) == EditItem(n, [items[n] EXCEPT !.draft = t])
(* The pass over all that need one.                                          *)
SetEmbedding(S) ==
    /\ S # {} /\ \A n \in S : Free(<<"item", items[n].source>>)
    /\ items' = [n \in RowsOf(items) |-> IF n \in S THEN [items[n] EXCEPT !.embedded = TRUE] ELSE items[n]]
    /\ UNCHANGED <<sources, mentions, related, statements, outlets>>

SetMentions(m) ==
    /\ mentions' = m
    /\ UNCHANGED <<sources, items, related, statements, outlets>>
LinkPerson(n, p) == SetMentions(mentions \cup {<<n, p>>})
UnlinkPerson(n, p) == SetMentions(mentions \ {<<n, p>>})

(* A pair is stored once, smaller id first.                                  *)
Pair(x, y) == IF x < y THEN <<x, y>> ELSE <<y, x>>
LinkRelated(x, y, method) ==
    /\ x # y
    /\ LET p == Pair(x, y)
       IN  related' = {r \in related : <<r.a, r.b>> # p}
                          \cup {[a |-> p[1], b |-> p[2], method |-> method]}
    /\ UNCHANGED <<sources, items, mentions, statements, outlets>>

Desk ==
    /\ edits < MaxEdits
    /\ edits' = edits + 1
    /\ UNCHANGED <<pc, job, holds, begun, created>>
    /\ \/ \E f \in Forms : CreateNews(f)
       \/ \E u \in Urls, p \in Named : CreateStatement(u, p)
       \/ \E l \in Labels, logo \in {Null} \cup Summaries : SaveOutlet(l, logo)
       \/ SetEmbedding(NeedsEmbedding)
       \/ \E n \in RowsOf(items) :
             \/ \E t \in Summaries \cup {Null} : UpdateFields(n, t)
             \/ \E t \in Summaries : PublishSummary(n, t)
             \/ DiscardDraft(n)
             \/ n \in Unsummarized /\ \E t \in Summaries : SetDraft(n, t)
             \/ \E p \in Named : LinkPerson(n, p) \/ UnlinkPerson(n, p)
             \/ \E y \in Neighbours(n) : LinkRelated(n, y, "embedding")
             \/ \E y \in RowsOf(items) : LinkRelated(n, y, "verified")

PressNext ==
    \/ \E d \in Deliveries :
          \/ Find(d) \/ Touch(d) \/ AddSource(d) \/ Look(d) \/ WriteItem(d)
          \/ Commit(d) \/ Link(d) \/ Answer(d) \/ Abandon(d) \/ LinkSources(d)
          \/ \E l \in Labels : DeliverOutlet(d, l)
    \/ Desk

NewsroomNext ==
    \/ PressNext /\ UNCHANGED browsing
    \/ /\ ListOutlet \/ \E l \in Labels : \E p \in 0 .. Pages(Count(l)) + 1 : OpenOutlet(l, p)
       /\ UNCHANGED pressVars

NewsroomSpec == NewsroomInit /\ [][NewsroomNext]_newsroomVars

-----------------------------------------------------------------------------
(* Properties.                                                               *)

(* However deliveries interleave, a document with a content hash is one      *)
(* source, a source is one article, two articles are related by one row,     *)
(* whichever was named first, and at most one delivery of an article is told *)
(* that it created it.                                                       *)
OneRowEach ==
    /\ \A i, k \in RowsOf(sources) :
          sources[i].url = sources[k].url /\ sources[i].hash = sources[k].hash
              /\ sources[i].hash # NoHash => i = k
    /\ \A m, n \in RowsOf(items) : items[m].source = items[n].source => m = n
    /\ \A r, s \in related : {r.a, r.b} = {s.a, s.b} => r = s
    /\ \A r \in related : r.a # r.b
    /\ \A k, l \in DOMAIN created : created[k] = created[l] => k = l

(* A delivery speeds ingest and decides nothing: an article's public summary *)
(* changes, and a waiting draft goes away, by an editor's step only.  The    *)
(* steps of deliveries are the ones that move a pc.                          *)
DeliveriesDecideNothing ==
    [][pc' # pc => \A n \in RowsOf(items) :
            /\ items'[n].summary = items[n].summary
            /\ items[n].draft # Null => items'[n].draft # Null]_newsroomVars

(* Reading an outlet's pages in turn shows each of its articles once, by the *)
(* date of publication, and a page number outside them shows the nearest     *)
(* page.  A page whose articles were counted before more of them came shows  *)
(* no fewer than the count promised, all the outlet's and none twice.  The   *)
(* news of a country leaves an article of somebody's page out only when it   *)
(* is full of others as recent; and an article lists a related one once, and *)
(* never itself.                                                             *)
EveryArticleListed ==
    /\ \A n \in RowsOf(items) : \A j, k \in DOMAIN RelatedNews(n) :
          RelatedNews(n)[k] # n /\ (RelatedNews(n)[j] = RelatedNews(n)[k] => j = k)
    /\ \A p \in Named, limit \in 1..2 : \A n \in ToSet(ForPerson(p)) \ ToSet(Recent(limit)) :
          Len(Recent(limit)) = limit /\ \A m \in ToSet(Recent(limit)) : DateOf(m) >= DateOf(n)
    /\ \A l \in Labels :
          LET n == Pages(Count(l))
              shown == UNION {{p} \X DOMAIN OutletPage(l, p) : p \in 1..n}
              at(x) == OutletPage(l, x[1])[x[2]]
          IN  /\ {at(x) : x \in shown} = ArticlesOf(l)
              /\ \A x, y \in shown :
                    x[1] < y[1] \/ (x[1] = y[1] /\ x[2] < y[2])
                        => at(x) # at(y) /\ DateOf(at(x)) >= DateOf(at(y))
              /\ n > 0 => /\ OutletPage(l, 0) = OutletPage(l, 1)
                          /\ OutletPage(l, n + 1) = OutletPage(l, n)
    /\ browsing.at = "shown" =>
          /\ \A k \in 1..PerPage :
                Before(browsing.current) + k <= browsing.count => k \in DOMAIN browsing.shown
          /\ \A j, k \in DOMAIN browsing.shown :
                /\ browsing.shown[k] \in ArticlesOf(browsing.label)
                /\ browsing.shown[j] = browsing.shown[k] => j = k

(* The comment of upsert: a missing hash is the same document, so that the   *)
(* same URL never yields two sources.                                        *)
OneSourcePerUrl ==
    \A i, k \in RowsOf(sources) : sources[i].url = sources[k].url
        /\ sources[i].hash = NoHash /\ sources[k].hash = NoHash => i = k
=============================================================================
