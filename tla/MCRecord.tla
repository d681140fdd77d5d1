------------------------------- MODULE MCRecord -------------------------------
(* Small instances of the parts of the record.                               *)
EXTENDS Integers, Record, TLC

CONSTANTS r1, r2, x1, x2 \* values without an order: requests, uploads and the like;
                         \* challenges and visitors

-----------------------------------------------------------------------------
(* Files.  Two of the pictures re-encode to the same bytes; the others are   *)
(* refused, each for another reason.  Two images share a host.               *)

Picture(readable, kind, bytes, hash) ==
    [readable |-> readable, kind |-> kind, bytes |-> bytes, hash |-> hash]
SomePictures ==
    {Picture(TRUE, "png", 1, "h1"), Picture(TRUE, "jpeg", 2, "h1"), Picture(FALSE, "png", 1, "h1"),
     Picture(TRUE, "gif", 1, "h1"), Picture(TRUE, "webp", 3, "h1"), Picture(TRUE, "png", 0, "h1")}
SomeHosts == [l1 |-> "x", l2 |-> "x"]

(* Desk.  Reports at the limits of the form, one within and one beyond each. *)
Report(sitePath, page_, description, source, http, email, at, captcha) ==
    [sitePath |-> sitePath, page |-> page_, description |-> description, source |-> source,
     http |-> http, email |-> email, at |-> at, captcha |-> captcha]
SomeReports ==
    {Report(TRUE, 300, 10, 0, FALSE, 0, FALSE, TRUE), Report(TRUE, 1, 2000, 500, TRUE, 254, TRUE, TRUE),
     Report(TRUE, 301, 10, 0, FALSE, 0, FALSE, TRUE), Report(FALSE, 9, 10, 0, FALSE, 0, FALSE, TRUE),
     Report(TRUE, 9, 9, 0, FALSE, 0, FALSE, TRUE), Report(TRUE, 9, 2001, 0, FALSE, 0, FALSE, TRUE),
     Report(TRUE, 9, 10, 501, TRUE, 0, FALSE, TRUE), Report(TRUE, 9, 10, 9, FALSE, 0, FALSE, TRUE),
     Report(TRUE, 9, 10, 0, FALSE, 255, TRUE, TRUE), Report(TRUE, 9, 10, 0, FALSE, 9, FALSE, TRUE),
     Report(TRUE, 9, 10, 0, FALSE, 0, FALSE, FALSE)}

(* MailCheck.  Every answer a domain can give, and every cause of refusal.   *)
SomeZone ==
    [d1 |-> [mx |-> {"host"}, ip |-> 0], d2 |-> [mx |-> {"root"}, ip |-> 1],
     d3 |-> [mx |-> {"host", "root"}, ip |-> 1], d4 |-> [mx |-> {}, ip |-> 1],
     d5 |-> [mx |-> {"no_records"}, ip |-> 1], d6 |-> [mx |-> {"no_records"}, ip |-> 0],
     d7 |-> [mx |-> {"no_domain"}, ip |-> 0]]
Address(at, length, labels, listed, domain) ==
    [at |-> at, length |-> length, labels |-> labels, listed |-> listed, domain |-> domain]
SomeAddresses ==
    {Address(TRUE, 254, TRUE, FALSE, d) : d \in DOMAIN SomeZone} \cup
    {Address(FALSE, 9, TRUE, FALSE, "d1"), Address(TRUE, 255, TRUE, FALSE, "d1"),
     Address(TRUE, 9, FALSE, FALSE, "d1"), Address(TRUE, 9, TRUE, TRUE, "d1")}

(* Newsroom.  An article with a content hash, which names somebody who is    *)
(* there and somebody who is not, one without a hash that names nobody, and  *)
(* a bare source; forms of two articles of the outlet, of which either may   *)
(* come first.                                                               *)
Article(hash, date, summary, names) ==
    [what |-> "news", url |-> "u1", hash |-> hash, label |-> "l1", date |-> date,
     summary |-> summary, names |-> names]
SomeWire ==
    {Article("h1", 1, "t1", {"p1", "nobody"}), Article("no hash", 0, "nil", {}),
     [what |-> "source", url |-> "u1", hash |-> "h1"]}
Form(label, date, summary) ==
    [url |-> "u1", label |-> label, date |-> date, summary |-> summary, names |-> {"p1"}]
SomeForms == {Form("l1", 1, "t1"), Form("l1", 0, "nil")}

(* Follows.  Two of what is added makes the feed full; one poll has no page. *)
Item(kind, about, date) == [kind |-> kind, about |-> about, date |-> date, placed |-> TRUE]
SomeContent ==
    {Item("poll", {"a"}, 1), Item("poll", {"a", "b"}, 2), Item("news", {"b"}, 0),
     Item("news", {"a"}, 1), Item("news", {"a"}, 2), Item("election", {"a"}, 1),
     Item("election", {"c"}, 2), [Item("poll", {"a"}, 2) EXCEPT !.placed = FALSE]}

(* Compass.  Positions of parties on two topics and one of persons; evidence *)
(* of both parties that is the same, that differs in strength or date, and   *)
(* entries the form refuses; recorded votes of three members.  The token of  *)
(* one row or of two parties in a row opens, that of two rows is too long.   *)
Entry(t, who, kind, stance, date, url) ==
    [thesis |-> t, who |-> who, kind |-> kind, stance |-> stance, date |-> date, url |-> url]
Weighed(value, weight) == [value |-> value, weight |-> weight]
Sheet(scope, place, answers) == [scope |-> scope, place |-> place, answers |-> answers]
Positions == [t1 |-> [scope |-> "party", topic |-> "a"], t2 |-> [scope |-> "party", topic |-> "b"],
              t3 |-> [scope |-> "person", topic |-> "none"]]
SomeEntries ==
    {Entry("t1", 1, "manifesto", 2, 0, "u"), Entry("t1", 2, "manifesto", 2, 0, "u"),
     Entry("t1", 1, "law", -2, 1, "u"), Entry("t2", 1, "bill", 1, 0, "u"),
     Entry("t2", 2, "bill", 1, 0, "u"), Entry("t3", 11, "statement", 0, 0, "u"),
     Entry("t3", 11, "statement", 3, 0, "u"), Entry("t3", 11, "motion", 1, 0, "u"),
     Entry("t3", 11, "decree", 1, 0, "")}
SlugsOfParties == 1 :> 12 @@ 2 :> 30
SomeSheets ==
    {Sheet("party", "m", [t1 |-> Weighed(2, 1), t2 |-> Weighed(-1, 2)]),
     Sheet("party", "none", [t2 |-> Weighed(0, 1)]),
     Sheet("person", "none", [t3 |-> Weighed(-2, 1)]), Sheet("party", "m", <<>>)}
SomeChamber ==
    [linked |-> {[thesis |-> "t1", roll |-> "r1", yes |-> 2, no |-> -2]},
     votes |-> {[roll |-> "r1", person |-> 21, choice |-> "yes"],
                [roll |-> "r1", person |-> 22, choice |-> "no"],
                [roll |-> "r1", person |-> 23, choice |-> "no"]},
     held |-> [r1 |-> 1],
     party |-> 21 :> 2 @@ 22 :> 2 @@ 23 :> 0,
     seat |-> 21 :> "d" @@ 22 :> "g" @@ 23 :> "d",
     place |-> [m |-> [district |-> "d", region |-> "g"]]]
SomePublished ==
    {[thesis |-> "t1", who |-> 2, kind |-> "vote", stance |-> -1, date |-> 1, url |-> "v",
      source |-> "v", roll |-> "r1"]}

(* Import.  One row in each file, which names one in every file it must and  *)
(* in some it may name; a later dataset of fewer files, whose outlet cites   *)
(* nothing any more, and one that lacks rows which others name.              *)
Sample ==
    [sources |-> {}, countries |-> {}, people |-> {"countries"}, parties |-> {"countries"},
     party_memberships |-> {"people", "parties"}, roles |-> {"people", "parties"},
     elections |-> {"countries"}, election_results |-> {"elections", "parties"},
     alliances |-> {"countries"}, party_alliances |-> {"parties", "alliances"},
     events |-> {"countries", "people"}, topics |-> {}, statements |-> {"people", "topics"},
     outlets |-> {"countries"}, person_attributes |-> {"people"}, person_education |-> {"people"},
     theses |-> {"countries", "topics"}, position_evidence |-> {"theses", "parties"},
     polls |-> {"countries", "people"}, poll_options |-> {"polls"}, roll_calls |-> {"countries"},
     roll_call_votes |-> {"roll_calls", "people"}, evidence_votes |-> {"roll_calls", "theses"},
     initiatives |-> {"countries"}, initiative_parties |-> {"initiatives", "parties"},
     group_votes |-> {"countries"}, group_vote_parties |-> {"group_votes", "parties"},
     thesis_roll_calls |-> {"theses", "roll_calls"}, constituency_places |-> {"countries"},
     translations |-> {"topics"}]
DataRow(f, content_) ==
    [file |-> f, key |-> "k", source |-> "k", names |-> {<<g, "k">> : g \in Sample[f]},
     main |-> content_, rest |-> content_]
SomeDatasets ==
    [first |-> {DataRow(f, 1) : f \in DOMAIN Sample},
     newer |-> {DataRow(f, 2) : f \in {"sources", "people", "events", "statements", "polls"}}
                 \cup {[DataRow("outlets", 2) EXCEPT !.source = Nowhere]},
     broken |-> {DataRow(f, 1) : f \in {"sources", "countries", "theses", "thesis_roll_calls"}}]

(* Offices.  Two members of a parliament of two chambers, one of whom may    *)
(* change party, and a party of another country.                             *)
Key(person, party) == [person |-> person, party |-> party, start |-> 0]
Office(person, type, org) == [person |-> person, type |-> type, org |-> org, start |-> 0]
Election(kind, held_, seats) == [kind |-> kind, held |-> held_, seats |-> seats]
Lands == [x |-> "home", y |-> "home", a |-> "home", b |-> "home", f |-> "abroad"]
NamesInOrder == [a |-> 2, b |-> 1, f |-> 3]
SomeMemberships == {Key("x", "a"), Key("x", "b"), Key("y", "a"), Key("y", "f")}
SomeRoles ==
    {Office("x", "mp", "house"), Office("y", "senator", "senate"),
     Office("x", "party_leader", "a")}
SomeElections ==
    {Election("parliamentary", 1, 9), Election("parliamentary", 2, 2), Election("presidential", 3, 0)}

(* Elections.  Two held, of the second of which a later edition brings other *)
(* figures; two ahead on one day; one without a date.                        *)
Poll(slug, held_, kind, note, valid, edition) ==
    [slug |-> slug, held |-> held_, kind |-> kind, note |-> note, valid |-> valid,
     edition |-> edition]
Result(election, who, votes, seats, edition) ==
    [election |-> election, who |-> who, votes |-> votes, seats |-> seats, edition |-> edition]
ContestantsInOrder == [a |-> 1, b |-> 2, c |-> 3]
SomeElectionRows ==
    {Poll("e1", 1, "house", FALSE, 7, 1), Poll("e2", 2, "house", FALSE, 6, 1),
     Poll("e2", 2, "house", FALSE, 3, 2), Poll("e3", 3, "house", TRUE, 0, 1),
     Poll("e4", 3, "head", TRUE, 0, 1), Poll("e5", 0, "house", TRUE, 0, 1)}
SomeResultRows ==
    {Result("e1", "a", 4, 2, 1), Result("e1", "b", 3, -1, 1), Result("e2", "a", 2, 1, 1),
     Result("e2", "b", 3, -1, 1), Result("e2", "c", 1, 1, 1), Result("e2", "c", 1, 1, 2),
     Result("e2", "a", -1, -1, 2)}

Symmetry == Permutations({r1, r2}) \union Permutations({x1, x2})
==============================================================================
