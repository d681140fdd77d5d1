-------------------------------- MODULE Import --------------------------------
(* `ingest import` (ingest/main.rs, ingest/import.rs): the published dataset *)
(* is read file by file, in dependency order, into a database that may hold  *)
(* an older one, or part of this one.  Each row is a statement of its own:   *)
(* nothing is rolled back when a file names what is not there, or when the   *)
(* process stops.                                                            *)
(*                                                                           *)
(* A definition named after another with a suffix (MergeTallies, ...) is a   *)
(* mistake one could make there; a property must tell it from the code.      *)
EXTENDS Naturals, Sequences, FiniteSets

CONSTANTS
    Datasets,   \* [versions -> rows], a row is [file, key, source, names, main, rest]:
                \* its natural key, the source it cites, the rows it names, and
                \* its fields, those that every conflict clause updates and the others
    Nowhere,    \* no source: theses' votes, polls, topics and outlets need none
    MaxLoads    \* bound on how often the importer is started

VARIABLES
    rows,       \* the database: [file and key -> what is stored]
    load,       \* the load under way, or Idle
    last,       \* the version last loaded to its end, if none other began since
    started,      \* versions whose load ever began
    loads

importVars == <<rows, load, last, started, loads>>

Idle == [at |-> "idle"]
Versions == DOMAIN Datasets

-----------------------------------------------------------------------------
(* What each file does with a row: whether it must cite a source of the      *)
(* dataset, which files must have the rows it names (the others become null), *)
(* and what a row that is already there takes over: all it says, all but     *)
(* whom it names, some fields, those and its citation, or none.  Events and statements have no key:  *)
(* one counts as there only if all of it is the same, or all but its rest.   *)

Rule(cites, needs, takes) == [cites |-> cites, needs |-> needs, takes |-> takes]

Sources             == Rule(FALSE, {}, "some")
Countries           == Rule(TRUE, {}, "all")
PersonRows          == Rule(TRUE, {}, "all")
PartyRows           == Rule(TRUE, {}, "all")
Memberships         == Rule(TRUE, {"people", "parties"}, "all")
Roles               == Rule(TRUE, {"people"}, "all")
Elections           == Rule(TRUE, {"countries"}, "fields")
ElectionResults     == Rule(TRUE, {"elections"}, "none")
Alliances           == Rule(TRUE, {"countries"}, "some")
PartyAlliances      == Rule(TRUE, {"parties", "alliances"}, "none")
Events              == Rule(TRUE, {}, "same")
Topics              == Rule(FALSE, {}, "all")
Statements          == Rule(TRUE, {}, "near")
Outlets             == Rule(FALSE, {}, "cited")
Attributes          == Rule(TRUE, {"people"}, "none")
Educations          == Rule(TRUE, {"people"}, "none")
ThesisRows          == Rule(TRUE, {"countries"}, "all")
EvidenceRows        == Rule(TRUE, {"theses"}, "all")
PollRows            == Rule(FALSE, {}, "some")
PollOptions         == Rule(FALSE, {"polls"}, "none")
RollCalls           == Rule(TRUE, {"countries"}, "some")
RollCallVotes       == Rule(FALSE, {"roll_calls", "people"}, "all")
EvidenceVotes       == Rule(TRUE, {"roll_calls", "theses"}, "all")
Initiatives         == Rule(TRUE, {"countries"}, "some")
InitiativeParties   == Rule(FALSE, {"initiatives", "parties"}, "none")
GroupVotes          == Rule(TRUE, {"countries"}, "some")
GroupVoteParties    == Rule(FALSE, {"group_votes", "parties"}, "all")
ThesisVotes         == Rule(FALSE, {"theses", "roll_calls"}, "all")
ConstituencyPlaces  == Rule(TRUE, {"countries"}, "all")
Translations        == Rule(FALSE, {"countries", "people", "parties", "elections", "alliances",
                                    "polls", "topics", "outlets"}, "none")

(* The order of the files.  A list inside a row (the votes of a roll call,   *)
(* the parties of an initiative or a group vote) follows its row; the roll   *)
(* calls of evidence are set when both are there.                            *)
Order ==
    << <<"sources", Sources>>, <<"countries", Countries>>, <<"people", PersonRows>>,
       <<"parties", PartyRows>>, <<"party_memberships", Memberships>>, <<"roles", Roles>>,
       <<"elections", Elections>>, <<"election_results", ElectionResults>>,
       <<"alliances", Alliances>>, <<"party_alliances", PartyAlliances>>, <<"events", Events>>,
       <<"topics", Topics>>, <<"statements", Statements>>, <<"outlets", Outlets>>,
       <<"person_attributes", Attributes>>, <<"person_education", Educations>>,
       <<"theses", ThesisRows>>, <<"position_evidence", EvidenceRows>>, <<"polls", PollRows>>,
       <<"poll_options", PollOptions>>, <<"roll_calls", RollCalls>>,
       <<"roll_call_votes", RollCallVotes>>, <<"evidence_votes", EvidenceVotes>>,
       <<"initiatives", Initiatives>>, <<"initiative_parties", InitiativeParties>>,
       <<"group_votes", GroupVotes>>, <<"group_vote_parties", GroupVoteParties>>,
       <<"thesis_roll_calls", ThesisVotes>>, <<"constituency_places", ConstituencyPlaces>>,
       <<"translations", Translations>> >>

FileNames == {Order[i][1] : i \in DOMAIN Order}
FileOf(r) == <<r.file, r.key>>

ImportTypeOK ==
    /\ \A k \in DOMAIN rows :
        k[1] \in FileNames /\ rows[k].copies > 0 /\ rows[k].names \subseteq DOMAIN rows
    /\ load = Idle \/ (load.of \in Versions /\ load.file \in 1..Len(Order) + 1
                       /\ load.left \subseteq Datasets[load.of] /\ load.seen \subseteq DOMAIN rows)
    /\ started \subseteq Versions /\ last \in Versions \cup {Nowhere} /\ loads \in 0..MaxLoads

(* What import.rs relies on: a dataset is an export, so that each row has a  *)
(* key of its own in a file it knows, and names only rows of files that are  *)
(* read before its own and have keys; the sources of its outlets are there.  *)
Keyed(i) == Order[i][2].takes \notin {"same", "near"}
NamedBefore(f, g) ==
    \A i \in DOMAIN Order : Order[i][1] = g => \E j \in 1..i - 1 : Order[j][1] = f /\ Keyed(j)
ASSUME ImportAssumption ==
    /\ MaxLoads \in Nat /\ Nowhere \notin Versions
    /\ \A v \in Versions :
        /\ IsFiniteSet(Datasets[v])
        /\ \A r, x \in Datasets[v] : FileOf(r) = FileOf(x) => r = x
        /\ \A r \in Datasets[v] :
            /\ r.file \in FileNames /\ \A n \in r.names : NamedBefore(n[1], r.file)
            /\ r.file = "outlets" /\ r.source # Nowhere =>
                  \E x \in Datasets[v] : FileOf(x) = <<"sources", r.source>>

-----------------------------------------------------------------------------
RowsIn(v, i) == {r \in Datasets[v] : i <= Len(Order) /\ r.file = Order[i][1]}

(* The next file that has rows: reading one that has none changes nothing.   *)
FileAfter(v, i) ==
    LET after == {k \in i + 1..Len(Order) : RowsIn(v, k) # {}}
    IN IF after = {} THEN Len(Order) + 1 ELSE CHOOSE k \in after : \A m \in after : k <= m
Reading(v, i, seen) ==
    [at |-> "load", of |-> v, file |-> i, left |-> RowsIn(v, i), seen |-> seen]

Start(v) ==
    /\ load = Idle /\ loads < MaxLoads /\ loads' = loads + 1
    /\ load' = Reading(v, FileAfter(v, 0), {})
    /\ started' = started \cup {v} /\ last' = IF last = v THEN last ELSE Nowhere
    /\ UNCHANGED rows

(* A row can be loaded when the source it must cite is in the dataset, and   *)
(* so is what it must name.                                                  *)
Resolves(r, rule, seen) ==
    /\ rule.cites => <<"sources", r.source>> \in seen
    /\ \A n \in r.names : n[1] \in rule.needs => n \in seen

MergeTallies(old, r, names, takes) == [old EXCEPT !.main = r.main, !.copies = @ + 1]

(* What a conflict leaves of the two.  The citation is replaced only where   *)
(* it is one of the fields, that of an outlet's leaning.                     *)
Merge(old, r, names, takes) ==
    CASE takes = "all"  -> [old EXCEPT !.main = r.main, !.rest = r.rest, !.names = names]
      [] takes = "fields" -> [old EXCEPT !.main = r.main, !.rest = r.rest]
      [] takes = "some" -> [old EXCEPT !.main = r.main]
      [] takes = "cited" -> [old EXCEPT !.main = r.main, !.source = r.source]
      [] OTHER          -> old
NewRow(r, names) ==
    [main |-> r.main, rest |-> r.rest, source |-> r.source, names |-> names, copies |-> 1]

KeyOf(r, takes) ==
    CASE takes = "same" -> <<r.file, r.key, r.source, r.main, r.rest>>
      [] takes = "near" -> <<r.file, r.key, r.source, r.main>>
      [] OTHER          -> FileOf(r)

Stored(r, rule) ==
    LET k == KeyOf(r, rule.takes)
        names == r.names \cap load.seen
    IN IF k \in DOMAIN rows
       THEN [rows EXCEPT ![k] = Merge(rows[k], r, names, rule.takes)]
       ELSE [x \in DOMAIN rows \cup {k} |-> IF x = k THEN NewRow(r, names) ELSE rows[x]]

LoadRow(r) ==
    LET rule == Order[load.file][2] IN
    /\ load # Idle /\ r \in load.left /\ Resolves(r, rule, load.seen)
    /\ rows' = Stored(r, rule)
    /\ load' = [load EXCEPT !.left = @ \ {r},
                            !.seen = IF Keyed(load.file) THEN @ \cup {FileOf(r)} ELSE @]
    /\ UNCHANGED <<last, started, loads>>

NextFile ==
    /\ load # Idle /\ load.left = {} /\ load.file <= Len(Order)
    /\ load' = Reading(load.of, FileAfter(load.of, load.file), load.seen)
    /\ UNCHANGED <<rows, last, started, loads>>

BailSkipping(r) ==
    /\ load # Idle /\ r \in load.left /\ ~Resolves(r, Order[load.file][2], load.seen)
    /\ load' = [load EXCEPT !.left = @ \ {r}]
    /\ UNCHANGED <<rows, last, started, loads>>

(* bail: a row cites or names what is not in the dataset.                    *)
Bail(r) ==
    /\ load # Idle /\ r \in load.left /\ ~Resolves(r, Order[load.file][2], load.seen)
    /\ load' = Idle /\ last' = Nowhere
    /\ UNCHANGED <<rows, started, loads>>

(* A file cannot be read, the database goes away, the process stops.         *)
Stop ==
    /\ load # Idle /\ load' = Idle
    /\ UNCHANGED <<rows, last, started, loads>>

Finish ==
    /\ load # Idle /\ load.file > Len(Order)
    /\ load' = Idle /\ last' = load.of
    /\ UNCHANGED <<rows, started, loads>>

ImportInit == rows = <<>> /\ load = Idle /\ last = Nowhere /\ started = {} /\ loads = 0

ImportNext ==
    \/ \E v \in Versions : Start(v) \/ \E r \in Datasets[v] : LoadRow(r) \/ Bail(r)
    \/ NextFile \/ Stop \/ Finish

ImportSpec == ImportInit /\ [][ImportNext]_importVars

-----------------------------------------------------------------------------
(* Loading the same dataset twice leaves the same rows (import.rs 16): while *)
(* the version last loaded to its end is loaded again, however far that load *)
(* gets, no step changes the database.                                       *)
TwiceTheSame == [][load # Idle /\ last = load.of => rows' = rows]_importVars

(* Anyone can reconstruct the platform from the files alone (import.rs 3-6): *)
(* a load that reaches its end, into a database that saw only loads of that  *)
(* version, broken off wherever, leaves each row once, with its fields, its  *)
(* source, and every row it names that the dataset has.                      *)
Reconstructed ==
    last # Nowhere /\ started = {last} /\ load = Idle =>
        /\ Cardinality(DOMAIN rows) = Cardinality(Datasets[last])
        /\ \A r \in Datasets[last] : \E k \in DOMAIN rows :
            /\ k[1] = r.file /\ k[2] = r.key
            /\ rows[k] = NewRow(r, {n \in r.names : \E x \in Datasets[last] : FileOf(x) = n})

(* A database is brought up to date by loading a newer export                *)
(* (import.rs 16-17): the rows hold what the files say.                      *)
BroughtUpToDate ==
    last # Nowhere /\ load = Idle =>
        \A r \in Datasets[last] : \E k \in DOMAIN rows :
            /\ k[1] = r.file /\ k[2] = r.key
            /\ rows[k].main = r.main /\ rows[k].rest = r.rest
===============================================================================
