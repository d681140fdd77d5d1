----------------------------- MODULE Elections ------------------------------
(* The elections of a country and their results, row by row as the dataset   *)
(* brings them, edition after edition (ingest/src/import.rs), and what the   *)
(* pages make of them as the days pass: the next round, the election before  *)
(* of the same kind, shares of the vote in tenths of a percent               *)
(* (db/elections.rs, ui/election.rs).                                        *)
(* A definition named after another with a suffix is a mistake one could     *)
(* make there; a property must tell it from the code.                        *)
EXTENDS Lists, Sequences, FiniteSetsExt

CONSTANTS
    ElectionRows,    \* [slug, held, kind, note, valid, edition]; held and valid 0 if unknown
    ResultRows,      \* [election, who, votes, seats, edition]; votes and seats -1 if unknown
    ContestantOrder, \* [contestants -> Nat]: the order of their names
    BarLimit,        \* the bars of a box on the page of the country
    LastDay, MaxWritten \* bounds on the days that pass and the rows written

VARIABLES
    today,
    elections,     \* [slugs -> row with the id of its first insert]
    results,       \* [<<slug, contestant>> -> row]
    written

electionsVars == <<today, elections, results, written>>

Slugs == {r.slug : r \in ElectionRows}
Unknown == -1

(* Of the dataset: names tell contestants apart, and in an edition of it the *)
(* votes of an election's contestants are among its valid votes.             *)
ASSUME ElectionsAssumption ==
    /\ \A r \in ElectionRows : r.held \in Nat /\ r.valid \in Nat /\ r.note \in BOOLEAN
    /\ IsFiniteSet(ResultRows)
    /\ \A r \in ResultRows :
         /\ r.votes \in Nat \cup {Unknown} /\ r.seats \in Nat \cup {Unknown}
         /\ ContestantOrder[r.who] \in Nat
    /\ \A r, s \in ResultRows :
         ContestantOrder[r.who] = ContestantOrder[s.who] => r.who = s.who
    /\ \A e \in ElectionRows : e.valid > 0 =>
         LET counted == {r \in ResultRows : /\ r.election = e.slug /\ r.edition = e.edition
                                            /\ r.votes # Unknown}
         IN Total([r \in counted |-> r.votes]) <= e.valid
    /\ {BarLimit, MaxWritten} \subseteq Nat /\ LastDay \in Nat \ {0}

ElectionsTypeOK ==
    /\ today \in 1..LastDay /\ written \in 0..MaxWritten
    /\ \A e \in DOMAIN elections :
         elections[e].slug = e /\ elections[e].id \in 1..Cardinality(DOMAIN elections)
    /\ \A k \in DOMAIN results :
         results[k] \in ResultRows /\ k = <<results[k].election, results[k].who>>

-----------------------------------------------------------------------------
(* An election is replaced field by field, a result only ever inserted.      *)

PutElection(r) ==
    LET id == IF r.slug \in DOMAIN elections THEN elections[r.slug].id
              ELSE Cardinality(DOMAIN elections) + 1
        row == [slug |-> r.slug, held |-> r.held, kind |-> r.kind, note |-> r.note,
                valid |-> r.valid, edition |-> r.edition, id |-> id]
    IN /\ written < MaxWritten /\ written' = written + 1
       /\ elections' = [e \in DOMAIN elections \cup {r.slug} |->
                           IF e = r.slug THEN row ELSE elections[e]]
       /\ UNCHANGED <<today, results>>

(* The dataset that brings it has just brought its election.                 *)
PutResult(r) ==
    LET k == <<r.election, r.who>>
    IN /\ r.election \in DOMAIN elections /\ r.edition = elections[r.election].edition
       /\ written < MaxWritten /\ written' = written + 1
       /\ results' = [x \in DOMAIN results \cup {k} |->
                         IF x \in DOMAIN results THEN results[x] ELSE r]
       /\ UNCHANGED <<today, elections>>

NewDay ==
    /\ today < LastDay /\ today' = today + 1
    /\ UNCHANGED <<elections, results, written>>

ElectionsInit ==
    /\ today = 1 /\ written = 0
    /\ elections = [e \in {} |-> 0] /\ results = [k \in {} |-> 0]
ElectionsNext ==
    \/ \E r \in ElectionRows : PutElection(r)
    \/ \E r \in ResultRows : PutResult(r)
    \/ NewDay
ElectionsSpec == ElectionsInit /\ [][ElectionsNext]_electionsVars

-----------------------------------------------------------------------------
(* Which elections a page shows.                                             *)

Dated(e) == elections[e].held > 0
IsUpcoming(e) == elections[e].note /\ (Dated(e) => elections[e].held >= today)
Upcoming == {e \in DOMAIN elections : IsUpcoming(e)}

(* Every contest of the soonest date; those without a date if none has one.  *)
NextForCountry ==
    LET days == {elections[e].held : e \in {e \in Upcoming : Dated(e)}}
        soonest == IF days = {} THEN 0 ELSE Min(days)
    IN {e \in Upcoming : elections[e].held = soonest}

(* More recent first, those without a date last.                             *)
Later(e, f) ==
    \/ elections[e].held > elections[f].held
    \/ elections[e].held = elections[f].held /\ elections[e].id > elections[f].id
ListForCountry ==
    LET S == DOMAIN elections IN Listed(S, {x \in S \X S : Later(x[1], x[2])})

(* The election before of the same kind: a set of at most one.               *)
PreviousComparable(e) ==
    LET earlier == {f \in DOMAIN elections :
                        /\ Dated(e) /\ Dated(f) /\ elections[f].held < elections[e].held
                        /\ elections[f].kind = elections[e].kind}
    IN {f \in earlier : \A g \in earlier \ {f} : Later(f, g)}

-----------------------------------------------------------------------------
(* The bars of one election.                                                 *)

ResultsOf(e) == {results[k] : k \in {k \in DOMAIN results : k[1] = e}}

(* Results: seats, then votes, most first and unknown last, then names.      *)
Above(r, s) ==
    \/ r.seats > s.seats
    \/ r.seats = s.seats /\ r.votes > s.votes
    \/ r.seats = s.seats /\ r.votes = s.votes /\ ContestantOrder[r.who] < ContestantOrder[s.who]
ByVotes(r, s) == r.votes > s.votes \/ (r.votes = s.votes /\ Above(r, s))
WithVotes(e) == {r \in ResultsOf(e) : r.votes # Unknown}
VotedInOrder(e) ==
    Listed(WithVotes(e), {x \in WithVotes(e) \X WithVotes(e) : Above(x[1], x[2])})
Voted(e) == Listed(WithVotes(e), {x \in WithVotes(e) \X WithVotes(e) : ByVotes(x[1], x[2])})

Tenths(votes, e) == (votes * 1000) \div elections[e].valid
PrevShares(e) ==
    UNION {{<<r.who, Tenths(r.votes, f)>> : r \in WithVotes(f)}
           : f \in {f \in PreviousComparable(e) : elections[f].valid > 0}}

(* At most n bars, and one of the votes of all the others.                   *)
VoteShareList(e, n) ==
    LET voted == Voted(e)
        cut == IF Len(voted) > n THEN n ELSE Len(voted)
        others == Total([i \in (cut + 1)..Len(voted) |-> voted[i].votes])
    IN [bars |-> [i \in 1..cut |->
                    LET r == voted[i]
                        share == Tenths(r.votes, e)
                    IN [who |-> r.who, share |-> share,
                        swing |-> {share - p[2] : p \in {p \in PrevShares(e) : p[1] = r.who}}]],
        others |-> Tenths(others, e)]

(* The card above the bars: the last of the rows with most seats, in the     *)
(* order of the results, or none.                                            *)
LeaderBySeats(e) ==
    LET seated == {r \in ResultsOf(e) : r.seats > 0}
    IN {r \in seated : \A s \in seated \ {r} :
            s.seats < r.seats \/ (s.seats = r.seats /\ Above(s, r))}

-----------------------------------------------------------------------------
(* The country's next round is one day's: it hides no contest of that day,   *)
(* names none that is over, and is empty only when none is ahead.            *)
NextRoundWhole ==
    /\ NextForCountry = {} <=> Upcoming = {}
    /\ \A e \in NextForCountry : \A f \in Upcoming :
         elections[f].held = elections[e].held <=> f \in NextForCountry
    /\ \A e \in NextForCountry : \A f \in Upcoming :
         Dated(f) => elections[e].held \in 1..elections[f].held

(* Elections of a kind follow one another: none lies between an election and *)
(* the one it is compared with, which the list of them names further down.   *)
ComparedInTurn ==
    \A e \in DOMAIN elections : \A f \in PreviousComparable(e) :
        /\ \E i, j \in DOMAIN ListForCountry :
             i < j /\ ListForCountry[i] = e /\ ListForCountry[j] = f
        /\ ~\E g \in DOMAIN elections : /\ elections[g].kind = elections[e].kind
                                        /\ elections[g].held > elections[f].held
                                        /\ elections[g].held < elections[e].held

(* Bars go down, "Others" stands for all that is not shown, no bar of which  *)
(* would be longer than one that is; and when results and totals are of one  *)
(* edition the shares are those of the valid votes, but for the tenths that  *)
(* rounding drops.                                                           *)
SharesAddUp ==
    \A e \in {e \in DOMAIN elections : elections[e].valid > 0} :
        LET list == VoteShareList(e, BarLimit)
            bars == list.bars
            hidden == {r \in WithVotes(e) : \A i \in DOMAIN bars : bars[i].who # r.who}
            shown == Total([i \in DOMAIN bars |-> bars[i].share])
            votes == Total([r \in WithVotes(e) |-> r.votes])
            oneEdition == \A r \in ResultsOf(e) : r.edition = elections[e].edition
        IN /\ \A i \in 1..(Len(bars) - 1) : bars[i].share >= bars[i + 1].share
           /\ \A r \in hidden : \A i \in DOMAIN bars : Tenths(r.votes, e) <= bars[i].share
           /\ Tenths(votes, e) - (shown + list.others) \in 0..Len(bars)
           /\ oneEdition => shown + list.others <= 1000
           /\ \A i \in DOMAIN bars : Cardinality(bars[i].swing) <= 1
           /\ \A r, s \in LeaderBySeats(e) : r = s

(* What the pages show of elections is consistent, whatever rows have        *)
(* arrived and whatever day it is.                                           *)
ElectionPages == NextRoundWhole /\ ComparedInTurn /\ SharesAddUp
=============================================================================
