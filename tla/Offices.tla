------------------------------ MODULE Offices -------------------------------
(* Who belongs to which party and holds which office, row by row as the      *)
(* dataset brings it (db/people.rs upsert_membership, upsert_role), and what *)
(* the pages make of it: who sits in parliament, who leads a party, how      *)
(* large it is (db/country.rs, db/parties.rs). A country's page is put       *)
(* together from statements between which rows change.                       *)
(* A definition named after another with a suffix is a mistake one could     *)
(* make there; a property must tell it from the code.                        *)
EXTENDS Lists

CONSTANTS
    MembershipKeys,  \* keys the dataset may have: [person, party, start]
    RoleKeys,        \* [person, type, org, start]
    CountryOf,       \* [people and parties -> countries]
    Home,            \* the country whose page is read
    PartyOrder,      \* [parties -> Nat]: the order of their names
    PastElections,   \* [kind, held, seats]: the seats of each result, held 0 if unknown
    MaxWrites, MaxCountryPages \* bounds on the rows written and the pages asked for

VARIABLES
    memberships,  \* [keys -> ended]
    roles,        \* [keys -> ended]
    consulted,    \* what the page under way has read, or NothingRead
    country,      \* the last page served, or NothingRead; in both `since`, `during`,
                  \* `single` and `sitting` are history
    writes, visited

officesVars == <<memberships, roles, consulted, country, writes, visited>>

Persons == {k.person : k \in MembershipKeys} \cup {r.person : r \in RoleKeys}
Legislative == {"mp", "senator", "representative"}
NothingRead == [at |-> "nothing"]

(* Of the dataset: names are in an order, and dates and seats are numbers.   *)
ASSUME OfficesAssumption ==
    /\ \A k \in MembershipKeys : PartyOrder[k.party] \in Nat
    /\ IsFiniteSet(PastElections)
    /\ \A e \in PastElections : e.held \in Nat /\ e.seats \in Nat
    /\ {MaxWrites, MaxCountryPages} \subseteq Nat

OfficesTypeOK ==
    /\ DOMAIN memberships \subseteq MembershipKeys /\ DOMAIN roles \subseteq RoleKeys
    /\ \A k \in DOMAIN memberships : memberships[k] \in BOOLEAN
    /\ \A r \in DOMAIN roles : roles[r] \in BOOLEAN
    /\ \/ consulted = NothingRead
       \/ consulted.at \in {"seats", "independents", "chambers"} /\ consulted.since <= writes
    /\ \/ country = NothingRead
       \/ country.during \in 0..MaxWrites /\ country.independents \in Nat
    /\ writes \in 0..MaxWrites /\ visited \in 0..MaxCountryPages

-----------------------------------------------------------------------------
(* Rows are found by their key, where no start date is the same as none, and *)
(* told whether they ended.                                                  *)

Put(f, k, ended) == [x \in DOMAIN f \cup {k} |-> IF x = k THEN ended ELSE f[x]]
Write == writes < MaxWrites /\ writes' = writes + 1 /\ UNCHANGED <<consulted, country, visited>>

UpsertMembership(k, ended) ==
    /\ memberships' = Put(memberships, k, ended)
    /\ Write /\ UNCHANGED roles
UpsertRole(r, ended) ==
    /\ roles' = Put(roles, r, ended)
    /\ Write /\ UNCHANGED memberships

-----------------------------------------------------------------------------
(* What the queries return.                                                  *)

CurrentRows == {k \in DOMAIN memberships : ~memberships[k]}
MembersOf(q) == {k \in CurrentRows : k.party = q}
Unattached(p) == \A k \in CurrentRows : k.person # p
Held == {r \in DOMAIN roles : ~roles[r]}
Sitting == {r \in Held : r.type \in Legislative}
Sits(p) == \E r \in Sitting : r.person = p
Sitters == {p \in Persons : CountryOf[p] = Home /\ Sits(p)}

(* A row for each current membership of somebody who sits.                   *)
SeatDistribution(c) ==
    [q \in {k.party : k \in {k \in CurrentRows : CountryOf[k.party] = c /\ Sits(k.person)}} |->
        Cardinality({k \in MembersOf(q) : Sits(k.person)})]
UnaffiliatedEver(c) ==
    Cardinality({p \in Persons : CountryOf[p] = c /\ Sits(p)
                                 /\ \A k \in DOMAIN memberships : k.person # p})
Unaffiliated(c) == Cardinality({p \in Persons : CountryOf[p] = c /\ Sits(p) /\ Unattached(p)})

(* A row for each pair of a current membership and a seat, by chamber; then  *)
(* the independents of each, of which those of a chamber where nobody of a   *)
(* party sits are dropped.                                                   *)
ChamberSeats(c) == {x \in CurrentRows \X Sitting :
                        x[1].person = x[2].person /\ CountryOf[x[1].party] = c}
PartiesByChamber(c) ==
    [org \in {x[2].org : x \in ChamberSeats(c)} |->
        LET inOrg == {x \in ChamberSeats(c) : x[2].org = org}
        IN [q \in {x[1].party : x \in inOrg} |-> Cardinality({x \in inOrg : x[1].party = q})]]
IndependentsOf(org, c) ==
    Cardinality({r \in Sitting : /\ r.org = org
                                 /\ CountryOf[r.person] = c
                                 /\ Unattached(r.person)})
WithIndependents(parties, c) ==
    [org \in DOMAIN parties |->
        [parties |-> parties[org], independents |-> IndependentsOf(org, c)]]
Chambers(c) == WithIndependents(PartiesByChamber(c), c)
Seats(f) == Total(f)
TotalOf(ch) == Seats(ch.parties) + ch.independents

(* The seats of the most recent parliamentary election, or none.  Elections  *)
(* stay as they are in this part: it is the same whenever it is read.        *)
ChamberSize ==
    LET past == {e \in PastElections : e.kind = "parliamentary"}
        latest == {e \in past : \A f \in past : f.held <= e.held}
    IN IF past = {} THEN 0 ELSE (CHOOSE e \in latest : TRUE).seats

(* The party a list of people shows: the first by name.                      *)
CurrentParty(p) ==
    LET of == {k.party : k \in {k \in CurrentRows : k.person = p}}
    IN IF of = {} THEN {} ELSE {CHOOSE q \in of : \A s \in of : PartyOrder[q] <= PartyOrder[s]}
Leaders(q) ==
    {p \in Persons : /\ \E r \in Held : r.person = p /\ r.type = "party_leader"
                     /\ \E k \in MembersOf(q) : k.person = p}
ParliamentSeats(q) ==
    Cardinality({k \in MembersOf(q) : \E r \in Held : r.person = k.person /\ r.type = "mp"})
MemberCounts(q) == Cardinality(MembersOf(q))

(* Of a database: nobody has two parties at once, or one of another country; *)
(* nobody has two seats.                                                     *)
OnePartyEach ==
    /\ \A k, m \in CurrentRows : k.person = m.person => k = m
    /\ \A k \in CurrentRows : CountryOf[k.party] = CountryOf[k.person]
OneSeatEach == \A r, s \in Sitting : r.person = s.person => r = s

-----------------------------------------------------------------------------
(* The page of the country (pages/country.rs detail): one statement after    *)
(* another, then what is drawn.                                              *)

ReadSeats ==
    /\ consulted = NothingRead /\ visited < MaxCountryPages /\ visited' = visited + 1
    /\ consulted' = [at |-> "seats", seats |-> SeatDistribution(Home),
                     since |-> writes, single |-> OnePartyEach]
    /\ UNCHANGED <<memberships, roles, country, writes>>
ReadIndependents ==
    /\ consulted.at = "seats"
    /\ consulted' = [at |-> "independents", seats |-> consulted.seats,
                     independents |-> Unaffiliated(Home),
                     since |-> consulted.since, single |-> consulted.single /\ OnePartyEach]
    /\ UNCHANGED <<memberships, roles, country, writes, visited>>

ReadChambers ==
    /\ consulted.at = "independents"
    /\ consulted' = [at |-> "chambers", seats |-> consulted.seats,
                     independents |-> consulted.independents,
                     parties |-> PartiesByChamber(Home),
                     since |-> consulted.since, single |-> consulted.single]
    /\ UNCHANGED <<memberships, roles, country, writes, visited>>

(* Vacant seats are drawn when fewer sit than the chamber holds, and only    *)
(* for a legislature of one chamber.                                         *)
ServeCountry ==
    LET total == Seats(consulted.seats) + consulted.independents
        bicameral == Cardinality(DOMAIN consulted.parties) > 1
    IN /\ consulted.at = "chambers"
       /\ country' = [at |-> "served", seats |-> consulted.seats,
                      independents |-> consulted.independents,
                      chambers |-> WithIndependents(consulted.parties, Home),
                      vacant |-> IF ~bicameral /\ ChamberSize > total
                                 THEN ChamberSize - total ELSE 0,
                      during |-> writes - consulted.since, single |-> consulted.single,
                      sitting |-> Cardinality(Sitters)]
       /\ consulted' = NothingRead
       /\ UNCHANGED <<memberships, roles, writes, visited>>

OfficesInit ==
    /\ memberships = [k \in {} |-> FALSE] /\ roles = [r \in {} |-> FALSE]
    /\ consulted = NothingRead /\ country = NothingRead /\ writes = 0 /\ visited = 0

OfficesNext ==
    \/ \E k \in MembershipKeys, ended \in BOOLEAN : UpsertMembership(k, ended)
    \/ \E r \in RoleKeys, ended \in BOOLEAN : UpsertRole(r, ended)
    \/ ReadSeats \/ ReadIndependents \/ ReadChambers \/ ServeCountry

OfficesSpec == OfficesInit /\ [][OfficesNext]_officesVars

-----------------------------------------------------------------------------
Abs(n) == IF n < 0 THEN -n ELSE n

(* The composition reflects every seat we hold (unaffiliated_mp_count):      *)
(* once nobody has two parties, parties and independents together are those  *)
(* who sit, whatever came and ended before, and lists, leaders and parties'  *)
(* own pages agree with it; the chambers account for the same people, but    *)
(* for those of a chamber where only independents sit; and a page read while *)
(* n rows were written is off by no more than n.                             *)
SeatedOnce ==
    /\ OnePartyEach =>
        LET seats == SeatDistribution(Home)
        IN /\ Seats(seats) + Unaffiliated(Home) = Cardinality(Sitters)
           /\ \A q \in DOMAIN seats :
                /\ seats[q] = Cardinality({p \in Sitters : CurrentParty(p) = {q}})
                /\ ParliamentSeats(q) <= seats[q] /\ seats[q] <= MemberCounts(q)
           /\ \A q \in {k.party : k \in MembershipKeys} :
                \A p \in Leaders(q) : CurrentParty(p) = {q}
           /\ OneSeatEach =>
                LET chambers == Chambers(Home)
                    lost == {r \in Sitting : /\ CountryOf[r.person] = Home
                                             /\ r.org \notin DOMAIN chambers}
                IN /\ Total([org \in DOMAIN chambers |-> TotalOf(chambers[org])])
                          = Cardinality(Sitters) - Cardinality(lost)
                   /\ \A r \in lost : Unattached(r.person)
    /\ country # NothingRead =>
        LET total == Seats(country.seats) + country.independents
        IN /\ country.vacant > 0 => country.vacant + total = ChamberSize
           /\ country.single => Abs(total - country.sitting) <= country.during
=============================================================================
