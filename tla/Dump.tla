-------------------------------- MODULE Dump --------------------------------
(* The public record of the anonymous polls (pages/data.rs polls,            *)
(* db/export.rs): three statements that each see a moment of their own,      *)
(* merged into one document, beside people who vote and accounts banned.     *)
(* A definition named after another with a suffix is a mistake one could     *)
(* make there; a property must tell it from the code.                        *)
EXTENDS Naturals, Sequences, FiniteSets

CONSTANTS
    Polls,             \* the polls that are no approval polls
    Options,           \* the options of a poll
    Accounts,
    Fresh,             \* accounts younger than a week when they are issued
    MinParticipants,   \* below it no share of new accounts is shown
    NoShare,
    MaxDumps           \* bound on the documents asked for

ASSUME DumpAssumption ==
    MinParticipants \in Nat \ {0} /\ MaxDumps \in Nat /\ IsFiniteSet(Accounts)

VARIABLES
    box,               \* [Polls -> Seq(SUBSET Options)], in chain order
    issued,            \* [Polls -> SUBSET Accounts]: entitlements
    banned,            \* of the verified accounts
    reading,           \* what the dump under way has read so far
    dump,              \* the last document served
    asked              \* how many were asked for

dumpVars == <<box, issued, banned, reading, dump, asked>>

NotRead == [at |-> "nothing"]
DumpTypeOK ==
    /\ box \in [Polls -> Seq(SUBSET Options)]
    /\ issued \in [Polls -> SUBSET Accounts] /\ banned \subseteq Accounts
    /\ reading.at \in {"nothing", "tallies", "ballots"}
    /\ dump = NotRead \/ dump.eligible <= Cardinality(Accounts)
    /\ asked \in 0..MaxDumps

DumpInit ==
    /\ box = [p \in Polls |-> <<>>]
    /\ issued = [p \in Polls |-> {}]
    /\ banned = {}
    /\ reading = NotRead /\ dump = NotRead
    /\ asked = 0

-----------------------------------------------------------------------------
(* What goes on beside (the whole of it is in Voting).                       *)

Issue(p, a) ==
    /\ a \notin banned \cup issued[p]
    /\ issued' = [issued EXCEPT ![p] = @ \cup {a}]
    /\ UNCHANGED <<box, banned, reading, dump, asked>>
Cast(p, choice) ==
    /\ Len(box[p]) < Cardinality(issued[p])
    /\ box' = [box EXCEPT ![p] = Append(@, choice)]
    /\ UNCHANGED <<issued, banned, reading, dump, asked>>
Ban(a) ==
    /\ a \notin banned
    /\ banned' = banned \cup {a}
    /\ UNCHANGED <<box, issued, reading, dump, asked>>

-----------------------------------------------------------------------------
(* The three statements.                                                     *)

CohortPct(total, new) ==
    IF total >= MinParticipants THEN (new * 100 + total \div 2) \div total ELSE NoShare

BallotTallies == [p \in Polls |->
    [votes |-> [o \in Options |-> Cardinality({n \in DOMAIN box[p] : o \in box[p][n]})],
     issued |-> Cardinality(issued[p]),
     spent |-> Len(box[p]),
     head |-> Len(box[p]),
     share |-> CohortPct(Cardinality(issued[p]), Cardinality(issued[p] \cap Fresh))]]
AnonBallots == box
EligibleVoters == Cardinality(Accounts \ banned)

ReadTallies ==
    /\ reading = NotRead /\ asked < MaxDumps
    /\ asked' = asked + 1
    /\ reading' = [at |-> "tallies", polls |-> BallotTallies]
    /\ UNCHANGED <<box, issued, banned, dump>>
ReadBallots ==
    /\ reading.at = "tallies"
    /\ reading' = [at |-> "ballots", polls |-> reading.polls, ballots |-> AnonBallots]
    /\ UNCHANGED <<box, issued, banned, dump, asked>>
ServeDumpRereading ==
    /\ reading.at = "ballots"
    /\ dump' = [at |-> "served", polls |-> BallotTallies, ballots |-> reading.ballots,
                eligible |-> EligibleVoters]
    /\ reading' = NotRead
    /\ UNCHANGED <<box, issued, banned, asked>>
ServeDump ==
    /\ reading.at = "ballots"
    /\ dump' = [at |-> "served", polls |-> reading.polls, ballots |-> reading.ballots,
                eligible |-> EligibleVoters]
    /\ reading' = NotRead
    /\ UNCHANGED <<box, issued, banned, asked>>

DumpNext ==
    \/ \E p \in Polls, a \in Accounts : Issue(p, a)
    \/ \E p \in Polls, choice \in SUBSET Options \ {{}} : Cast(p, choice)
    \/ \E a \in Accounts : Ban(a)
    \/ ReadTallies \/ ReadBallots \/ ServeDump

DumpSpec == DumpInit /\ [][DumpNext]_dumpVars

-----------------------------------------------------------------------------
(* Properties.                                                               *)

Counted(p, n, o) == Cardinality({k \in 1..n : o \in dump.ballots[p][k]})

(* Whatever happens between its statements, a document can be checked        *)
(* against itself: the ballots up to a poll's head are there, they give the  *)
(* votes of every option, there are as many as spent and no more than were   *)
(* issued, and the share of new accounts is a percentage.                    *)
DumpReconciles ==
    dump # NotRead => \A p \in Polls :
        LET poll == dump.polls[p]
        IN  /\ poll.head <= Len(dump.ballots[p])
            /\ \A o \in Options : Counted(p, poll.head, o) = poll.votes[o]
            /\ poll.spent = poll.head /\ poll.spent <= poll.issued
            /\ poll.share = NoShare \/ poll.share \in 0..100

(* The note in the document: each option's tally, recomputed by counting the *)
(* ballots that selected it, must match.  The ballots are read after it.     *)
CountsMatch ==
    dump # NotRead => \A p \in Polls, o \in Options :
        Counted(p, Len(dump.ballots[p]), o) = dump.polls[p].votes[o]
=============================================================================
