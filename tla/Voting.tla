-------------------------------- MODULE Voting --------------------------------
(***************************************************************************)
(* Anonymous voting: crates/db/src/voting.rs, crates/server/src/voting.rs  *)
(* and the three handlers of crates/server/src/pages/poll.rs.              *)
(*                                                                         *)
(* A request runs in a slot of Reqs; every await on the database is a step *)
(* of its own, so the handlers of any number of instances interleave.      *)
(* A refusal that changes nothing (404, 409 on a closed poll, 400 on a     *)
(* malformed body) is a request that does not start.                       *)
(*                                                                         *)
(* Cryptography: a signature is the pair of the token and the key it was   *)
(* made with, verify_token compares the key, and a client can only present *)
(* a signature a blind_sign produced (RFC 9474 one-more unforgeability).   *)
(* A fresh key pair differs from every other.  SHA-256 is collision free,  *)
(* so a hash is the content it binds.                                      *)
(*                                                                         *)
(* A definition named after another with a suffix (EntitleAnyway, ...) is  *)
(* a mistake one could make there; a property must tell it from the code.  *)
(***************************************************************************)
EXTENDS Naturals, Sequences, FiniteSets

CONSTANTS
  Polls,       (* rows of polls                                           *)
  Users,       (* rows of users                                           *)
  Tokens,      (* the 32 random bytes a browser mints                     *)
  Keys,        (* RSA key pairs                                           *)
  OptionIds,   (* rows of poll_options                                    *)
  OptionsOf,   (* the options of each poll                                *)
  Multi,       (* the polls of kind "multi"                               *)
  Bodies,      (* the option_id lists a cast request may carry            *)
  Reqs,        (* slots for requests in flight                            *)
  Faults,      (* TRUE: requests are dropped at any await, deletes fail   *)
  None

ASSUME PollsAssumption == Polls # {}
ASSUME OptionsAssumption ==
  /\ OptionsOf \in [Polls -> SUBSET OptionIds]
  /\ Multi \subseteq Polls
  /\ Bodies \subseteq Seq(OptionIds)
ASSUME NoneAssumption == None \notin Users \union Tokens \union Keys \union Reqs
ASSUME FaultsAssumption == Faults \in BOOLEAN

VARIABLES
  standing,    (* users.verified_at and users.banned_at                   *)
  open,        (* is_open: closes_at has not passed                       *)
  public,      (* poll_issuer_keys.public_key, None without a row         *)
  private,     (* poll_issuer_keys.private_key                            *)
  entitled,    (* rows of vote_entitlements                               *)
  ballots,     (* rows of vote_ballots, in seq order                      *)
  lock,        (* pg_advisory_xact_lock(poll): the slot holding it        *)
  pc, job,     (* what each request does next, and its local values       *)
  signed,      (* every blind signature made; the server keeps none       *)
  held,        (* those whose response reached the browser                *)
  served       (* the public keys a poll page has shown                   *)

keyRows == <<public, private>>
ledger == <<ballots, lock>>
requests == <<pc, job>>
clients == <<signed, held, served>>
vars == <<standing, open, keyRows, entitled, ledger, requests, clients>>

Hash == [poll: Polls, entries: Seq([token: Tokens, choice: SUBSET OptionIds, seq: Nat])]
Ballot == [token: Tokens, key: Keys, choice: SUBSET OptionIds, seq: Nat,
           content: Hash, prev: Hash]
Signature == [poll: Polls, user: Users, token: Tokens, key: Keys]
Job == [kind: {"page", "issue", "cast"}, poll: Polls, user: Users \union {None},
        token: Tokens \union {None}, key: Keys \union {None},
        choice: SUBSET OptionIds, seq: Nat, prev: Hash]

IssueSteps == {"has_key", "keygen", "insert_key", "read_public", "read_private",
               "entitle", "sign", "undo", "respond"}
CastSteps == {"verify", "lock", "read_head", "record"}
Steps == {"idle", "failed"} \union IssueSteps \union CastSteps

------------------------------------------------------------------------------
(* The ballot chain.                                                       *)

BallotGenesis(p) == [poll |-> p, entries |-> <<>>]

BallotHash(prev, t, c, n) ==
  [prev EXCEPT !.entries = Append(@, [token |-> t, choice |-> c, seq |-> n])]

(* The last row of the poll's chain, as the next ballot needs it.          *)
HeadSeq(p) == IF ballots[p] = <<>> THEN 0 ELSE ballots[p][Len(ballots[p])].seq
HeadHash(p) ==
  IF ballots[p] = <<>> THEN BallotGenesis(p) ELSE ballots[p][Len(ballots[p])].content

TokenSpentIgnored(p, t) == FALSE
TokenSpent(p, t) == \E i \in DOMAIN ballots[p] : ballots[p][i].token = t
SeqTaken(p, n) == \E i \in DOMAIN ballots[p] : ballots[p][i].seq = n

(* The options a request really selects: the poll's own, as a set, and     *)
(* only the first of them unless the poll takes several.                   *)
Chosen(p, body) ==
  LET hits == {i \in DOMAIN body : body[i] \in OptionsOf[p]}
  IN IF p \in Multi
     THEN {body[i] : i \in hits}
     ELSE {body[i] : i \in {j \in hits : \A k \in hits : j <= k}}

------------------------------------------------------------------------------
(* Request slots.                                                          *)

NoJob == [kind |-> "page", poll |-> CHOOSE p \in Polls : TRUE, user |-> None,
          token |-> None, key |-> None, choice |-> {}, seq |-> 0,
          prev |-> BallotGenesis(CHOOSE p \in Polls : TRUE)]

Start(r, step, j) ==
  /\ pc[r] = "idle"
  /\ pc' = [pc EXCEPT ![r] = step]
  /\ job' = [job EXCEPT ![r] = j]

At(r, step) == pc[r] = step

Goto(r, step) ==
  /\ pc' = [pc EXCEPT ![r] = step]
  /\ UNCHANGED job

GotoWithKey(r, step, k) ==
  /\ pc' = [pc EXCEPT ![r] = step]
  /\ job' = [job EXCEPT ![r].key = k]

Finish(r) ==
  /\ pc' = [pc EXCEPT ![r] = "idle"]
  /\ job' = [job EXCEPT ![r] = NoJob]

------------------------------------------------------------------------------
(* Accounts and time.                                                      *)

Verify(u) ==
  /\ standing[u] = "unverified"
  /\ standing' = [standing EXCEPT ![u] = "verified"]
  /\ UNCHANGED <<open, keyRows, entitled, ledger, requests, clients>>

Ban(u) ==
  /\ standing[u] = "verified"
  /\ standing' = [standing EXCEPT ![u] = "banned"]
  /\ UNCHANGED <<open, keyRows, entitled, ledger, requests, clients>>

(* closes_at passes.                                                       *)
ClosePoll(p) ==
  /\ open[p]
  /\ open' = [open EXCEPT ![p] = FALSE]
  /\ UNCHANGED <<standing, keyRows, entitled, ledger, requests, clients>>

------------------------------------------------------------------------------
(* ensure_issuer_key, reached from the poll page and from issue_token.     *)

(* The first step after the key is known to exist.                         *)
AfterKey(r) == IF job[r].kind = "page" THEN "read_public" ELSE "read_private"

HasKey(r) ==
  /\ At(r, "has_key")
  /\ Goto(r, IF public[job[r].poll] # None THEN AfterKey(r) ELSE "keygen")
  /\ UNCHANGED <<standing, open, keyRows, entitled, ledger, clients>>

FreshKeys ==
  Keys \ ({public[p] : p \in Polls} \union {job[r].key : r \in Reqs})

(* spawn_blocking(generate_issuer_keypair).                                *)
Keygen(r) ==
  /\ At(r, "keygen")
  /\ \E k \in FreshKeys : GotoWithKey(r, "insert_key", k)
  /\ UNCHANGED <<standing, open, keyRows, entitled, ledger, clients>>

InsertKeyOverwrites(r) ==
  /\ At(r, "insert_key")
  /\ public' = [public EXCEPT ![job[r].poll] = job[r].key]
  /\ private' = [private EXCEPT ![job[r].poll] = job[r].key]
  /\ GotoWithKey(r, AfterKey(r), None)
  /\ UNCHANGED <<standing, open, entitled, ledger, clients>>

(* insert ... on conflict (poll_id) do nothing: the first generated wins.  *)
InsertKey(r) ==
  LET p == job[r].poll
      k == IF public[p] = None THEN job[r].key ELSE public[p]
      s == IF public[p] = None THEN job[r].key ELSE private[p]
  IN /\ At(r, "insert_key")
     /\ public' = [public EXCEPT ![p] = k]
     /\ private' = [private EXCEPT ![p] = s]
     /\ GotoWithKey(r, AfterKey(r), None)
     /\ UNCHANGED <<standing, open, entitled, ledger, clients>>

------------------------------------------------------------------------------
(* detail: an open poll's page gives a signed-in visitor the key to blind  *)
(* a token against.                                                        *)

PageStart(r, u, p) ==
  /\ standing[u] = "verified"
  /\ open[p]
  /\ Start(r, "has_key", [NoJob EXCEPT !.poll = p, !.user = u])
  /\ UNCHANGED <<standing, open, keyRows, entitled, ledger, clients>>

ReadPublic(r) ==
  /\ At(r, "read_public")
  /\ served' = [served EXCEPT ![job[r].poll] = @ \union ({public[job[r].poll]} \ {None})]
  /\ Finish(r)
  /\ UNCHANGED <<standing, open, keyRows, entitled, ledger, signed, held>>

------------------------------------------------------------------------------
(* issue_token.                                                            *)

(* The session is read once, at the start: a ban that lands later does not *)
(* stop the request.                                                       *)
IssueStart(r, u, p, t) ==
  /\ standing[u] = "verified"
  /\ open[p]
  /\ Start(r, "has_key",
           [NoJob EXCEPT !.kind = "issue", !.poll = p, !.user = u, !.token = t])
  /\ UNCHANGED <<standing, open, keyRows, entitled, ledger, clients>>

ReadPrivate(r) ==
  /\ At(r, "read_private")
  /\ IF private[job[r].poll] = None
     THEN Finish(r)
     ELSE GotoWithKey(r, "entitle", private[job[r].poll])
  /\ UNCHANGED <<standing, open, keyRows, entitled, ledger, clients>>

Row(r) == [poll |-> job[r].poll, user |-> job[r].user]

EntitleAnyway(r) ==
  /\ At(r, "entitle")
  /\ entitled' = entitled \union {Row(r)}
  /\ Goto(r, "sign")
  /\ UNCHANGED <<standing, open, keyRows, ledger, clients>>

(* The request has inserted its entitlement and not signed yet.             *)
Owns(r) == pc[r] \in {"sign", "undo"}

(* record_entitlement: the unique (poll_id, user_id) insert.               *)
Entitle(r) ==
  /\ At(r, "entitle")
  /\ IF Row(r) \in entitled
     THEN Finish(r) /\ UNCHANGED entitled
     ELSE Goto(r, "sign") /\ entitled' = entitled \union {Row(r)}
  /\ UNCHANGED <<standing, open, keyRows, ledger, clients>>

SignatureOf(r) == [poll |-> job[r].poll, user |-> job[r].user,
                   token |-> job[r].token, key |-> job[r].key]

Sign(r) ==
  /\ At(r, "sign")
  /\ signed' = signed \union {SignatureOf(r)}
  /\ Goto(r, "respond")
  /\ UNCHANGED <<standing, open, keyRows, entitled, ledger, held, served>>

SignFailsKeeping(r) ==
  /\ At(r, "sign")
  /\ Finish(r)
  /\ UNCHANGED <<standing, open, keyRows, entitled, ledger, clients>>

(* A blinded message that is not below the modulus is refused by the       *)
(* library, and the entitlement is to be given back.                       *)
SignFails(r) ==
  /\ At(r, "sign")
  /\ Goto(r, "undo")
  /\ UNCHANGED <<standing, open, keyRows, entitled, ledger, clients>>

DeleteEntitlement(r) ==
  /\ At(r, "undo")
  /\ entitled' = entitled \ {Row(r)}
  /\ Finish(r)
  /\ UNCHANGED <<standing, open, keyRows, ledger, clients>>

RespondGivesBack(r) ==
  /\ At(r, "respond")
  /\ held' = held \union {SignatureOf(r)}
  /\ entitled' = entitled \ {Row(r)}
  /\ Finish(r)
  /\ UNCHANGED <<standing, open, keyRows, ledger, signed, served>>

Respond(r) ==
  /\ At(r, "respond")
  /\ held' = held \union {SignatureOf(r)}
  /\ Finish(r)
  /\ UNCHANGED <<standing, open, keyRows, entitled, ledger, signed, served>>

------------------------------------------------------------------------------
(* cast and cast_ballot.                                                   *)

(* Anyone may present any token with any signature, or with a made-up one. *)
CastStart(r, p, t, k, body) ==
  /\ open[p]
  /\ Chosen(p, body) # {}
  /\ k # None => \E s \in held : s.token = t /\ s.key = k
  /\ Start(r, "verify",
           [NoJob EXCEPT !.kind = "cast", !.poll = p, !.token = t, !.key = k,
                         !.choice = Chosen(p, body)])
  /\ UNCHANGED <<standing, open, keyRows, entitled, ledger, clients>>

(* public_key, then verify_token under it.                                 *)
VerifyToken(r) ==
  /\ At(r, "verify")
  /\ IF public[job[r].poll] = None \/ job[r].key # public[job[r].poll]
     THEN Finish(r)
     ELSE Goto(r, "lock")
  /\ UNCHANGED <<standing, open, keyRows, entitled, ledger, clients>>

(* The cast's transaction holds the poll's advisory lock.                  *)
InLock(r) == pc[r] \in {"read_head", "record"}

AcquireLockAnyway(r) ==
  /\ At(r, "lock")
  /\ lock' = [lock EXCEPT ![job[r].poll] = r]
  /\ Goto(r, "read_head")
  /\ UNCHANGED <<standing, open, keyRows, entitled, ballots, clients>>

AcquireLock(r) ==
  /\ At(r, "lock")
  /\ lock[job[r].poll] = None
  /\ lock' = [lock EXCEPT ![job[r].poll] = r]
  /\ Goto(r, "read_head")
  /\ UNCHANGED <<standing, open, keyRows, entitled, ballots, clients>>

ReadHead(r) ==
  /\ At(r, "read_head")
  /\ pc' = [pc EXCEPT ![r] = "record"]
  /\ job' = [job EXCEPT ![r].seq = HeadSeq(job[r].poll) + 1,
                        ![r].prev = HeadHash(job[r].poll)]
  /\ UNCHANGED <<standing, open, keyRows, entitled, ledger, clients>>

NewBallot(r) ==
  [token |-> job[r].token, key |-> job[r].key, choice |-> job[r].choice,
   seq |-> job[r].seq, prev |-> job[r].prev,
   content |-> BallotHash(job[r].prev, job[r].token, job[r].choice, job[r].seq)]

ReleaseForgotten(p) == UNCHANGED lock
Release(p) == lock' = [lock EXCEPT ![p] = None]

(* The insert, the option rows and the commit are one step: no other       *)
(* transaction sees them apart.  A spent token rolls back; a taken seq     *)
(* violates unique (poll_id, seq) and the voter gets a server error.       *)
Record(r) ==
  LET p == job[r].poll
  IN /\ At(r, "record")
     /\ Release(p)
     /\ IF TokenSpent(p, job[r].token)
        THEN Finish(r) /\ UNCHANGED ballots
        ELSE IF SeqTaken(p, job[r].seq)
             THEN Goto(r, "failed") /\ UNCHANGED ballots
             ELSE /\ ballots' = [ballots EXCEPT ![p] = Append(@, NewBallot(r))]
                  /\ Finish(r)
     /\ UNCHANGED <<standing, open, keyRows, entitled, clients>>

------------------------------------------------------------------------------
(* Faults.                                                                 *)

(* The connection or the process goes away: the handler future is dropped  *)
(* at the await it is in, and an open transaction rolls back.              *)
Abort(r) ==
  /\ Faults
  /\ pc[r] \notin {"idle", "failed"}
  /\ lock' = [p \in Polls |-> IF lock[p] = r THEN None ELSE lock[p]]
  /\ Finish(r)
  /\ UNCHANGED <<standing, open, keyRows, entitled, ballots, clients>>

(* let _ = delete_entitlement(..).await: an error is dropped.              *)
DeleteFails(r) ==
  /\ Faults
  /\ At(r, "undo")
  /\ Finish(r)
  /\ UNCHANGED <<standing, open, keyRows, entitled, ledger, clients>>

------------------------------------------------------------------------------
Init ==
  /\ standing = [u \in Users |-> "unverified"]
  /\ open = [p \in Polls |-> TRUE]
  /\ public = [p \in Polls |-> None]
  /\ private = [p \in Polls |-> None]
  /\ entitled = {}
  /\ ballots = [p \in Polls |-> <<>>]
  /\ lock = [p \in Polls |-> None]
  /\ pc = [r \in Reqs |-> "idle"]
  /\ job = [r \in Reqs |-> NoJob]
  /\ signed = {}
  /\ held = {}
  /\ served = [p \in Polls |-> {}]

EnsureIssuerKey(r) == HasKey(r) \/ Keygen(r) \/ InsertKey(r)

IssueToken(r) ==
  \/ ReadPrivate(r) \/ Entitle(r) \/ Sign(r) \/ SignFails(r)
  \/ DeleteEntitlement(r) \/ Respond(r)

CastBallot(r) == VerifyToken(r) \/ AcquireLock(r) \/ ReadHead(r) \/ Record(r)

Environment ==
  \/ \E u \in Users : Verify(u) \/ Ban(u)
  \/ \E p \in Polls : ClosePoll(p)

Arrival(r) ==
  \/ \E u \in Users, p \in Polls : PageStart(r, u, p)
  \/ \E u \in Users, p \in Polls, t \in Tokens : IssueStart(r, u, p, t)
  \/ \E p \in Polls, t \in Tokens, k \in Keys \union {None}, body \in Bodies :
       CastStart(r, p, t, k, body)

Fault(r) == Abort(r) \/ DeleteFails(r)

Handler(r) == EnsureIssuerKey(r) \/ ReadPublic(r) \/ IssueToken(r) \/ CastBallot(r)

Next == Environment \/ \E r \in Reqs : Arrival(r) \/ Handler(r) \/ Fault(r)

Spec == Init /\ [][Next]_vars

(* The runtime polls every future that can make progress, and PostgreSQL   *)
(* queues the waiters of an advisory lock first come, first served.        *)
Fairness == \A r \in Reqs : WF_vars(Handler(r)) /\ SF_vars(AcquireLock(r))

FairSpec == Spec /\ Fairness

------------------------------------------------------------------------------
(* Properties.                                                             *)

TypeOK ==
  /\ standing \in [Users -> {"unverified", "verified", "banned"}]
  /\ open \in [Polls -> BOOLEAN]
  /\ public \in [Polls -> Keys \union {None}]
  /\ private \in [Polls -> Keys \union {None}]
  /\ entitled \in SUBSET [poll: Polls, user: Users]
  /\ ballots \in [Polls -> Seq(Ballot)]
  /\ lock \in [Polls -> Reqs \union {None}]
  /\ pc \in [Reqs -> Steps]
  /\ job \in [Reqs -> Job]
  /\ signed \in SUBSET Signature
  /\ held \in SUBSET Signature
  /\ served \in [Polls -> SUBSET Keys]

(* record_entitlement is "the atomic one-token-per-account gate under a    *)
(* race": however requests, failed signatures and deletions interleave, an *)
(* account never gets two signatures for one poll.                         *)
OneSignaturePerAccount ==
  \A s, t \in signed : s.poll = t.poll /\ s.user = t.user => s = t

(* The public bound spent <= issued of Reconciliation.                     *)
SpentWithinIssued ==
  \A p \in Polls : Len(ballots[p]) <= Cardinality({e \in entitled : e.poll = p})

(* The bound on issued that survives a ban: every entitlement belongs to   *)
(* an account that was verified, whatever happened to it since.            *)
IssuedWithinVerified ==
  \A e \in entitled : standing[e.user] # "unverified"

(* A page's key is what the browser blinds against: of two requests that   *)
(* generate a key at once, none may show a key that does not stay.         *)
ServedKeyStands ==
  \A p \in Polls : \A k \in served[p] : public[p] = k

(* Every signature an account spent its one entitlement on still verifies  *)
(* under its poll's key, and under no other poll's.                        *)
SignaturesStayValid ==
  \A s \in signed : \A p \in Polls : public[p] = s.key <=> p = s.poll

(* A replayed token changes nothing, also when both requests were already  *)
(* past the signature check.                                               *)
OneBallotPerToken ==
  \A p \in Polls : \A i, j \in DOMAIN ballots[p] :
    ballots[p][i].token = ballots[p][j].token => i = j

(* Every ballot spends a signature issued for this very poll.              *)
BallotsAuthentic ==
  \A p \in Polls : \A i \in DOMAIN ballots[p] :
    \E s \in signed : s.poll = p /\ s.token = ballots[p][i].token

(* The chain is linear and gap-free: row i has seq i, links to row i-1 and *)
(* its hash covers exactly the rows up to it.                              *)
ChainLinear ==
  \A p \in Polls : \A i \in DOMAIN ballots[p] :
    LET b == ballots[p][i]
    IN /\ b.seq = i
       /\ b.prev = IF i = 1 THEN BallotGenesis(p) ELSE ballots[p][i - 1].content
       /\ b.content = BallotHash(b.prev, b.token, b.choice, b.seq)

(* A ballot holds options of its own poll, and one only unless the poll    *)
(* takes several.                                                          *)
Fits(p, c) ==
  /\ c # {} /\ c \subseteq OptionsOf[p]
  /\ p \notin Multi => \A x, y \in c : x = y

ChoicesFit ==
  \A p \in Polls : \A i \in DOMAIN ballots[p] : Fits(p, ballots[p][i].choice)

(* The advisory lock is there so that casts at the same moment wait rather *)
(* than collide on (poll_id, seq): no voter is turned away with an error.  *)
NoCastFails == \A r \in Reqs : pc[r] # "failed"

(* Without faults, an entitlement is never burnt: either its request is    *)
(* still running or it bought a signature.                                 *)
NoEntitlementBurnt ==
  ~Faults => \A e \in entitled :
    \/ \E s \in signed : s.poll = e.poll /\ s.user = e.user
    \/ \E r \in Reqs : Owns(r) /\ Row(r) = e

(* What anyone may check of a poll after the fact, all at once: accounts   *)
(* were given one signature each, tokens spent once, in a linear chain,    *)
(* under the poll's own key, and no more of them than were asked for by    *)
(* verified accounts.                                                      *)
BallotsSound ==
  /\ OneSignaturePerAccount /\ IssuedWithinVerified
  /\ SignaturesStayValid
  /\ OneBallotPerToken /\ ChainLinear
  /\ SpentWithinIssued

(* Nobody waits for ever on the poll's lock or on another request.         *)
RequestsEnd == \A r \in Reqs : pc[r] # "idle" ~> pc[r] = "idle"

------------------------------------------------------------------------------
(* The inductive invariant.  TypeOK and the properties above are not       *)
(* inductive: they rest on what each request in flight still knows to be   *)
(* true of the tables.                                                     *)

(* The steps after a request has read the poll's key.                      *)
KeyedSteps == {"entitle", "sign", "respond", "lock", "read_head", "record"}

(* A request carries the arguments its remaining steps use.                *)
JobFits(r) ==
  /\ pc[r] \in {"read_private", "entitle", "sign", "undo", "respond"} => job[r].kind = "issue"
  /\ pc[r] \in {"has_key", "keygen", "insert_key"} => job[r].kind # "cast"
  /\ pc[r] \in IssueSteps /\ job[r].kind = "issue" =>
       /\ job[r].user \in Users
       /\ job[r].token \in Tokens
       /\ standing[job[r].user] # "unverified"
  /\ pc[r] \in CastSteps => job[r].token \in Tokens
  /\ pc[r] \in KeyedSteps => job[r].key # None

JobsFit == \A r \in Reqs : JobFits(r)

(* Key pairs are distinct, a key read from the table is still the poll's,  *)
(* and so is the key of every signature made.                              *)
KeysFit ==
  /\ private = public
  /\ \A p, q \in Polls : public[p] # None /\ public[p] = public[q] => p = q
  /\ \A r \in Reqs : At(r, "insert_key") =>
       /\ job[r].key # None
       /\ \A p \in Polls : public[p] # job[r].key
       /\ \A q \in Reqs : At(q, "insert_key") /\ job[q].key = job[r].key => q = r
  /\ \A r \in Reqs : pc[r] \in KeyedSteps => job[r].key = public[job[r].poll]
  /\ \A s \in signed : s.key = public[s.poll]

(* The request between its entitlement row and its signature owns that row.*)
EntitlementsOwned ==
  /\ \A r \in Reqs : Owns(r) =>
       /\ Row(r) \in entitled
       /\ \A s \in signed : ~(s.poll = job[r].poll /\ s.user = job[r].user)
       /\ \A q \in Reqs : Owns(q) /\ Row(q) = Row(r) => q = r
  /\ \A r \in Reqs : At(r, "respond") => SignatureOf(r) \in signed
  /\ \A s \in signed : [poll |-> s.poll, user |-> s.user] \in entitled
  /\ held \subseteq signed

(* A cast in flight presents a signature somebody was given, or none.      *)
CastsBacked ==
  \A r \in Reqs : pc[r] \in CastSteps /\ job[r].key # None =>
    \E s \in signed : s.token = job[r].token /\ s.key = job[r].key

(* The lock is held exactly between its two steps, so the head a cast has  *)
(* read is still the head when it records.                                 *)
LockFits ==
  /\ \A p \in Polls, r \in Reqs : lock[p] = r <=> InLock(r) /\ job[r].poll = p
  /\ \A r \in Reqs : At(r, "record") =>
       job[r].seq = HeadSeq(job[r].poll) + 1 /\ job[r].prev = HeadHash(job[r].poll)

CastChoiceFits ==
  \A r \in Reqs : pc[r] \in CastSteps => Fits(job[r].poll, job[r].choice)

IInv ==
  /\ TypeOK
  /\ JobsFit /\ IssuedWithinVerified
  /\ KeysFit /\ ServedKeyStands
  /\ EntitlementsOwned /\ OneSignaturePerAccount
  /\ CastsBacked /\ BallotsAuthentic
  /\ LockFits /\ ChainLinear /\ OneBallotPerToken
  /\ CastChoiceFits /\ ChoicesFit
  /\ NoCastFails

------------------------------------------------------------------------------
(* The abstract promise.                                                   *)
Box == INSTANCE BallotBox WITH
  tickets <- {[poll |-> s.poll, user |-> s.user, token |-> s.token] : s \in signed},
  box <- [p \in Polls |-> [i \in DOMAIN ballots[p] |->
            [token |-> ballots[p][i].token, choice |-> ballots[p][i].choice]]]

ImplementsBallotBox == Box!Spec

(* The bound the poll page prints: "requested never exceeds eligible",     *)
(* eligible being the verified accounts that are not banned.               *)
RequestedWithinEligible ==
  \A p \in Polls : Cardinality({e \in entitled : e.poll = p})
                     <= Cardinality({u \in Users : standing[u] = "verified"})

(* "The private key is destroyed when a poll closes."                      *)
KeyDestroyedAtClose ==
  \A p \in Polls : ~open[p] ~> private[p] = None
==============================================================================
