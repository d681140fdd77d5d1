# Verification of the participation platform

The repository is a web server (Rust, axum, sqlx on PostgreSQL) that publishes a sourced record
of politicians, parties and elections and lets verified accounts vote anonymously in polls,
propose polls, follow politicians and approve of them monthly. This directory holds TLA+
specifications of it, configurations that model-check them with TLC on small instances, and
theorems about them checked by TLAPS.

Definitions keep the source's names where they can; `PROJECT.json` maps each definition that
models code to its lines.

## The system

One process per instance (two overlap during a blue-green deploy) runs the HTTP handlers on a
multi-threaded runtime, a loop that screens proposed polls and a loop that mirrors images. All
instances share one PostgreSQL database, at the default isolation level READ COMMITTED, through
a pool of five connections. There is no state in memory that matters: handlers interact through
rows, and what makes them hard is that every `await` on a statement lets another handler in,
that a client that goes away drops its handler at the `await` it is in, and that a process may
die there.

| Component | State it keeps | Operations | What makes it correct | Model |
| --- | --- | --- | --- | --- |
| Anonymous voting (`db/voting.rs`, `server/voting.rs`, `pages/poll.rs`) | `poll_issuer_keys`, `vote_entitlements`, `vote_ballots`; signatures held by browsers | poll page, issue a token, cast | one signature per account and poll, one ballot per token, authentic ballots, a linear chain, the public bounds | `Voting`, `BallotBox` |
| Poll submissions and moderation (`db/submissions.rs`, `reviewer.rs`, `pages/submit.rs`, `pages/admin.rs`) | `poll_submissions`, `assets`, `users.banned_at`, `polls` | propose, screen, approve, reject, ban | one poll per approval, final decisions, nothing public unapproved, no submission stuck, strikes suspend | `Moderation` |
| Accounts and sessions (`pages/auth.rs`, `db/users.rs`, `sessions.rs`, `email_verifications.rs`, `password_resets.rs`, `admin_account.rs`) | `users`, `sessions`, `email_verifications`, `password_resets` | register, verify, log in and out, forget and reset a password, appoint an admin | an unverified or banned account never acts, links work once, a password changes only by a mailed link, a reset drops every session | `Accounts` |
| Proof of work (`server/captcha.rs`, `db/captcha.rs`) | `captcha_used` | challenge, verify | a solution is accepted once | `Captcha` |
| Monthly approvals (`db/approvals.rs`, `pages/approve.rs`, trigger `poll_votes_chain`) | `polls` of kind approval, `poll_votes`, `poll_chains` | cast, the panel that answers | one poll and one approval per account, entity and month, a linear chain, a cast that fails over a taken slug only | `Approvals`, `ApprovalRegister` |
| The voting island (`assets/vote-island.js`) | `localStorage` of a browser, the open pages | warm a token, cast, retry | a signed token is not lost, thanks only for counted ballots | `Island` |
| News, outlets, statements (`api.rs`, `db/news.rs`, `service/news.rs`, `statements.rs`, `sources.rs`, `outlets.rs`) | `sources`, `news_items`, mentions, related items, `statements`, `outlets` | deliver, edit, draft, publish, discard, link, list | one row a document, deliveries decide nothing, lists lose nothing | `Newsroom` |
| Editor's queues (`pages/admin.rs` over `parties.rs`, `people.rs`, `translations.rs`, `corrections.rs`, `conflicts.rs`; `pages/corrections.rs`, `content.rs`) | drafts of summaries, `translations`, `correction_reports`, `source_conflicts`; open pages | propose, publish, discard, report, close, record, resolve | a proposal is published at most once, a decided report stays decided and forgets its address | `Desk` |
| Follows and the feed (`db/follows.rs`, `pages/follow.rs`, `feed.rs`) | `follows` | toggle, feed | idempotent under double clicks; ordered, nothing twice | `Follows` |
| Compass (`domain/compass.rs`, `db/compass.rs`, `pages/compass.rs`, `compass_share.rs`) | `theses`, `position_evidence`; share links | file and remove evidence, match, share, open a link | a percentage is a mean, nobody is shown twice | `Compass` |
| Image storage and mirror (`media.rs`, `assets.rs`, `mirror.rs`) | files by content hash or address, `assets` | store, publish, serve; a pass of the mirror | no half file is taken for a whole one, a host's rest is kept | `Files` (an upload's visibility: `Moderation`) |
| Import (`crates/ingest`) | every content table | import a dataset, fail half way, import again | the files rebuild the record; loading twice changes nothing | `Import` |
| Countries and elections (`db/country.rs`, `elections.rs`, `people.rs`, `parties.rs`, `ui/election.rs`, pages) | memberships, roles, elections, results | pages while rows arrive | who sits is shown once; shares add up | `Offices`, `Elections` |
| Public data (`pages/data.rs`, `db/export.rs`) | none | dump of the polls | a document can be recounted from itself | `Dump` |
| Email deliverability (`email_mx.rs`, `email_blocklist.rs`) | none | check an address | nobody is refused for a failed lookup | `MailCheck` |
| Addresses (`slug.rs`) | slugs | number an address | see `Moderation` (`FreeSlug`) | partly |
| Construction gate; events, alliances, roll calls, group votes, search; formats, JSON-LD, pages, configuration, interface translations, mail text | none | rendering, filters | wording and layout | not modelled |

## Modules

| Module | Role |
| --- | --- |
| `Voting` | issuer keys, token issuing and casting: one action per `await` of the handlers |
| `BallotBox` | the abstract promise of a poll: at most one ticket per account, each ticket dropped at most once, nothing leaves the box |
| `VotingProofs` | its inductive invariant, layer by layer, and its theorems |
| `Moderation`, `ModerationProofs` | submissions, the review loop, decisions, strikes, addresses and images: one action per statement of a transaction |
| `Accounts`, `AccountsProofs` | registration, verification, login, logout, reset and appointment: one action per statement, links that expire, mails that fail |
| `Island`, `IslandProofs` | the browser's half of a vote against `BallotBox`, the server's promise |
| `Approvals`, `ApprovalsProofs` | the monthly cast, its transaction with the vote-chain trigger, and the panel |
| `ApprovalRegister` | the abstract promise of monthly approval: an account says one thing and it stands |
| `Captcha` | challenges, deadlines and the single-use guard |
| `Newsroom`, `NewsroomProofs` | deliveries of the ingest API statement by statement with the rows and keys they hold, the editor's forms, the pages that list articles |
| `Desk` | the queues of summaries, translations, reports and conflicts, decided from pages of any age |
| `Follows` | clicks that read and then write, and the feed of three queries under one limit |
| `Compass` | the scorer, the evidence and the four reads of a result, share links |
| `Files` | uploads and mirrored copies over writes that are not atomic, with crashes |
| `Import` | one row of one file at a time, with the conflict clause of each table |
| `Offices` | memberships and roles row by row, and who sits, leads and counts |
| `Elections` | editions of results, the next round, comparison, shares of the vote |
| `Dump` | the three statements of the polls' dump, over an abstract box |
| `MailCheck` | shape, list and DNS answers, each of which may fail |
| `Lists` | lists in an order and totals, as the readers above make them of rows |
| `Record` | the eleven parts above that share no state, `Captcha` among them, side by side |
| `RecordProofs` | theorems of `MailCheck`, `Files`, `Desk`, `Dump`, `Import` and `Captcha`, one part after another |
| `PagesProofs` | theorems of `Follows`, `Newsroom`'s pages, `Offices`, `Elections` and `Compass`, and of `Record` |
| `MCVoting`, `MCModeration`, `MCAccounts`, `MCIsland`, `MCApprovals`, `MCRecord` | constants for TLC |

`Voting` implements `BallotBox` and `Island` runs against `BallotBox`: what the browser may rely
on is what the handlers are shown to keep. The accounts, polls and approvals share rows of
`users` only (`verified_at`, `banned_at`), which `Voting` and `Moderation` let change under
their requests' feet and `Accounts` writes. The parts in `Record` share no variable: what one
of them needs of another is a set of inputs (`Dump` has its own small ballot box, `MailCheck`
only a verdict). `Record` extends them all, and a behaviour of it picks one part at its first
state and stays in it, so that the run is eleven independent searches and not their product;
`PartsAlone` proves that nothing is lost: each behaviour is one of every part by itself.

`Lists` defines a sorted list by how many rows come before each, and a sum as the number of the
units it counts. `SetToSortSeq` and `MapThenSumSet` of the community modules say the same, but
`SortSeq` is defined by what TLC computes and `MapThenSumSet` by a recursion over subsets, so
that no prover could say anything of them.

Where a mutated form of an operator stands beside the operator it is named after it with a
suffix (`MxAnswerNull` beside `MxAnswer`): no specification uses it, and it exists for the check
that a property fails when the code is wrong in that way.

### Voting

A request runs in a slot of `Reqs`; `pc` is the step it is about to take and `job` the local
variables of the handler: the poll, the account, the blinded token, the key it read, the parsed
choice, the head of the chain. `detail` is `PageStart .. ReadPublic`, `issue_token` is
`IssueStart .. Respond`, `cast` is `CastStart .. Record`; the three share `EnsureIssuerKey`. A
refusal that changes nothing (404, a closed poll, a malformed body) is a request that does not
start. `cast_ballot`'s insert, its option rows and its commit are one action since no other
transaction can see them apart. `standing` and `open` change under the running requests' feet,
as they do in the code, which reads the session and `is_open` once.

Cryptography is idealised, and only here: a signature is the token and the key it was made with;
a browser can present only signatures that a `blind_sign` produced and whose response arrived
(one-more unforgeability of RFC 9474); a fresh key pair differs from every other one; SHA-256
has no collisions, so a hash is the content it binds. Blindness (that the server cannot link a
token to an account) is a property of the scheme and not of the handlers.

### Moderation

A process is a request or a review loop. Each statement of a transaction is an action. Under
READ COMMITTED a statement sees committed rows and the writes of its own transaction, and waits
for a row or unique key that another open transaction has written: `holds` is what each open
transaction has locked, `Free` is the wait, and the writes of a transaction appear in its commit
action. PostgreSQL's deadlock detector is modelled by what it does: a process on a cycle of
waiting processes loses its transaction. A failed statement ends a request, and with `?` it ends
the whole sweep of a review loop (`GiveUp`). Statuses, decisions and attempts are columns;
`queue` is the order of `created_at`.

The addresses tried for a question are a sequence of the constant `Candidates`, so that the
second address of one question may be the first one of another, as "q-2" is.

### Accounts

Each statement of a handler is an action; the transaction of `password_resets::consume` and that
of `create` hold row locks (`Locked`, `FreeRow`). A token is a row of kind session, verify or
reset that expires by time and is spent by use; `reached` are the tokens whose mail arrived.
`epoch` counts the passwords an account has had, so that a session remembers which one opened
it, and `uses` counts what each link did: both are history, read by no action.

### Island

A page has two asynchronous calls, "warm" (the token asked for when the page is ready) and
"submit" (the click); between two awaits a call runs alone. `wire` is what is under way to the
server, whose answer is a step of `BallotBox`. Leaving a page drops its calls but not its
requests. `Fault` bounds reloads, lost requests, lost answers and server errors.

### Approvals

`insert_poll .. commit` is the transaction of `approvals::cast`. What it has written is in `job`
until `Commit`; the unique keys of a poll being created and the row lock of its chain are what
others wait for. The insert of the poll is two steps, as it is in the database: `InsertPoll`
looks up the arbiter of its `on conflict`, (entity, period), and `InsertSlug` enters the row into
the indexes, of which `polls.slug` is unique and not the arbiter: a slug that is there by then
fails the cast (`slug_taken`). `others` are polls of another kind that have the slug of an
approval poll, since slugs are unique over all polls. The trigger is `LockChain`, `Chain` and the
vote in `Commit`. `month` moves at any time. The panel that answers a cast is
`ReadTally .. Answer`.

### Captcha

Time is in ticks, a few to the second, since a deadline is in whole seconds and the memory of a
solution is not. A request takes at most `Lag`. `Prune`, `Insert` and `Commit` are the
transaction of `mark_used` with the rows it holds.

### Newsroom

A delivery is `Find` (the source is looked up by address and hash) or `Touch`, `AddSource`,
`Look`, `WriteItem`, `Commit`, then `Link` for each name and `Answer`, which labels; `Abandon`
is a delivery that goes away at an `await`. A transaction's writes stay in its `job` until it
commits, `holds` are the rows and unique keys it has written, on which others wait. SQL nulls
differ in a unique key: `NoHash` equals nothing. A related pair is stored smaller number first,
as the query's `least` and `greatest` do. `created` is history: the articles a delivery was told
it created. An editor's form brings the outlet, the date and the names that `create_manual`
stores. Lists (`ForPerson`, `Recent`, `OutletPage`) are the queries with their orders and
limits.

### Desk

`forms` holds every form that an editor ever saw, so that each may be sent at any later time,
with its text or an edited one. One translation is a row that stays identified by its position,
"gone" once discarded; a text and its publication are two statements, between which `publishing`
holds the row. Reports are taken with lengths at and beyond the limits of the form, and against
the checks of migration 0044.

### Follows, Offices, Elections, Dump

Readers that take several statements, with what may change between them. `Follows` has the
click's two statements. In `Offices` a page is `ReadSeats`, `ReadIndependents`, `ReadChambers`,
`ServeCountry`, with rows written in between; `during` and `sitting` are history. The size of
the chamber is read with the page's last statements, since no row that changes in this part
moves it. A poll of the feed whose country has no slug is dropped after the query has counted it
(`placed`). In `Elections` an edition of the dataset inserts results and replaces totals; days
pass. `Dump` reads tallies, ballots and the electorate.

### Compass

`domain/compass.rs` is translated operator for operator (`AgreementPoints`, `Score`,
`MemberStances`); stances and weights are the code's integers, percentages its integer division.
A visit reads theses, positions and evidence and renders; editors file and remove, the dataset
loads, and parties leave between the reads. The form takes evidence about any contestant, also
one that the country has not. Contestants are numbers, so that orders of ids are orders of numbers.

A link is its rows, and `TokenLength` the characters `encode` makes of them: the record it
serialises, in which slugs and numbers take their own room, in Base64. `encode` refuses nothing;
`Decodes` refuses more than `MaxRows` rows, more than `MaxMerged` names in a row and more than
`MaxTokenLen` characters.

### Files

`disk`, `copies` and `partial` give each file a state, "absent", "half" or "whole". A write is
two steps, of which the second may not come. A pass of the mirror is `StartPass`, one `Skip` or
`Fetch` for each address, `WriteAside`, `FillAside`, `Rename`, `EndPass`. `GiveUp` is a write or
a rename that fails: the copy is left for a later pass, and what was written aside stays. One
process mirrors; two would share the name of the partial file.

### Import

`Order` is the order of the files, `Rule` what each does with a row: whether it must cite a
source, which names must resolve, and what a row that is there takes over: all, some fields, or
none. A row's fields are two, `main` (what every conflict clause updates) and `rest`. `seen` are
the maps from natural keys to ids that the importer fills as it reads; events and statements
have no such map (`Keyed`). A citation stands when a row is loaded again, except that of an
outlet (the rule "cited"), whose clause replaces it with the rest. `ImportAssumption` is what an
export is: each row has a key of its own in a file the importer knows, and names only rows of
keyed files that are read before its own.

### MailCheck

A zone is a record of what name servers hold; `Unanswered` is any failure of either lookup,
including the three seconds, that lets the address through, and `Malformed` the failure that
does not: an answer the resolver cannot read is classed with an invalid name and refused.

## Runs

| Run | Instance | Shows |
| --- | --- | --- |
| `voting_core` | 1 poll, 2 accounts, 2 tokens, 2 keys, 2 requests, faults, a body that mixes options of two polls and one that has none | `BallotsSound` (one signature an account, one ballot a token, authentic ballots, linear chain, spent within issued), the invariant of the proofs, a key shown stays, no cast collides, refinement of `BallotBox` |
| `voting_progress` | 1 poll of several options, 2 accounts, 2 requests, no faults, fairness | requests end, no entitlement is burnt |
| `voting_requested_eligible` | 2 accounts | violation: the printed bound "requested never exceeds eligible" |
| `moderation_safety` | 2 submissions of one author sharing 2 images in opposite orders, 2 requests, 1 loop, 1 hand-written poll, 1 fault, limits 2 | `ReviewedFirst` (nothing skips the screen or is public without an approval), bans are deserved, approvals pair off with polls, images are public exactly through approvals |
| `moderation_progress` | 1 submission, 2 loops, 2 requests, 1 fault, fairness | decisions are final; `NothingWaits`: nothing is stuck in the screen and every request ends |
| `moderation_strikes` | 3 submissions, STRIKE_LIMIT 3 | violation: "once a submitter reaches STRIKE_LIMIT violations the account is suspended" |
| `accounts_core` | 1 account, 2 passwords, 3 tokens, 2 requests, 1 fault | links work once, passwords come by mail only; `OnlyVerifiedAct`: nobody who was never verified has a session or a reset link |
| `accounts_stale_session` | 1 account, 2 requests | violation: "every session of that account is dropped at the same time" |
| `island` | 2 tabs of one browser, 2 options, 5 random values, 2 faults | thanks are for counted ballots, a stored token stays; `VotesSound`: while nothing is lost no vote is stranded |
| `approvals` | 2 accounts, 1 entity, 2 positions, 2 months, 2 requests, 1 fault, 1 poll of another kind that may take the slug of an approval poll, deadlock checked | `ApprovalsSound` (one approval a month, linear chain, voter indexes, no slug twice, no cast that fails over anything but a taken slug), the panel counts the vote it answers, refinement of `ApprovalRegister` |
| `approvals_race` | 2 accounts, 1 month | violation: "created on demand (idempotently, safe under a race)" |
| `record` | eleven parts, each with the smallest instance in which its races happen; see below | the safety of the parts of `Record`, one to three properties to a part and `TypesOK` |

Two requests are enough for every race the code could lose: each of the code's guards protects a
pair of statements from a third one, and the theorems below drop the bound where they reach. The
parts of `record`:

| Part | Instance | Properties |
| --- | --- | --- |
| newsroom | 1 address, 1 outlet, 2 deliveries of three inputs (with a hash, naming one person who is there and one who is not; without a hash; a bare source), 2 edits, two forms for an article of the outlet (dated, undated), pages of 1 article | `OneRowEach`, `EveryArticleListed`, `DeliveriesDecideNothing` |
| desk | 1 party, 1 person, 1 field, 2 texts, 2 recorders, 11 reports at and beyond each limit, 5 steps | `DraftsDecidedOnce`, `ReportsFiledAndClosed` |
| follows | 2 entities, 2 clicks at once, feed of 2 out of 3, one of the polls without a page | `FeedInOrder` |
| compass | 3 theses, 2 parties, 1 person, 9 entries of which some are refused, 4 answer sheets, a chamber of 3 members, 3 changes during 1 visit, links of at most 150 characters | `MeasuredOnce`, `PercentIsMean` |
| files | 2 uploads of 6 pictures (two alike, four refused), 2 addresses on one host, 2 passes, 1 crash | `CopiesWhole`, `RestIsKept` |
| import | one row in each of the files, a newer dataset of 6 of the files in which the outlet cites nothing, one that lacks rows, 3 loads | `Reconstructed`, `TwiceTheSame` |
| offices | 2 members, one in each of 2 chambers, 2 parties at home and 1 abroad, 4 rows written around 1 page | `SeatedOnce` |
| elections | 5 elections (two on one day, one undated, one of two editions), 3 contestants, bars cut at 1 | `ElectionPages` |
| dump | 1 poll of 2 options, 2 accounts, 2 documents | `DumpReconciles` |
| mail | 7 zones, an address for each and for each cause of refusal, 2 checks, with and without a resolver | `RefusedForCause` |
| captcha | 2 challenges, 2 requests, half-second ticks, 4 of them, requests of at most half a second | `OnceWhileRemembered` |

`TypesOK` is the type invariant of whichever part the behaviour is in. Interchangeable requests,
uploads, recorders and challenges are the shared model values `r1`, `r2`, `x1`, `x2`, under
symmetry. The limits of a feed, a list, a page of an outlet or an image are small constants,
since the queries treat every limit alike; the report form's limits, and the rows and names of a
share link, are the code's. The characters of a link are scaled down: in the instance a link of one
row opens, also when the row names both parties, and one of two rows exceeds 150 characters, as one
of very many rows exceeds the 4096 of the code.

An outlet gets two articles in the run by two forms, or by a form and a delivery, once the outlet's
own delivery has linked them, and `EveryArticleListed` then reads its two pages. A visitor's page is `OpenOutlet`, which counts, and
`ListOutlet`, which lists, with the deliveries and the editor between the two.

`MaxFaults` and `MaxPolls` bound the faults and the hand-written polls of an instance,
`LastMonth` and `LastTick` end its time, `MaxSteps`, `MaxChanges`, `MaxWrites`, `MaxLoads`,
`MaxEdits` and the like bound how long a part of `record` goes on, and `Tokens`, `Keys` and
`Ids` are as many as the instance can use up; slots are reused, so requests are not bounded
otherwise. The run of the strikes uses the code's limit; the others use 2 or 1, since the
counting is the same.

Symmetry is used for accounts, tokens, ids, request slots, tabs and loops, and for `r1`, `r2`
and `x1`, `x2` of `record`, in safety runs only. Deadlock is checked in `approvals`, where
requests wait for each other and somebody may always ask; elsewhere the system may really stop
(a closed poll, a decided queue, the end of time).

### Fairness

Only `voting_progress` and `moderation_progress` assume fairness; the
other runs are of safety. Handlers are weakly fair: the runtime polls every future whose
statement has returned. Taking the advisory lock is strongly fair because PostgreSQL queues its
waiters; in `Moderation` a process as a whole is strongly fair for the same reason: its next
statement may have to wait for a row again and again, and the queue serves it in turn. Review
loops sleep and sweep again for the life of the process. Nothing is fair about people (accounts,
admins, voters), about the provider's answer, about faults or about a poll's closing.
`NoEntitlementBurnt` and `RequestsEnd` of `Voting` are stated without faults, because the code
has no recovery for an entitlement whose request dies; `NeverStuck` holds with crashes, as many
as the bound allows.

## Findings

Each has a run whose counterexample shows it.

- **Requested may exceed eligible.** The reconciliation panel prints that anyone can check that
  requested never exceeds eligible. Eligible counts verified accounts that are not banned,
  requested counts all entitlements; banning an account that asked breaks the bound.
  `IssuedWithinVerified` is the bound that holds, and is proved.
- **A cast may lose the race to create the month's poll.** Two first casts are both past the
  arbiter check of `insert into polls`; the second waits on the slug, which is unique and not the
  arbiter, and fails. The next cast of the account finds the poll. A poll of another kind that has
  the slug makes every cast about that entity and month fail; `approvals` has one.
- **Strikes may not suspend.** `enforce_ban` counts under READ COMMITTED without locking the
  account, so two rejections at once each miss the other's violation.
- **A session may outlive a reset.** A login that read the old password inserts its session
  after the reset has deleted the sessions.

Met while modelling, and kept as hazards in `PROJECT.json` rather than as runs:

- Two requests for a reset link at once leave two live links; the comment of
  `password_resets::create` says only the most recent works.
- An account whose one verification mail fails or expires cannot be verified by any form.
- A page left while the answer with its signature is under way strands the account's one token;
  the comment of `vote-island.js` says a reload reuses it.
- A second tab, or a retry after a lost answer, is told that something went wrong while its
  ballot stands.
- A solution is forgotten a fraction of a second before its challenge is refused.

The following are written down as a definition that no run checks. To see TLC refute one, add it
to the INVARIANTS of `record.cfg`, or the first one to the PROPERTIES of `voting_progress.cfg`:

- `KeyDestroyedAtClose` (`Voting`): "the private key is destroyed when a poll closes"
  (`db/voting.rs:4-5`). No code of the server calls `destroy_private_key`, so the key stays.
- `ServedWhole` (`Files`): an upload that was cut short leaves half a file under the name of the
  whole one, and the next upload of the same bytes takes it for stored; a file is also served
  while it is being written. `CopiesWhole` is what holds.
- `CountsMatch` (`Dump`): the note in the dump says a tally recomputed by counting the ballots
  must match; ballots cast between the statements are in the list and not in the tally. Up to
  the published head it matches (`DumpReconciles`, proved).
- `NewestFirst` (`Follows`): followed articles are cut by id and ordered by date, so that the
  feed may leave out a newer article than it shows.
- `ShownAfterReview` (`Desk`): a translation that was replaced since the queue page was opened
  goes public, unseen, between the two statements of a publication; and `upsert` may itself
  write a published row.
- `StoredOnce` (`Desk`): two cross-checks at once store one conflict twice.
- `OneSourcePerUrl` (`Newsroom`): two deliveries without a content hash that race give one
  address two sources.
- `BroughtUpToDate` (`Import`): rows with `on conflict do nothing` (results, among others) keep
  what an older dataset said, while the totals beside them are replaced; shares of such a
  mixture may exceed 100 %, so `SharesAddUp` bounds the sum for one edition only.

And seen in the same code, without a definition of their own:

- Pages of an outlet read one after another while articles arrive may show one article twice:
  each page is counted and listed anew, and `EveryArticleListed` promises of a single page only
  that it repeats nothing and holds what its own count said.
- An address whose name server gives an answer that cannot be read is refused
  (`NetError::Proto`, asserted in a test); the comment of `email_mx.rs` lists only definitive
  evidence as a cause. `RefusedForCause` names it.
- `publish_summary` and `discard_draft` of news name the row and not the text: a decision on a
  draft that the pipeline has replaced clears the newer one unseen.
- The comment of `pages/parties.rs` says the size in the list is the figure the seat bar
  computes; `member_counts` counts every current member, the bar those who sit (`MemberCounts`
  and `SeatDistribution` of `Offices`, of which the second is never larger).
- `chambers` lists only chambers with a seated party, so one where only independents sit is
  missing, and a member with two current memberships is counted for both parties. `SeatedOnce`
  names both.
- A compass result folds contestants with the same evidence into one row by a signature that a
  doubled filing changes; a party recorded between two of the reads is not shown.
- A share link is given out without a limit and opened under three: 40 rows, 8 parties in a row
  and 4096 characters. `PercentIsMean` says exactly which links open, and bounds the characters by
  the slugs of the country's parties (`LongestToken`). In the dataset of the repository the country
  with most parties has 29, whose longest link has 1082 characters.

## Proofs

All theorems are of the specifications themselves and not of the instances the runs check. Those
of `Voting` are for every set of polls, accounts, tokens, keys, options and request slots, with
or without faults, from the assumptions on constants in `Voting` only.

The properties are not inductive: they rest on what each request in flight still knows to be
true of the tables. `IInv` adds, per layer: `JobsFit` (a request carries what its remaining
steps use), `KeysFit` (key pairs are distinct, and a key read from the table is still the poll's
key, because the insert never overwrites), `EntitlementsOwned` (between its entitlement and its
signature a request owns the row, so a delete after a failed signature takes nothing that bought
one), `CastsBacked` (a cast presents a signature somebody was given), `LockFits` (the advisory
lock is held exactly while a cast reads and extends the head, so the head it read is the head it
extends). Each layer has per-action lemmas, a carrying lemma for the actions that leave it
alone, and one induction; the layers are proved in order, each from those before it.

| Theorem | States |
| --- | --- |
| `TypeCorrect`, `InvariantHolds` | `TypeOK` and `IInv` always hold |
| `OneSignature` | no account gets two signatures for a poll |
| `IssuedToVerified` | entitlements belong to accounts that were verified |
| `ServedKeyIsThePollsKey`, `SignaturesVerify` | a key shown stays, a signature verifies under its poll's key only |
| `NoDoubleVote`, `EveryBallotAuthentic` | a token is spent once, and every ballot spends a signature of its poll |
| `ChainStaysLinear`, `CastsNeverCollide` | the chain is linear and no cast fails on its unique key |
| `SpentBounded` | spent never exceeds issued, by an injection from ballots to entitlements |
| `EntitlementsNotBurnt` | without faults, an entitlement bought a signature or is held by the request that will sign or delete it |
| `BallotsSoundAlways` | the property `BallotsSound` of `voting_core`, which joins those above |
| `Refinement` | `Spec` implements `BallotBox` |

The other components follow the same plan. `Fits(p)` says of a process what still stands of all
it has read when it comes to use it; a clause on locks keeps two processes apart; the rest of
`IInv` speaks of the tables alone. Then a step of one process leaves `Fits` of the others as it
is, since it can change only rows that they have not locked or facts that nothing undoes. The
proofs have one lemma to an action, and `StepInv` collects them. TLC finds no violation of
`IInv` of `Moderation`, `Accounts`, `Island` and `Approvals` on the instances of their runs
either (a module that extends `MCModeration` and `ModerationProofs`, and so on, is all it
takes).

| Module | Theorems | What the invariant adds |
| --- | --- | --- |
| `ModerationProofs` | `ReviewedFirstAlways`, `BannedDeservedAlways`, `PollsMatchApprovalsAlways`, `ApprovedImagesPublicAlways`, `DecisionsFinalAlways` | a transaction that decides has locked its row, which still has the status it awaits; one that inserts a poll holds its address; an image of an approval under way is locked or left to do; a suspension under way has its strikes (`JobsFit`); locks are exclusive, forms are apart, a violation stays rejected (`Exclusive`, `OneForm`, `ViolationsRejected`), every image has its owner, and polls by hand stay within their bound, so that a free address is always found (`FreeSlugType`, by counting) |
| `ApprovalsProofs` | `ApprovalsSoundAlways`, `PanelCountsMineAlways`, `RegisterRefinement` | a slug that was found taken stays taken, so a cast that fails over it met a poll that stands; the poll a transaction found or creates is the month's own, and the vote it is about to append is the next of a chain only it has locked (`CreatorsApart`, `ChainsLocked`); once said, an approval is in every later tally. Tables change in `Commit` alone, whose effect on the register is `CommitTells` |
| `AccountsProofs` | `LinksWorkOnceAlways`, `OnlyVerifiedActAlways`, `PasswordsByLinkAlways` | tokens keep kind and account; who was let past the check of a login is verified, and stays so; the row a reset is about to spend is locked and open (`LocksApart`), so its use is its first (`UsedSpent`) |
| `IslandProofs` | `ThanksMeansCountedAlways`, `VotesSoundAlways`, `TokenKeptAlways` | every signed or stored token is the one ticket of its account (`OneTicket`, `TokensTicketed`), so answers that race agree; what is cast is what is stored (`CastsStored`); a request whose page has gone finds the account served (`OrphansServed`) |
| `NewsroomProofs` | `OneRowEachAlways`, `DeliveriesDecideNothingAlways` | a delivery holds the row of its source, or the unique key of a document that has none, so what it looked up is still so when it commits (`Fits`, `Apart`); a relation names the smaller article first (`SmallerFirst`) |

The six parts of `RecordProofs` have shorter arguments.

| Theorem | Argument |
| --- | --- |
| `CopiesWholeAlways`, `RestIsKeptAlways` | the uploads' half and the mirror's half of the variables of `Files` are disjoint, so each has an invariant (`MediaInv`, `MirrorInv`) that the other's steps leave alone: an upload about to be recorded has its file, what is about to be renamed is whole, every host that answered "rest" is among those resting |
| `DraftsDecidedOnceAlways` | a decision that changes a summary finds a draft and takes it away (`DecideKeeps`); a draft waiting counts as one |
| `ReportsFiledAndClosedAlways` | an action property, from the invariant that only open reports have an address, and from `FormFits`: the form's checks imply the table's |
| `DumpReconcilesAlways` | what was tallied agrees with every chain that grows from there (`AgreesAppended`), so with the copy read later; the share is bounded by `PctBounded` |
| `RefusedForCauseAlways` | a check that falls back to the domain's address found no host among its MX records; a refusal for an answer that could not be read remembers it |
| `TwiceTheSameAlways` | every row of the version last loaded is settled: loading it once more would change nothing (`LastStands`). A row about to be loaded finds all it names that the dataset has (`NamesFound`), in whatever order a file's rows come, so a load settles what it reads (`LoadKnows`) |
| `OnceWhileRememberedAlways` | an acceptance that is still due has a row that outlasts it (`RowsCover`); who deletes or inserts a row holds it alone, so what it found stays true until it commits (`Deletes`, `Inserts`) |
| `ReconstructedAlways` | while loads of one version alone began, each row comes from one of the files and is as if it were new (`Unmixed`), also where a load was broken off; rows of the files and of the database pair off (`AsMany`) |

`PagesProofs` is about what pages make of rows, where the difficulty is in the data and little
of it in the interleaving. Its first part says what a list and a sum are for any finite set and
any order (`ListedInOrder`: every member once, in the order; `PageOf`: a page of k is a run of
it; `CountedByParts`, `TotalOfParts`: what is counted or summed part by part is counted once),
by induction over numbers where it needs any. The rest applies it.

| Theorem | Argument |
| --- | --- |
| `FeedAlwaysInOrder` | each query's list is cut by its own order (`CutList`); what one of them left out is not newer than any of the rows it filled (`FullListFillsFeed`), and the merged list is in order whatever ties there are (`LeftOutOfMerge`). The invariant is the types alone: a feed is a function of the content and the follows |
| `EveryArticleAlwaysListed` | dates and numbers of articles are an order on the rows that `IInv` of `NewsroomProofs` keeps (`NewerIsAnOrder`); the pages of k cover a list of any length without overlap (`PagesEnough`, `OutletPagesListAll`) |
| `SeatedOnceAlways` | who sits is the disjoint union of the members of each party and the unattached (`CompositionWhole`), and of the chambers' seats (`ChambersWhole`). For a page under way, each row written makes at most one person more or less of each count (`RowsWritten`), so `ReadWell` bounds how far what was read is off by the rows written since |
| `ElectionPagesAlways` | a row has the key it was inserted under and ids differ (`ElectionsInv`), so the orders are total; rounding down n bars drops at most n tenths (`TenthsDropped`), by induction along the list |
| `MeasuredOnceAlways`, `PercentIsMeanAlways` | contestants of one signature have one of them that stands for all (`StandsFor`), so rows are disjoint (`RowsOnce`) and complete (`NobodyLeftOut`); a quotient of weighted sums lies between the least and the greatest (`MeanOf`), and rounding to the nearest, ties to even, keeps bounds and order (`RoundedBetween`, `RoundedGrows`). `CompassInv` adds that a visit goes on with the positions and evidence it read, which editors no longer reach (`VisitOK`), what the form and the dataset let into the table (`FiledOK`), and that a link given out keeps its rows in turn (`LinksOK`) |
| `PartsAlone`, `TypesAlwaysOK` | a step of one part leaves the variables of the others unchanged (`PartsStep`); the types of each part are in its invariant, or follow from bounds that count rows against steps (`DeskBounds`, `FilesBounds`, `ImportBounds`) |

`FollowsInv`, `OfficesInv`, `ElectionsInv` and `CompassInv` hold in all states of `record` too,
as TLC finds when they are given to it the same way.

The assumptions on constants are those named `...Assumption` in the modules, and TLC evaluates
each in a run. Most say that bounds are natural numbers, that `None` is no value, and that
inputs have their type (dates are days, stances lie in -2..2 and weights in 1..2 as the table
and the form check, votes and seats are numbers or unknown). Those that say more:

- accounts, submissions, links to mirror, rows of a dataset, results and the recorded votes and
  seats of a chamber are finite sets;
- `Candidates` has more addresses than polls that can be there, all of them different
  (`free_slug` numbers on without end);
- a request of `Captcha` is shorter than the deadline of its challenge;
- lengths of a report are natural numbers and an address on the site is not empty;
- a dump's threshold is positive;
- a dataset is an export (`ImportAssumption`, above);
- contestants' names differ (the labels of results, `ElectionsAssumption`), and the votes of one
  edition of an election add up to no more than its valid ones, as far as it has any;
- a country has no more parties than a share link has room for rows (40), and evidence of the
  dataset names a contestant of its position's scope (the others are never read).

`PercentIsMean` itself says when a link opens: unless one of its rows names more than `MaxMerged`
parties or its token is longer than `MaxTokenLen`, neither of which the code
prevents. `LongestToken` is what the parties of the country give with a row each; merging rows
only shortens a token.

The theorems about a part are of its own specification (`NewsroomSpec`, `CaptchaSpec`,
`FilesSpec` and so on), for all constants that satisfy its assumption; by `PartsAlone` they hold
of `RecordSpec`, the specification of `record`, as well.

### Model-checked only

`RequestsEnd` and `NothingWaits` are liveness under fairness, which TLAPS does not reach here
(`ENABLED`), and the violation runs are counterexamples. Every invariant, every action property
and both refinements of the passing runs are theorems.

## Not modelled

Rendering, formats, JSON-LD, wording, translations of the interface, configuration and the build
are pure functions of their input whose interest is their text. RSA and SHA-256, the mail
transport, the DNS resolver, the review provider, image decoding and PostgreSQL are external and
modelled by what the code relies on. The order and latency of real time is a `closes_at` that
may pass at any step. The pool of five connections is not modelled: `RequestsEnd` is progress
through the lock's queue, and says nothing of requests that wait for a connection. Events,
alliances, roll calls, group votes, search and the section counts of a country are single
read-only queries of imported rows; the dumps of single tables likewise. The construction gate
is a table of routes fixed at start. The lists of people and parties by letter and the filters
of the statement lists are single queries too.

## Plan

1. The dumps of single tables and the section counts of a country, should they come to be read
   in more than one statement.
2. A publication of translations and of drafts of news that names the text it decides on, should
   the code come to do so: `ShownAfterReview` would then be a property of `record`, and its
   invariant a clause of that of `Desk`.
