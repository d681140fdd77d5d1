------------------------------- MODULE Accounts -------------------------------
(***************************************************************************)
(* Accounts: crates/server/src/pages/auth.rs and admin_account.rs over     *)
(* crates/db/src/users.rs, sessions.rs, email_verifications.rs and         *)
(* password_resets.rs.                                                     *)
(*                                                                         *)
(* A request is in a slot of Requests; each statement is a step.  Tokens   *)
(* are the random values of links and cookies, fresh when drawn; tables    *)
(* hold their hashes.  A token's time to live passes at any moment         *)
(* (Expire), so no property rests on how long it is.  A refusal that       *)
(* changes nothing (a failed captcha, an address that does not parse, a    *)
(* short password) is a request that does not start.                       *)
(*                                                                         *)
(* A definition named after another with a suffix (SpendUnlocked, ...) is  *)
(* a mistake one could make there; a property must tell it from the code.  *)
(***************************************************************************)
EXTENDS Naturals, FiniteSets

CONSTANTS
  Users,       (* canonical addresses: what hash_email keys accounts on    *)
  Passwords,   (* passwords                                                *)
  Tokens,      (* random tokens                                            *)
  Requests,    (* slots for requests in flight                             *)
  MaxFaults,   (* bound: requests dropped and mails that fail              *)
  None

ASSUME AccountsAssumption ==
  None \notin Users \union Passwords \union Tokens /\ MaxFaults \in Nat

VARIABLES
  password,    (* users.password_hash; None: there is no such account      *)
  verified, banned, admin,   (* accounts with verified_at, banned_at, is_admin *)
  token,       (* rows of email_verifications, password_resets, sessions   *)
  reached,     (* tokens that reached a person, by mail or as a cookie     *)
  epoch,       (* how often the account's password was set anew            *)
  uses,        (* how often a token of a link was applied                  *)
  appointed,   (* accounts ensure_admin was run for                        *)
  pc, job,     (* what each request does next, and its local values        *)
  faults       (* faults so far, up to MaxFaults                           *)

users == <<password, verified, banned, admin>>
history == <<epoch, uses, appointed>>
requests == <<pc, job>>
vars == <<users, token, reached, history, requests, faults>>

Unused == [kind |-> "unused", user |-> None, state |-> "live", epoch |-> 0]
Row == [kind: {"unused", "verify", "reset", "session"}, user: Users \union {None},
        state: {"live", "spent", "expired", "deleted"}, epoch: Nat]
Job == [user: Users \union {None}, password: Passwords \union {None},
        token: Tokens \union {None}, admitted: BOOLEAN, rows: SUBSET Tokens, epoch: Nat]
Steps == {"idle", "insert", "store_code", "mail", "get_user", "read_hash", "open",
          "delete", "lookup", "void", "void_rows", "insert_reset", "spend", "set_password", "drop",
          "commit", "find", "insert_admin", "mark_verified", "set_admin"}

------------------------------------------------------------------------------
(* Requests and rows.                                                      *)

At(r, step) == pc[r] = step

NoJob == [user |-> None, password |-> None, token |-> None, admitted |-> FALSE,
          rows |-> {}, epoch |-> 0]

Start(r, step, j) ==
  /\ At(r, "idle")
  /\ pc' = [pc EXCEPT ![r] = step]
  /\ job' = [job EXCEPT ![r] = j]

Goto(r, step, j) ==
  /\ pc' = [pc EXCEPT ![r] = step]
  /\ job' = [job EXCEPT ![r] = j]

Done(r) == Goto(r, "idle", NoJob)

Exists(u) == password[u] # None
Live(t, kind) == token[t].kind = kind /\ token[t].state = "live"
Session(t) == Live(t, "session")
Resolves(t) == Session(t) /\ token[t].user \notin banned

(* generate_session_token.                                                 *)
Fresh(t) == token[t].kind = "unused" /\ \A r \in Requests : job[r].token # t

(* Rows an open transaction has updated.                                   *)
Locked(r) == IF pc[r] \in {"insert_reset", "set_password", "drop", "commit"}
             THEN job[r].rows ELSE {}
FreeRow(r, t) == \A q \in Requests \ {r} : t \notin Locked(q)

------------------------------------------------------------------------------
(* register_submit.                                                        *)

RegisterStart(r, u, p) ==
  /\ Start(r, "insert", [NoJob EXCEPT !.user = u, !.password = p])
  /\ UNCHANGED <<users, token, reached, history, faults>>

InsertUserUpserts(r) ==
  LET u == job[r].user
  IN /\ At(r, "insert")
     /\ password' = [password EXCEPT ![u] = job[r].password]
     /\ Goto(r, "store_code", job[r])
     /\ UNCHANGED <<verified, banned, admin, token, reached, history, faults>>

(* insert ... on conflict (email_hash) do nothing: the same page either    *)
(* way.                                                                    *)
InsertUser(r) ==
  LET u == job[r].user
  IN /\ At(r, "insert")
     /\ IF Exists(u)
        THEN Done(r) /\ UNCHANGED password
        ELSE /\ password' = [password EXCEPT ![u] = job[r].password]
             /\ Goto(r, "store_code", job[r])
     /\ UNCHANGED <<verified, banned, admin, token, reached, history, faults>>

(* send_verification: the row, then the mail.                              *)
StoreCode(r) ==
  /\ At(r, "store_code")
  /\ \E t \in Tokens :
       /\ Fresh(t)
       /\ token' = [token EXCEPT ![t] = [Unused EXCEPT !.kind = "verify", !.user = job[r].user]]
       /\ Goto(r, "mail", [job[r] EXCEPT !.token = t])
  /\ UNCHANGED <<users, reached, history, faults>>

Mail(r) ==
  /\ At(r, "mail")
  /\ reached' = reached \union {job[r].token}
  /\ Done(r)
  /\ UNCHANGED <<users, token, history, faults>>

(* A failure is logged and not surfaced.                                   *)
MailFails(r) ==
  /\ At(r, "mail")
  /\ faults < MaxFaults
  /\ faults' = faults + 1
  /\ Done(r)
  /\ UNCHANGED <<users, token, reached, history>>

------------------------------------------------------------------------------
(* verify: consume_and_verify is one statement.                            *)

VerifyLink(t) ==
  /\ t \in reached
  /\ Live(t, "verify")
  /\ token' = [token EXCEPT ![t].state = "spent"]
  /\ verified' = verified \union {token[t].user}
  /\ uses' = [uses EXCEPT ![t] = @ + 1]
  /\ UNCHANGED <<password, banned, admin, reached, epoch, appointed, requests, faults>>

------------------------------------------------------------------------------
(* login_submit and logout.                                                *)

LoginStart(r, u, p) ==
  /\ Start(r, "get_user", [NoJob EXCEPT !.user = u, !.password = p])
  /\ UNCHANGED <<users, token, reached, history, faults>>

(* get_by_email_hash: verified_at and banned_at are read here and judged   *)
(* after the password.                                                     *)
GetUser(r) ==
  LET u == job[r].user
  IN /\ At(r, "get_user")
     /\ IF Exists(u)
        THEN Goto(r, "read_hash", [job[r] EXCEPT !.admitted = u \in verified \ banned])
        ELSE Done(r)
     /\ UNCHANGED <<users, token, reached, history, faults>>

(* password_hash, then the one argon2 verification and the refusals.       *)
ReadHash(r) ==
  LET u == job[r].user
  IN /\ At(r, "read_hash")
     /\ IF password[u] = job[r].password /\ job[r].admitted
        THEN Goto(r, "open", [job[r] EXCEPT !.epoch = epoch[u]])
        ELSE Done(r)
     /\ UNCHANGED <<users, token, reached, history, faults>>

(* start_session, and the cookie of the response.                          *)
OpenSession(r) ==
  /\ At(r, "open")
  /\ \E t \in Tokens :
       /\ Fresh(t)
       /\ token' = [token EXCEPT ![t] = [Unused EXCEPT !.kind = "session", !.user = job[r].user,
                                                       !.epoch = job[r].epoch]]
       /\ reached' = reached \union {t}
  /\ Done(r)
  /\ UNCHANGED <<users, history, faults>>

LogoutStart(r, t) ==
  /\ t \in reached /\ Resolves(t)
  /\ Start(r, "delete", [NoJob EXCEPT !.token = t])
  /\ UNCHANGED <<users, token, reached, history, faults>>

DeleteSession(r) ==
  /\ At(r, "delete")
  /\ token' = [token EXCEPT ![job[r].token].state = "deleted"]
  /\ Done(r)
  /\ UNCHANGED <<users, reached, history, faults>>

------------------------------------------------------------------------------
(* forgot_submit and password_resets::create.                              *)

ForgotStart(r, u) ==
  /\ Start(r, "lookup", [NoJob EXCEPT !.user = u])
  /\ UNCHANGED <<users, token, reached, history, faults>>

LookupAnyone(r) ==
  LET u == job[r].user
  IN /\ At(r, "lookup")
     /\ IF Exists(u) THEN Goto(r, "void", job[r]) ELSE Done(r)
     /\ UNCHANGED <<users, token, reached, history, faults>>

(* An unverified or suspended account is left alone.                       *)
Lookup(r) ==
  LET u == job[r].user
  IN /\ At(r, "lookup")
     /\ IF Exists(u) /\ u \in verified \ banned THEN Goto(r, "void", job[r]) ELSE Done(r)
     /\ UNCHANGED <<users, token, reached, history, faults>>

Outstanding(u) ==
  {t \in Tokens : token[t].kind = "reset" /\ token[t].user = u
                    /\ token[t].state \in {"live", "expired"}}

(* The update of the earlier tokens takes the rows there are when it       *)
(* starts, waits for those another transaction has updated, and keeps the  *)
(* ones that still qualify.                                                *)
SnapshotEarlier(r) ==
  /\ At(r, "void")
  /\ Goto(r, "void_rows", [job[r] EXCEPT !.rows = Outstanding(job[r].user)])
  /\ UNCHANGED <<users, token, reached, history, faults>>

VoidEarlier(r) ==
  /\ At(r, "void_rows")
  /\ \A t \in job[r].rows : FreeRow(r, t)
  /\ Goto(r, "insert_reset", [job[r] EXCEPT !.rows = @ \intersect Outstanding(job[r].user)])
  /\ UNCHANGED <<users, token, reached, history, faults>>

(* The insert and the commit.                                              *)
InsertReset(r) ==
  /\ At(r, "insert_reset")
  /\ \E t \in Tokens :
       /\ Fresh(t)
       /\ token' = [x \in Tokens |->
            CASE x = t -> [Unused EXCEPT !.kind = "reset", !.user = job[r].user]
              [] x \in job[r].rows -> [token[x] EXCEPT !.state = "spent"]
              [] OTHER -> token[x]]
       /\ Goto(r, "mail", [job[r] EXCEPT !.token = t, !.rows = {}])
  /\ UNCHANGED <<users, reached, history, faults>>

------------------------------------------------------------------------------
(* reset_submit and password_resets::consume.                              *)

ResetStart(r, t, p) ==
  /\ t \in reached
  /\ token[t].kind = "reset"
  /\ Start(r, "spend", [NoJob EXCEPT !.token = t, !.password = p])
  /\ UNCHANGED <<users, token, reached, history, faults>>

SpendUnlocked(r) ==
  LET t == job[r].token
  IN /\ At(r, "spend")
     /\ IF Live(t, "reset")
        THEN Goto(r, "set_password", [job[r] EXCEPT !.rows = {t}, !.user = token[t].user])
        ELSE Done(r)
     /\ UNCHANGED <<users, token, reached, history, faults>>

(* update ... where consumed_at is null and expires_at > now() returning.  *)
Spend(r) ==
  LET t == job[r].token
  IN /\ At(r, "spend")
     /\ FreeRow(r, t)
     /\ IF Live(t, "reset")
        THEN Goto(r, "set_password", [job[r] EXCEPT !.rows = {t}, !.user = token[t].user])
        ELSE Done(r)
     /\ UNCHANGED <<users, token, reached, history, faults>>

(* update users set password_hash: it waits for another reset's.           *)
SetPassword(r) ==
  /\ At(r, "set_password")
  /\ \A q \in Requests \ {r} :
       ~(pc[q] \in {"drop", "commit"} /\ job[q].user = job[r].user)
  /\ Goto(r, "drop", job[r])
  /\ UNCHANGED <<users, token, reached, history, faults>>

(* delete from sessions: those committed when the statement starts.        *)
DropSessions(r) ==
  /\ At(r, "drop")
  /\ Goto(r, "commit", [job[r] EXCEPT !.rows = @ \union
       {t \in Tokens : token[t].kind = "session" /\ token[t].user = job[r].user}])
  /\ UNCHANGED <<users, token, reached, history, faults>>

CommitReset(r) ==
  LET u == job[r].user
  IN /\ At(r, "commit")
     /\ password' = [password EXCEPT ![u] = job[r].password]
     /\ epoch' = [epoch EXCEPT ![u] = @ + 1]
     /\ token' = [t \in Tokens |->
          CASE t = job[r].token -> [token[t] EXCEPT !.state = "spent"]
            [] t \in job[r].rows \ {job[r].token} -> [token[t] EXCEPT !.state = "deleted"]
            [] OTHER -> token[t]]
     /\ uses' = [uses EXCEPT ![job[r].token] = @ + 1]
     /\ Done(r)
     /\ UNCHANGED <<verified, banned, admin, reached, appointed, faults>>

------------------------------------------------------------------------------
(* ensure_admin, run by hand on the server: no transaction, idempotent.    *)

AppointStart(r, u, p) ==
  /\ Start(r, "find", [NoJob EXCEPT !.user = u, !.password = p])
  /\ appointed' = appointed \union {u}
  /\ UNCHANGED <<users, token, reached, epoch, uses, faults>>

FindAccount(r) ==
  /\ At(r, "find")
  /\ Goto(r, IF Exists(job[r].user) THEN "mark_verified" ELSE "insert_admin", job[r])
  /\ UNCHANGED <<users, token, reached, history, faults>>

(* An account registered in between is an error to the operator.           *)
InsertAdmin(r) ==
  LET u == job[r].user
  IN /\ At(r, "insert_admin")
     /\ IF Exists(u)
        THEN Done(r) /\ UNCHANGED password
        ELSE /\ password' = [password EXCEPT ![u] = job[r].password]
             /\ Goto(r, "mark_verified", job[r])
     /\ UNCHANGED <<verified, banned, admin, token, reached, history, faults>>

MarkVerified(r) ==
  /\ At(r, "mark_verified")
  /\ verified' = verified \union {job[r].user}
  /\ Goto(r, "set_admin", job[r])
  /\ UNCHANGED <<password, banned, admin, token, reached, history, faults>>

SetAdmin(r) ==
  /\ At(r, "set_admin")
  /\ admin' = admin \union {job[r].user}
  /\ Done(r)
  /\ UNCHANGED <<password, verified, banned, token, reached, history, faults>>

------------------------------------------------------------------------------
(* Time, moderation and faults.                                            *)

Expire(t) ==
  /\ token[t].kind # "unused" /\ token[t].state = "live"
  /\ token' = [token EXCEPT ![t].state = "expired"]
  /\ UNCHANGED <<users, reached, history, requests, faults>>

Ban(u) ==
  /\ Exists(u) /\ u \notin banned
  /\ banned' = banned \union {u}
  /\ UNCHANGED <<password, verified, admin, token, reached, history, requests, faults>>

(* The request is dropped or the process dies; a transaction rolls back.   *)
Abort(r) ==
  /\ ~At(r, "idle")
  /\ faults < MaxFaults
  /\ faults' = faults + 1
  /\ Done(r)
  /\ UNCHANGED <<users, token, reached, history>>

------------------------------------------------------------------------------
Init ==
  /\ password = [u \in Users |-> None]
  /\ verified = {} /\ banned = {} /\ admin = {} /\ appointed = {}
  /\ token = [t \in Tokens |-> Unused]
  /\ reached = {}
  /\ epoch = [u \in Users |-> 0]
  /\ uses = [t \in Tokens |-> 0]
  /\ pc = [r \in Requests |-> "idle"]
  /\ job = [r \in Requests |-> NoJob]
  /\ faults = 0

Arrival(r) ==
  \/ \E u \in Users, p \in Passwords :
       RegisterStart(r, u, p) \/ LoginStart(r, u, p) \/ AppointStart(r, u, p)
  \/ \E u \in Users : ForgotStart(r, u)
  \/ \E t \in Tokens : LogoutStart(r, t)
  \/ \E t \in Tokens, p \in Passwords : ResetStart(r, t, p)

Register(r) == InsertUser(r) \/ StoreCode(r) \/ Mail(r)
Login(r) == GetUser(r) \/ ReadHash(r) \/ OpenSession(r) \/ DeleteSession(r)
Forgot(r) == Lookup(r) \/ SnapshotEarlier(r) \/ VoidEarlier(r) \/ InsertReset(r)
Reset(r) == Spend(r) \/ SetPassword(r) \/ DropSessions(r) \/ CommitReset(r)
EnsureAdmin(r) == FindAccount(r) \/ InsertAdmin(r) \/ MarkVerified(r) \/ SetAdmin(r)

Next ==
  \/ \E r \in Requests :
       \/ Arrival(r)
       \/ Register(r) \/ Login(r) \/ Forgot(r) \/ Reset(r) \/ EnsureAdmin(r)
       \/ MailFails(r) \/ Abort(r)
  \/ \E t \in Tokens : VerifyLink(t) \/ Expire(t)
  \/ \E u \in Users : Ban(u)

Spec == Init /\ [][Next]_vars

------------------------------------------------------------------------------
(* Properties.                                                             *)

TypeOK ==
  /\ password \in [Users -> Passwords \union {None}]
  /\ verified \subseteq Users /\ banned \subseteq Users
  /\ admin \subseteq Users /\ appointed \subseteq Users
  /\ token \in [Tokens -> Row]
  /\ \A t \in Tokens : token[t].kind # "unused" => token[t].user \in Users
  /\ reached \subseteq Tokens
  /\ epoch \in [Users -> Nat] /\ uses \in [Tokens -> Nat]
  /\ pc \in [Requests -> Steps]
  /\ job \in [Requests -> Job]
  /\ faults \in 0 .. MaxFaults

(* "a link works exactly once even if the mail is forwarded or the page is *)
(* reloaded": two submissions of one reset form at once set one password.  *)
LinksWorkOnce == \A t \in Tokens : uses[t] <= 1

(* Whoever is verified clicked a link mailed to that address or was        *)
(* appointed on the server; a reset does not verify "by the back door".    *)
VerifiedByMail ==
  \A u \in verified :
    u \in appointed \/ \E t \in reached : token[t].kind = "verify" /\ token[t].user = u
                                          /\ uses[t] > 0

(* Nobody is signed in to, and no link resets, an account that was never   *)
(* verified, whatever the account became between the read and the insert.  *)
ActingVerified ==
  \A t \in Tokens : token[t].kind \in {"session", "reset"} => token[t].user \in verified

(* Being verified takes a mail, and acting takes being verified.           *)
OnlyVerifiedAct == TypeOK /\ VerifiedByMail /\ ActingVerified

(* A password once set changes only by a link that was mailed for that     *)
(* account and works no more.                                              *)
PasswordsByLink ==
  [][\A u \in Users : Exists(u) /\ password'[u] # password[u] =>
       \E t \in reached : token[t].kind = "reset" /\ token[t].user = u
                           /\ uses[t] = 0 /\ token'[t].state = "spent"]_vars

(* "Every session of that account is dropped at the same time": after a    *)
(* reset no session opened with an earlier password is alive.              *)
ResetEndsSessions ==
  \A t \in Tokens : Session(t) => token[t].epoch = epoch[token[t].user]
==============================================================================
