---------------------------- MODULE AccountsProofs -----------------------------
(***************************************************************************)
(* Proofs about Accounts for any number of addresses, tokens and requests: *)
(* a link works once, whoever acts is verified and whoever is verified     *)
(* clicked a mailed link or was appointed, and a password once set changes *)
(* by a link mailed for it alone.                                          *)
(*                                                                         *)
(* A token keeps its kind and its account for good.  Two transactions may  *)
(* hold the same reset row only one after the other (LocksApart), which is *)
(* why the row a reset is about to commit is still open (Fits).            *)
(***************************************************************************)
EXTENDS Accounts, TLAPS

Resetting == {"set_password", "drop", "commit"}
Appointing == {"find", "insert_admin", "mark_verified", "set_admin"}

(* What a request has read still holds when it uses it.                    *)
Fits(r) ==
  LET j == job[r]
  IN /\ pc[r] \notin {"idle", "mail", "delete", "spend"} => j.user \in Users
     /\ pc[r] \in {"insert", "find", "insert_admin", "spend"} \union Resetting => j.password \in Passwords
     /\ pc[r] \in {"mail", "delete", "spend"} \union Resetting => j.token \in Tokens
     /\ pc[r] = "read_hash" /\ j.admitted => j.user \in verified
     /\ pc[r] \in {"open", "void", "void_rows", "insert_reset"} => j.user \in verified
     /\ pc[r] \in Appointing => j.user \in appointed
     /\ pc[r] = "delete" => token[j.token].kind = "session"
     /\ pc[r] \in {"spend"} \union Resetting => j.token \in reached /\ token[j.token].kind = "reset"
     /\ pc[r] \in {"void_rows", "insert_reset"} => \A t \in j.rows : token[t].kind = "reset"
     /\ pc[r] \in Resetting =>
          /\ token[j.token].user = j.user /\ token[j.token].state \in {"live", "expired"}
          /\ j.token \in j.rows
          /\ \A t \in j.rows : t # j.token => token[t].kind = "session"

JobsFit == \A r \in Requests : Fits(r)

LocksApart ==
  \A p, q \in Requests : \A t \in Tokens :
    p # q /\ token[t].kind = "reset" => ~(t \in Locked(p) /\ t \in Locked(q))

(* What was applied is a link, and spent.                                  *)
UsedSpent ==
  \A t \in Tokens : uses[t] # 0 =>
    uses[t] = 1 /\ token[t].state = "spent" /\ token[t].kind \in {"verify", "reset"}

IInv ==
  TypeOK /\ JobsFit /\ LocksApart /\ UsedSpent /\ VerifiedByMail /\ ActingVerified

------------------------------------------------------------------------------
(* Slots, and what a step may do to a token.                               *)

TokensKeep ==
  \A t \in Tokens : token[t].kind # "unused" =>
    token'[t].kind = token[t].kind /\ token'[t].user = token[t].user

Open(t) == token[t].state \in {"live", "expired"}

LEMMA NoJobType ==
  /\ NoJob \in Job /\ NoJob.user = None /\ NoJob.rows = {} /\ ~NoJob.admitted
  /\ "idle" \in Steps
BY DEF NoJob, Job, Steps

LEMMA GotoSlot ==
  ASSUME TypeOK, NEW r \in Requests, NEW step \in Steps, NEW j \in Job, Goto(r, step, j)
  PROVE  /\ pc' \in [Requests -> Steps] /\ job' \in [Requests -> Job]
         /\ pc'[r] = step /\ job'[r] = j
         /\ \A q \in Requests : q # r => pc'[q] = pc[q] /\ job'[q] = job[q]
BY DEF TypeOK, Goto

(* Who holds a row knows what it is.                                       *)
LEMMA HeldKinds ==
  ASSUME IInv, NEW q \in Requests, NEW t \in Locked(q)
  PROVE  t \in Tokens /\ token[t].kind \in {"reset", "session"}
<1>1. Fits(q) /\ job[q] \in Job /\ pc[q] \in {"insert_reset"} \union Resetting /\ t \in job[q].rows
  BY DEF IInv, JobsFit, TypeOK, Locked, Resetting
<1>2. t \in Tokens
  BY <1>1 DEF Job
<1>3. CASE pc[q] = "insert_reset"
  BY <1>1, <1>2, <1>3 DEF Fits
<1>4. CASE pc[q] \in Resetting
  BY <1>1, <1>2, <1>4 DEF Fits
<1> QED
  BY <1>1, <1>3, <1>4

(* A request that does not move.                                           *)
LEMMA OthersFit ==
  ASSUME IInv, NEW q \in Requests, pc'[q] = pc[q], job'[q] = job[q],
         verified \subseteq verified', appointed \subseteq appointed', reached \subseteq reached',
         TokensKeep,
         \A t \in Locked(q) : token[t].kind = "reset" /\ Open(t) => Open(t)'
  PROVE  Fits(q)' /\ Locked(q)' = Locked(q)
<1>1. Fits(q) /\ job[q] \in Job
  BY DEF IInv, JobsFit, TypeOK
<1>2. Locked(q)' = Locked(q)
  BY DEF Locked
<1>3. \A t \in Tokens : token[t].kind \in {"session", "reset"} =>
        token'[t].kind = token[t].kind /\ token'[t].user = token[t].user
  BY DEF TokensKeep
<1>4. /\ job[q].token \in Tokens \union {None} /\ job[q].rows \subseteq Tokens
  BY <1>1 DEF Job
<1>5. pc[q] \in Resetting => job[q].token \in Locked(q)
  BY <1>1 DEF Fits, Resetting, Locked
<1>6. pc[q] \in Resetting => job[q].token \in Tokens /\ token'[job[q].token].state \in {"live", "expired"}
  BY <1>1, <1>5 DEF Fits, Open
<1>7. Fits(q)'
  BY <1>1, <1>3, <1>4, <1>6 DEF Fits
<1> QED
  BY <1>2, <1>7

(* Who was verified still has a link to show, or an appointment.           *)
LEMMA StillVerified ==
  ASSUME IInv, appointed \subseteq appointed', reached \subseteq reached', TokensKeep,
         \A t \in Tokens : uses[t] > 0 => uses'[t] > 0
  PROVE  \A u \in verified :
           u \in appointed' \/ \E t \in reached' : token'[t].kind = "verify" /\ token'[t].user = u
                                                   /\ uses'[t] > 0
<1> SUFFICES ASSUME NEW u \in verified, u \notin appointed
             PROVE  \E t \in reached' : token'[t].kind = "verify" /\ token'[t].user = u
                                        /\ uses'[t] > 0
  OBVIOUS
<1>1. PICK t \in reached : token[t].kind = "verify" /\ token[t].user = u /\ uses[t] > 0
  BY DEF IInv, VerifiedByMail
<1>2. t \in Tokens
  BY <1>1 DEF IInv, TypeOK
<1> QED
  BY <1>1, <1>2 DEF TokensKeep

LEMMA Move ==
  ASSUME IInv, NEW r \in Requests, NEW step \in Steps, NEW j \in Job, Goto(r, step, j), TypeOK',
         verified \subseteq verified', appointed \subseteq appointed', reached \subseteq reached',
         TokensKeep, Fits(r)',
         \A q \in Requests \ {r} : \A t \in Locked(q) :
           /\ token[t].kind = "reset" /\ Open(t) => Open(t)'
           /\ ~(token[t].kind = "reset" /\ t \in Locked(r)'),
         UsedSpent', VerifiedByMail', ActingVerified'
  PROVE  IInv'
<1>1. pc'[r] = step /\ job'[r] = j
      /\ \A q \in Requests : q # r => pc'[q] = pc[q] /\ job'[q] = job[q]
  BY GotoSlot DEF IInv
<1>2. \A q \in Requests \ {r} : Fits(q)' /\ Locked(q)' = Locked(q)
  BY <1>1, OthersFit
<1>3. JobsFit'
  BY <1>2 DEF JobsFit
<1>4. LocksApart'
  <2> SUFFICES ASSUME NEW p \in Requests, NEW q \in Requests, NEW t \in Tokens, p # q,
                      token'[t].kind = "reset", t \in Locked(p)', t \in Locked(q)'
               PROVE  FALSE
    BY DEF LocksApart
  <2>1. \A x \in Requests \ {r} : t \in Locked(x)' => t \in Locked(x) /\ token[t].kind = "reset"
    <3> SUFFICES ASSUME NEW x \in Requests \ {r}, t \in Locked(x)'
                 PROVE  t \in Locked(x) /\ token[t].kind = "reset"
      OBVIOUS
    <3>1. t \in Locked(x)
      BY <1>2
    <3>2. token[t].kind \in {"reset", "session"}
      BY <3>1, HeldKinds
    <3> QED
      BY <3>1, <3>2 DEF TokensKeep
  <2>2. CASE p # r /\ q # r
    BY <2>1, <2>2 DEF IInv, LocksApart
  <2>3. CASE p = r
    BY <2>1, <2>3
  <2>4. CASE q = r
    BY <2>1, <2>4
  <2> QED
    BY <2>2, <2>3, <2>4
<1> QED
  BY <1>3, <1>4 DEF IInv

(* A step that writes no table.                                            *)
LEMMA Still ==
  ASSUME IInv, NEW r \in Requests, NEW step \in Steps, NEW j \in Job, Goto(r, step, j),
         UNCHANGED <<users, token, reached, history>>, faults' \in 0 .. MaxFaults, Fits(r)',
         \A q \in Requests \ {r} : \A t \in Locked(q) : ~(token[t].kind = "reset" /\ t \in Locked(r)')
  PROVE  IInv'
<1>1. /\ password' = password /\ verified' = verified /\ banned' = banned /\ admin' = admin
      /\ token' = token /\ reached' = reached /\ epoch' = epoch /\ uses' = uses
      /\ appointed' = appointed
  BY DEF users, history
<1>2. TypeOK'
  <2>1. pc' \in [Requests -> Steps] /\ job' \in [Requests -> Job]
    BY GotoSlot DEF IInv
  <2> QED
    BY <1>1, <2>1 DEF IInv, TypeOK
<1>3. TokensKeep /\ \A t \in Tokens : Open(t) => Open(t)'
  BY <1>1 DEF TokensKeep, Open
<1>4. UsedSpent' /\ VerifiedByMail' /\ ActingVerified'
  BY <1>1 DEF IInv, UsedSpent, VerifiedByMail, ActingVerified
<1>5. \A q \in Requests \ {r} : \A t \in Locked(q) :
           /\ token[t].kind = "reset" /\ Open(t) => Open(t)'
           /\ ~(token[t].kind = "reset" /\ t \in Locked(r)')
  BY <1>1 DEF Open
<1> QED
  BY <1>1, <1>2, <1>3, <1>4, <1>5, Move

(* A request that ends, or is dropped.                                     *)
LEMMA Ends ==
  ASSUME IInv, NEW r \in Requests, Done(r), UNCHANGED <<users, token, reached, history>>,
         faults' \in 0 .. MaxFaults
  PROVE  IInv'
<1>1. Goto(r, "idle", NoJob) /\ NoJob \in Job /\ "idle" \in Steps
  BY NoJobType DEF Done
<1>2. pc'[r] = "idle" /\ job'[r] = NoJob
  BY <1>1, GotoSlot DEF IInv
<1>3. Fits(r)' /\ Locked(r)' = {}
  BY <1>2 DEF Fits, Locked, Resetting, Appointing
<1> QED
  BY <1>1, <1>3, Still

------------------------------------------------------------------------------
(* Steps that only read.                                                   *)

(* What a request knows when it takes a step that leaves the tables alone. *)
LEMMA Reads ==
  ASSUME IInv, NEW r \in Requests, UNCHANGED <<users, token, reached, history, faults>>
  PROVE  /\ TypeOK /\ Fits(r) /\ job[r] \in Job /\ pc[r] \in Steps
         /\ UNCHANGED <<users, token, reached, history>> /\ faults' \in 0 .. MaxFaults
         /\ password' = password /\ verified' = verified /\ banned' = banned
         /\ token' = token /\ reached' = reached /\ epoch' = epoch /\ appointed' = appointed
BY DEF IInv, JobsFit, TypeOK, users, history

LEMMA ArrivalStep ==
  ASSUME IInv, NEW r \in Requests,
         \/ \E u \in Users, p \in Passwords : RegisterStart(r, u, p) \/ LoginStart(r, u, p)
         \/ \E u \in Users : ForgotStart(r, u)
         \/ \E t \in Tokens : LogoutStart(r, t)
         \/ \E t \in Tokens, p \in Passwords : ResetStart(r, t, p)
  PROVE  IInv'
<1>0. UNCHANGED <<users, token, reached, history, faults>>
  BY DEF RegisterStart, LoginStart, ForgotStart, LogoutStart, ResetStart
<1>00. /\ UNCHANGED <<users, token, reached, history>> /\ faults' \in 0 .. MaxFaults
       /\ TypeOK /\ token' = token /\ reached' = reached
  BY <1>0, Reads
<1>1. ASSUME NEW u \in Users, NEW p \in Passwords, NEW step \in {"insert", "get_user"},
             Start(r, step, [NoJob EXCEPT !.user = u, !.password = p])
      PROVE  IInv'
  <2> DEFINE j == [NoJob EXCEPT !.user = u, !.password = p]
  <2>1. j \in Job /\ j.user = u /\ j.password = p /\ step \in Steps
    BY NoJobType DEF Job, Steps
  <2>2. Goto(r, step, j)
    BY <1>1 DEF Start, Goto
  <2> HIDE DEF j
  <2>3. pc'[r] = step /\ job'[r] = j
    BY <1>00, <2>1, <2>2, GotoSlot
  <2>4. Fits(r)' /\ Locked(r)' = {}
    BY <2>1, <2>3 DEF Fits, Locked, Resetting, Appointing
  <2> QED
    BY <1>00, <2>1, <2>2, <2>4, Still
<1>2. ASSUME NEW u \in Users, ForgotStart(r, u) PROVE IInv'
  <2> DEFINE j == [NoJob EXCEPT !.user = u]
  <2>1. j \in Job /\ j.user = u /\ "lookup" \in Steps
    BY NoJobType DEF Job, Steps
  <2>2. Goto(r, "lookup", j)
    BY <1>2 DEF ForgotStart, Start, Goto
  <2> HIDE DEF j
  <2>3. pc'[r] = "lookup" /\ job'[r] = j
    BY <1>00, <2>1, <2>2, GotoSlot
  <2>4. Fits(r)' /\ Locked(r)' = {}
    BY <2>1, <2>3 DEF Fits, Locked, Resetting, Appointing
  <2> QED
    BY <1>00, <2>1, <2>2, <2>4, Still
<1>3. ASSUME NEW t \in Tokens, LogoutStart(r, t) PROVE IInv'
  <2> DEFINE j == [NoJob EXCEPT !.token = t]
  <2>1. j \in Job /\ j.token = t /\ "delete" \in Steps
    BY NoJobType DEF Job, Steps
  <2>2. Goto(r, "delete", j) /\ token[t].kind = "session"
    BY <1>3 DEF LogoutStart, Start, Goto, Resolves, Session, Live
  <2> HIDE DEF j
  <2>3. pc'[r] = "delete" /\ job'[r] = j
    BY <1>00, <2>1, <2>2, GotoSlot
  <2>4. Fits(r)' /\ Locked(r)' = {}
    BY <1>00, <2>1, <2>2, <2>3 DEF Fits, Locked, Resetting, Appointing
  <2> QED
    BY <1>00, <2>1, <2>2, <2>4, Still
<1>4. ASSUME NEW t \in Tokens, NEW p \in Passwords, ResetStart(r, t, p) PROVE IInv'
  <2> DEFINE j == [NoJob EXCEPT !.token = t, !.password = p]
  <2>1. j \in Job /\ j.token = t /\ j.password = p /\ "spend" \in Steps
    BY NoJobType DEF Job, Steps
  <2>2. Goto(r, "spend", j) /\ token[t].kind = "reset" /\ t \in reached
    BY <1>4 DEF ResetStart, Start, Goto
  <2> HIDE DEF j
  <2>3. pc'[r] = "spend" /\ job'[r] = j
    BY <1>00, <2>1, <2>2, GotoSlot
  <2>4. Fits(r)' /\ Locked(r)' = {}
    BY <1>00, <2>1, <2>2, <2>3 DEF Fits, Locked, Resetting, Appointing
  <2> QED
    BY <1>00, <2>1, <2>2, <2>4, Still
<1> QED
  BY <1>1, <1>2, <1>3, <1>4 DEF RegisterStart, LoginStart

(* A step that goes on with the request's own values.                      *)
LEMMA Onward ==
  ASSUME IInv, NEW r \in Requests, NEW step \in Steps, NEW j \in Job, Goto(r, step, j),
         UNCHANGED <<users, token, reached, history, faults>>,
         (pc'[r] = step /\ job'[r] = j) => Fits(r)',
         \A q \in Requests \ {r} : \A t \in Locked(q) :
           token[t].kind = "reset" => step \notin {"insert_reset"} \union Resetting \/ t \notin j.rows
  PROVE  IInv'
<1>1. /\ UNCHANGED <<users, token, reached, history>> /\ faults' \in 0 .. MaxFaults /\ TypeOK
  BY Reads
<1>2. pc'[r] = step /\ job'[r] = j
  BY <1>1, GotoSlot
<1>3. Locked(r)' = IF step \in {"insert_reset"} \union Resetting THEN j.rows ELSE {}
  BY <1>2 DEF Locked, Resetting
<1> QED
  BY <1>1, <1>2, <1>3, Still

LEMMA LoginReadsStep ==
  ASSUME IInv, NEW r \in Requests, GetUser(r) \/ ReadHash(r) \/ Lookup(r) \/ FindAccount(r)
  PROVE  IInv'
<1>0. UNCHANGED <<users, token, reached, history, faults>>
  BY DEF GetUser, ReadHash, Lookup, FindAccount
<1>1. /\ TypeOK /\ Fits(r) /\ job[r] \in Job /\ UNCHANGED <<users, token, reached, history>>
      /\ faults' \in 0 .. MaxFaults /\ verified' = verified /\ appointed' = appointed
  BY <1>0, Reads
<1>2. CASE Done(r)
  BY <1>1, <1>2, Ends
<1>3. CASE GetUser(r) /\ ~Done(r)
  <2>0. PICK b \in BOOLEAN : b = (job[r].user \in verified \ banned)
    <3>1. (job[r].user \in verified \ banned) \in BOOLEAN
      OBVIOUS
    <3> QED
      BY <3>1, Zenon
  <2> DEFINE j == [job[r] EXCEPT !.admitted = b]
  <2>1. Goto(r, "read_hash", j) /\ pc[r] = "get_user"
    BY <1>3, <2>0 DEF GetUser, At
  <2>2. /\ j \in Job /\ j.user = job[r].user /\ j.admitted = b /\ job[r].user \in Users
        /\ (b => job[r].user \in verified)
    <3>1. job[r].user \in Users
      BY <1>1, <2>1 DEF Fits
    <3>2. j \in Job /\ j.user = job[r].user /\ j.admitted = b
      BY <1>1 DEF Job
    <3> QED
      BY <2>0, <3>1, <3>2
  <2> HIDE DEF j
  <2>3. pc'[r] = "read_hash" /\ job'[r] = j => Fits(r)'
    BY <1>1, <2>2 DEF Fits, Resetting, Appointing
  <2> QED
    BY <1>0, <2>1, <2>2, <2>3, Onward DEF Steps, Resetting
<1>4. CASE ReadHash(r) /\ ~Done(r)
  <2> DEFINE j == [job[r] EXCEPT !.epoch = epoch[job[r].user]]
  <2>1. Goto(r, "open", j) /\ pc[r] = "read_hash" /\ job[r].admitted
    BY <1>4 DEF ReadHash, At
  <2>2. job[r].user \in Users /\ job[r].user \in verified
    BY <1>1, <2>1 DEF Fits
  <2>3. j \in Job /\ j.user = job[r].user
    BY <1>1, <2>2 DEF Job, TypeOK
  <2> HIDE DEF j
  <2>4. pc'[r] = "open" /\ job'[r] = j => Fits(r)'
    BY <1>1, <2>2, <2>3 DEF Fits, Resetting, Appointing
  <2> QED
    BY <1>0, <2>1, <2>3, <2>4, Onward DEF Steps, Resetting
<1>5. CASE Lookup(r) /\ ~Done(r)
  <2>1. Goto(r, "void", job[r]) /\ pc[r] = "lookup" /\ job[r].user \in verified
    BY <1>5 DEF Lookup, At
  <2>2. pc'[r] = "void" /\ job'[r] = job[r] => Fits(r)'
    BY <1>1, <2>1 DEF Fits, Resetting, Appointing
  <2> QED
    BY <1>0, <1>1, <2>1, <2>2, Onward DEF Steps, Resetting
<1>6. CASE FindAccount(r)
  <2>1. PICK step \in {"mark_verified", "insert_admin"} : Goto(r, step, job[r])
    BY <1>6 DEF FindAccount
  <2>2. pc[r] = "find"
    BY <1>6 DEF FindAccount, At
  <2>3. pc'[r] = step /\ job'[r] = job[r] => Fits(r)'
    BY <1>1, <2>1, <2>2 DEF Fits, Resetting, Appointing
  <2> QED
    BY <1>0, <1>1, <2>1, <2>3, Onward DEF Steps, Resetting
<1> QED
  BY <1>2, <1>3, <1>4, <1>5, <1>6

------------------------------------------------------------------------------
(* Transactions that take their locks.                                     *)

LEMMA VoidStep ==
  ASSUME IInv, NEW r \in Requests, SnapshotEarlier(r) \/ VoidEarlier(r)
  PROVE  IInv'
<1>0. UNCHANGED <<users, token, reached, history, faults>>
  BY DEF SnapshotEarlier, VoidEarlier
<1>1. /\ TypeOK /\ Fits(r) /\ job[r] \in Job /\ verified' = verified /\ token' = token
  BY <1>0, Reads
<1>2. CASE SnapshotEarlier(r)
  <2> DEFINE j == [job[r] EXCEPT !.rows = Outstanding(job[r].user)]
  <2>1. Goto(r, "void_rows", j) /\ pc[r] = "void"
    BY <1>2 DEF SnapshotEarlier, At
  <2>2. /\ Outstanding(job[r].user) \subseteq Tokens
        /\ \A t \in Outstanding(job[r].user) : token[t].kind = "reset"
    BY DEF Outstanding
  <2>3. /\ j \in Job /\ j.user = job[r].user /\ j.rows = Outstanding(job[r].user)
        /\ job[r].user \in Users /\ job[r].user \in verified
    BY <1>1, <2>1, <2>2 DEF Job, Fits
  <2> HIDE DEF j
  <2>4. pc'[r] = "void_rows" /\ job'[r] = j => Fits(r)'
    BY <1>1, <2>2, <2>3 DEF Fits, Resetting, Appointing
  <2> QED
    BY <1>0, <2>1, <2>3, <2>4, Onward DEF Steps, Resetting
<1>3. CASE VoidEarlier(r)
  <2> DEFINE R == job[r].rows \intersect Outstanding(job[r].user)
             j == [job[r] EXCEPT !.rows = R]
  <2>1. Goto(r, "insert_reset", j) /\ pc[r] = "void_rows" /\ \A t \in job[r].rows : FreeRow(r, t)
    BY <1>3 DEF VoidEarlier, At
  <2>2. /\ j \in Job /\ j.user = job[r].user /\ j.rows = R /\ R \subseteq job[r].rows
        /\ job[r].user \in Users /\ job[r].user \in verified
        /\ \A t \in job[r].rows : token[t].kind = "reset"
    BY <1>1, <2>1 DEF Job, Fits
  <2> HIDE DEF j, R
  <2>3. pc'[r] = "insert_reset" /\ job'[r] = j => Fits(r)'
    BY <1>1, <2>2 DEF Fits, Resetting, Appointing
  <2>4. \A q \in Requests \ {r} : \A t \in Locked(q) : t \notin j.rows
    BY <2>1, <2>2 DEF FreeRow
  <2> QED
    BY <1>0, <2>1, <2>2, <2>3, <2>4, Onward DEF Steps
<1> QED
  BY <1>2, <1>3

LEMMA SpendStep ==
  ASSUME IInv, NEW r \in Requests, Spend(r)
  PROVE  IInv'
<1>0. UNCHANGED <<users, token, reached, history, faults>>
  BY DEF Spend
<1>1. /\ TypeOK /\ Fits(r) /\ job[r] \in Job /\ UNCHANGED <<users, token, reached, history>>
      /\ faults' \in 0 .. MaxFaults /\ token' = token /\ reached' = reached
  BY <1>0, Reads
<1>2. CASE Done(r)
  BY <1>1, <1>2, Ends
<1>3. CASE ~Done(r)
  <2>0. PICK t : t = job[r].token
    OBVIOUS
  <2>1. /\ pc[r] = "spend" /\ FreeRow(r, t) /\ Live(t, "reset")
        /\ Goto(r, "set_password", [job[r] EXCEPT !.rows = {t}, !.user = token[t].user])
    BY <1>3, <2>0 DEF Spend, At
  <2> DEFINE j == [job[r] EXCEPT !.rows = {t}, !.user = token[t].user]
  <2>2. /\ t \in Tokens /\ t \in reached /\ token[t].kind = "reset" /\ token[t].state = "live"
        /\ job[r].password \in Passwords
    BY <1>1, <2>0, <2>1 DEF Fits, Live
  <2>3. token[t].user \in Users
    BY <1>1, <2>2 DEF TypeOK
  <2>4. /\ j \in Job /\ j.user = token[t].user /\ j.rows = {t} /\ j.token = t
        /\ j.password = job[r].password
    BY <1>1, <2>0, <2>2, <2>3 DEF Job
  <2>5. Goto(r, "set_password", j)
    BY <2>1
  <2> HIDE DEF j
  <2>6. pc'[r] = "set_password" /\ job'[r] = j => Fits(r)'
    BY <1>1, <2>2, <2>3, <2>4 DEF Fits, Resetting, Appointing
  <2>7. \A q \in Requests \ {r} : \A x \in Locked(q) : x \notin j.rows
    BY <2>1, <2>4 DEF FreeRow
  <2> QED
    BY <1>0, <2>4, <2>5, <2>6, <2>7, Onward DEF Steps
<1> QED
  BY <1>2, <1>3

LEMMA HoldStep ==
  ASSUME IInv, NEW r \in Requests, SetPassword(r) \/ DropSessions(r)
  PROVE  IInv'
<1>0. UNCHANGED <<users, token, reached, history, faults>>
  BY DEF SetPassword, DropSessions
<1>1. /\ TypeOK /\ Fits(r) /\ job[r] \in Job /\ token' = token /\ reached' = reached
      /\ pc[r] \in Resetting
  <2>1. pc[r] \in Resetting
    BY DEF SetPassword, DropSessions, At, Resetting
  <2> QED
    BY <1>0, <2>1, Reads
<1>2. \A q \in Requests \ {r} : \A t \in Locked(q) : token[t].kind = "reset" => t \notin job[r].rows
  <2> SUFFICES ASSUME NEW q \in Requests \ {r}, NEW t \in Locked(q), token[t].kind = "reset"
               PROVE  t \notin job[r].rows
    OBVIOUS
  <2>1. t \in Tokens
    BY HeldKinds
  <2>2. Locked(r) = job[r].rows
    BY <1>1 DEF Locked, Resetting
  <2> QED
    BY <2>1, <2>2 DEF IInv, LocksApart
<1>3. CASE SetPassword(r)
  <2>1. Goto(r, "drop", job[r])
    BY <1>3 DEF SetPassword
  <2>2. pc'[r] = "drop" /\ job'[r] = job[r] => Fits(r)'
    BY <1>1 DEF Fits, Resetting, Appointing
  <2> QED
    BY <1>0, <1>1, <1>2, <2>1, <2>2, Onward DEF Steps
<1>4. CASE DropSessions(r)
  <2> DEFINE S == {t \in Tokens : token[t].kind = "session" /\ token[t].user = job[r].user}
             j == [job[r] EXCEPT !.rows = @ \union S]
  <2>1. Goto(r, "commit", j)
    BY <1>4 DEF DropSessions
  <2>2. S \subseteq Tokens /\ \A t \in S : token[t].kind = "session"
    OBVIOUS
  <2> HIDE DEF S
  <2>3. /\ j \in Job /\ j.user = job[r].user /\ j.token = job[r].token
        /\ j.password = job[r].password /\ j.rows = job[r].rows \union S
    BY <1>1, <2>2 DEF Job
  <2> HIDE DEF j
  <2>4. pc'[r] = "commit" /\ job'[r] = j => Fits(r)'
    BY <1>1, <2>2, <2>3 DEF Fits, Resetting, Appointing
  <2>5. \A q \in Requests \ {r} : \A t \in Locked(q) : token[t].kind = "reset" => t \notin j.rows
    BY <1>2, <2>2, <2>3
  <2> QED
    BY <1>0, <2>1, <2>3, <2>4, <2>5, Onward DEF Steps
<1> QED
  BY <1>3, <1>4

------------------------------------------------------------------------------
(* Steps that write.                                                       *)

(* The step of a request that writes no token.                             *)
LEMMA Writes ==
  ASSUME IInv, NEW r \in Requests, NEW step \in Steps \ ({"insert_reset"} \union Resetting), NEW j \in Job,
         Goto(r, step, j), UNCHANGED <<token, epoch, uses, faults, banned>>,
         password' \in [Users -> Passwords \union {None}],
         verified \subseteq verified', appointed \subseteq appointed', reached \subseteq reached',
         verified' \subseteq Users, appointed' \subseteq Users, reached' \subseteq Tokens,
         admin' \subseteq Users, verified' \subseteq verified \union appointed,
         (pc'[r] = step /\ job'[r] = j) => Fits(r)'
  PROVE  IInv'
<1>1. pc'[r] = step /\ job'[r] = j /\ pc' \in [Requests -> Steps] /\ job' \in [Requests -> Job]
  BY GotoSlot DEF IInv
<1>2. TypeOK'
  BY <1>1 DEF IInv, TypeOK
<1>3. TokensKeep /\ (\A t \in Tokens : Open(t) => Open(t)') /\ \A t \in Tokens : uses[t] > 0 => uses'[t] > 0
  BY DEF TokensKeep, Open
<1>4. UsedSpent' /\ ActingVerified'
  BY DEF IInv, UsedSpent, ActingVerified
<1>5. VerifiedByMail'
  BY <1>3, StillVerified DEF VerifiedByMail
<1>6. Locked(r)' = {}
  BY <1>1 DEF Locked, Resetting
<1>7. \A q \in Requests \ {r} : \A t \in Locked(q) :
           /\ token[t].kind = "reset" /\ Open(t) => Open(t)'
           /\ ~(token[t].kind = "reset" /\ t \in Locked(r)')
  BY <1>6 DEF Open
<1> QED
  BY <1>1, <1>2, <1>3, <1>4, <1>5, <1>7, Move

LEMMA InsertStep ==
  ASSUME IInv, NEW r \in Requests, InsertUser(r) \/ InsertAdmin(r)
  PROVE  IInv'
<1>0. /\ UNCHANGED <<verified, banned, admin, token, reached, history, faults>>
      /\ TypeOK /\ Fits(r) /\ job[r] \in Job /\ pc[r] \in {"insert", "insert_admin"}
      /\ faults' \in 0 .. MaxFaults
  BY DEF IInv, JobsFit, TypeOK, InsertUser, InsertAdmin, At
<1>1. job[r].user \in Users /\ job[r].password \in Passwords
  BY <1>0 DEF Fits
<1>2. CASE Done(r) /\ UNCHANGED password
  BY <1>0, <1>2, Ends DEF users
<1>3. CASE ~(Done(r) /\ UNCHANGED password)
  <2>1. password' = [password EXCEPT ![job[r].user] = job[r].password]
    BY <1>3 DEF InsertUser, InsertAdmin
  <2>2. PICK step \in {"store_code", "mark_verified"} :
          Goto(r, step, job[r]) /\ (step = "mark_verified" => pc[r] = "insert_admin")
    BY <1>3 DEF InsertUser, InsertAdmin, At
  <2>3. password' \in [Users -> Passwords \union {None}]
    BY <1>0, <1>1, <2>1 DEF TypeOK
  <2>4. pc'[r] = step /\ job'[r] = job[r] => Fits(r)'
    BY <1>0, <1>1, <2>2 DEF Fits, Resetting, Appointing, history
  <2>5. step \in Steps \ ({"insert_reset"} \union Resetting)
    BY <2>2 DEF Steps, Resetting
  <2>6. /\ UNCHANGED <<token, epoch, uses, faults, banned>> /\ verified' = verified
        /\ appointed' = appointed /\ reached' = reached /\ admin' = admin
    BY <1>0 DEF history
  <2> QED
    BY <1>0, <2>2, <2>3, <2>4, <2>5, <2>6, Writes DEF TypeOK
<1> QED
  BY <1>2, <1>3

LEMMA AppointStep ==
  ASSUME IInv, NEW r \in Requests,
         (\E u \in Users, p \in Passwords : AppointStart(r, u, p)) \/ MarkVerified(r) \/ SetAdmin(r)
  PROVE  IInv'
<1>0. TypeOK /\ Fits(r) /\ job[r] \in Job
  BY DEF IInv, JobsFit, TypeOK
<1>1. ASSUME NEW u \in Users, NEW p \in Passwords, AppointStart(r, u, p) PROVE IInv'
  <2> DEFINE j == [NoJob EXCEPT !.user = u, !.password = p]
  <2>1. j \in Job /\ j.user = u /\ j.password = p
    BY NoJobType DEF Job
  <2>2. /\ Goto(r, "find", j) /\ appointed' = appointed \union {u}
        /\ UNCHANGED <<token, epoch, uses, faults, banned, password, verified, reached, admin>>
    BY <1>1 DEF AppointStart, Start, Goto, users
  <2> HIDE DEF j
  <2>3. pc'[r] = "find" /\ job'[r] = j => Fits(r)'
    BY <2>1, <2>2 DEF Fits, Resetting, Appointing
  <2>4. "find" \in Steps \ ({"insert_reset"} \union Resetting)
    BY DEF Steps, Resetting
  <2> QED
    BY <1>0, <2>1, <2>2, <2>3, <2>4, Writes DEF TypeOK
<1>2. CASE MarkVerified(r)
  <2>1. /\ pc[r] = "mark_verified" /\ Goto(r, "set_admin", job[r])
        /\ verified' = verified \union {job[r].user}
        /\ UNCHANGED <<token, epoch, uses, faults, banned, password, appointed, reached, admin>>
    BY <1>2 DEF MarkVerified, At, history
  <2>2. job[r].user \in Users /\ job[r].user \in appointed
    BY <1>0, <2>1 DEF Fits, Appointing
  <2>3. pc'[r] = "set_admin" /\ job'[r] = job[r] => Fits(r)'
    BY <1>0, <2>1, <2>2 DEF Fits, Resetting, Appointing
  <2>4. "set_admin" \in Steps \ ({"insert_reset"} \union Resetting)
    BY DEF Steps, Resetting
  <2> QED
    BY <1>0, <2>1, <2>2, <2>3, <2>4, Writes DEF TypeOK
<1>3. CASE SetAdmin(r)
  <2>1. /\ pc[r] = "set_admin" /\ Goto(r, "idle", NoJob)
        /\ admin' = admin \union {job[r].user}
        /\ UNCHANGED <<token, epoch, uses, faults, banned, password, appointed, reached, verified>>
    BY <1>3 DEF SetAdmin, At, Done, history
  <2>2. job[r].user \in Users
    BY <1>0, <2>1 DEF Fits
  <2>3. pc'[r] = "idle" /\ job'[r] = NoJob => Fits(r)'
    BY NoJobType DEF Fits, Resetting, Appointing
  <2>4. "idle" \in Steps \ ({"insert_reset"} \union Resetting)
    BY DEF Steps, Resetting
  <2> QED
    BY <1>0, <2>1, <2>2, <2>3, <2>4, NoJobType, Writes DEF TypeOK
<1> QED
  BY <1>1, <1>2, <1>3

LEMMA MailStep ==
  ASSUME IInv, NEW r \in Requests, Mail(r)
  PROVE  IInv'
<1>1. /\ pc[r] = "mail" /\ Goto(r, "idle", NoJob) /\ reached' = reached \union {job[r].token}
      /\ UNCHANGED <<token, epoch, uses, faults, banned, password, appointed, admin, verified>>
  BY DEF Mail, At, Done, users, history
<1>2. TypeOK /\ job[r].token \in Tokens
  BY <1>1 DEF IInv, JobsFit, Fits
<1>3. pc'[r] = "idle" /\ job'[r] = NoJob => Fits(r)'
  BY NoJobType DEF Fits, Resetting, Appointing
<1>4. "idle" \in Steps \ ({"insert_reset"} \union Resetting)
  BY DEF Steps, Resetting
<1> QED
  BY <1>1, <1>2, <1>3, <1>4, NoJobType, Writes DEF TypeOK

(* A step that draws a token: it was nobody's, and of the others only rows *)
(* that the transaction holds are spent.                                   *)
LEMMA Mints ==
  ASSUME IInv, NEW r \in Requests, NEW step \in {"mail", "idle"}, NEW j \in Job, Goto(r, step, j),
         NEW t \in Tokens, Fresh(t), UNCHANGED <<users, history, faults>>,
         token' \in [Tokens -> Row], token'[t].user \in Users,
         token'[t].kind \in {"verify", "reset", "session"},
         token'[t].kind # "verify" => token'[t].user \in verified,
         \A x \in Tokens : x # t =>
           \/ token'[x] = token[x]
           \/ x \in Locked(r) /\ token[x].kind = "reset" /\ token'[x] = [token[x] EXCEPT !.state = "spent"],
         reached \subseteq reached', reached' \subseteq Tokens,
         (pc'[r] = step /\ job'[r] = j) => Fits(r)'
  PROVE  IInv'
<1>1. pc'[r] = step /\ job'[r] = j /\ pc' \in [Requests -> Steps] /\ job' \in [Requests -> Job]
  BY GotoSlot DEF IInv, Steps
<1>2. /\ password' = password /\ verified' = verified /\ banned' = banned /\ admin' = admin
      /\ epoch' = epoch /\ uses' = uses /\ appointed' = appointed
  BY DEF users, history
<1>3. token[t].kind = "unused" /\ token \in [Tokens -> Row]
  BY DEF Fresh, IInv, TypeOK
<1>4. ASSUME NEW x \in Tokens, x # t
      PROVE  /\ token'[x].kind = token[x].kind /\ token'[x].user = token[x].user
             /\ token'[x].state = token[x].state \/ (x \in Locked(r) /\ token[x].kind = "reset"
                                                    /\ token'[x].state = "spent")
  <2>1. token[x] \in Row
    BY <1>3
  <2> QED
    BY <1>4, <2>1 DEF Row
<1>5. TypeOK'
  BY <1>1, <1>2, <1>4 DEF IInv, TypeOK
<1>6. TokensKeep
  BY <1>3, <1>4 DEF TokensKeep
<1>7. uses[t] = 0
  <2>1. uses[t] # 0 => token[t].kind \in {"verify", "reset"}
    BY DEF IInv, UsedSpent
  <2> QED
    BY <1>3, <2>1
<1>8. UsedSpent'
  BY <1>2, <1>4, <1>7 DEF IInv, UsedSpent
<1>9. VerifiedByMail'
  BY <1>2, <1>6, StillVerified DEF VerifiedByMail
<1>10. ActingVerified'
  <2> SUFFICES ASSUME NEW x \in Tokens, token'[x].kind \in {"session", "reset"}
               PROVE  token'[x].user \in verified
    BY <1>2 DEF ActingVerified
  <2>1. CASE x = t
    BY <2>1
  <2>2. CASE x # t
    BY <1>4, <2>2 DEF IInv, ActingVerified
  <2> QED
    BY <2>1, <2>2
<1>11. Locked(r)' = {}
  BY <1>1 DEF Locked
<1>12. ASSUME NEW q \in Requests \ {r}, NEW x \in Locked(q), token[x].kind = "reset", Open(x)
       PROVE  Open(x)'
  <2>1. x \in Tokens /\ x # t
    BY <1>3, <1>12, HeldKinds
  <2>2. x \notin Locked(r)
    BY <1>12, <2>1 DEF IInv, LocksApart
  <2> QED
    BY <1>4, <1>12, <2>1, <2>2 DEF Open
<1> QED
  BY <1>1, <1>2, <1>5, <1>6, <1>8, <1>9, <1>10, <1>11, <1>12, Move DEF Steps

LEMMA StoreCodeStep ==
  ASSUME IInv, NEW r \in Requests, StoreCode(r)
  PROVE  IInv'
<1>1. PICK t \in Tokens :
        /\ Fresh(t)
        /\ token' = [token EXCEPT ![t] = [Unused EXCEPT !.kind = "verify", !.user = job[r].user]]
        /\ Goto(r, "mail", [job[r] EXCEPT !.token = t])
  BY DEF StoreCode
<1>2. /\ TypeOK /\ job[r] \in Job /\ job[r].user \in Users /\ UNCHANGED <<users, reached, history, faults>>
  BY DEF IInv, JobsFit, TypeOK, Fits, StoreCode, At
<1> DEFINE j == [job[r] EXCEPT !.token = t]
           row == [Unused EXCEPT !.kind = "verify", !.user = job[r].user]
<1>3. j \in Job /\ j.token = t
  BY <1>2 DEF Job
<1>4. row \in Row /\ row.kind = "verify" /\ row.user = job[r].user
  BY <1>2 DEF Row, Unused
<1>5. Goto(r, "mail", j) /\ token' = [token EXCEPT ![t] = row]
  BY <1>1
<1> HIDE DEF j, row
<1>6. /\ token' \in [Tokens -> Row] /\ token'[t] = row
      /\ \A x \in Tokens : x # t => token'[x] = token[x]
  BY <1>2, <1>4, <1>5 DEF TypeOK
<1>7. pc'[r] = "mail" /\ job'[r] = j => Fits(r)'
  BY <1>3 DEF Fits, Resetting, Appointing
<1> QED
  BY <1>1, <1>2, <1>3, <1>4, <1>5, <1>6, <1>7, Mints DEF TypeOK

LEMMA OpenSessionStep ==
  ASSUME IInv, NEW r \in Requests, OpenSession(r)
  PROVE  IInv'
<1>1. PICK t \in Tokens :
        /\ Fresh(t)
        /\ token' = [token EXCEPT ![t] = [Unused EXCEPT !.kind = "session", !.user = job[r].user,
                                                        !.epoch = job[r].epoch]]
        /\ reached' = reached \union {t}
  BY DEF OpenSession
<1>2. /\ TypeOK /\ job[r] \in Job /\ job[r].user \in Users /\ job[r].user \in verified
      /\ UNCHANGED <<users, history, faults>> /\ Goto(r, "idle", NoJob)
  BY DEF IInv, JobsFit, TypeOK, Fits, OpenSession, At, Done
<1> DEFINE row == [Unused EXCEPT !.kind = "session", !.user = job[r].user, !.epoch = job[r].epoch]
<1>3. job[r].epoch \in Nat
  BY <1>2 DEF Job
<1>4. row \in Row /\ row.kind = "session" /\ row.user = job[r].user
  BY <1>2, <1>3 DEF Row, Unused
<1>5. token' = [token EXCEPT ![t] = row]
  BY <1>1
<1> HIDE DEF row
<1>6. /\ token' \in [Tokens -> Row] /\ token'[t] = row
      /\ \A x \in Tokens : x # t => token'[x] = token[x]
  BY <1>2, <1>4, <1>5 DEF TypeOK
<1>7. pc'[r] = "idle" /\ job'[r] = NoJob => Fits(r)'
  BY NoJobType DEF Fits, Resetting, Appointing
<1>8. reached \subseteq reached' /\ reached' \subseteq Tokens
  BY <1>1, <1>2 DEF TypeOK
<1> QED
  BY <1>1, <1>2, <1>4, <1>6, <1>7, <1>8, NoJobType, Mints

LEMMA InsertResetStep ==
  ASSUME IInv, NEW r \in Requests, InsertReset(r)
  PROVE  IInv'
<1>1. PICK t \in Tokens :
        /\ Fresh(t)
        /\ token' = [x \in Tokens |->
             CASE x = t -> [Unused EXCEPT !.kind = "reset", !.user = job[r].user]
               [] x \in job[r].rows -> [token[x] EXCEPT !.state = "spent"]
               [] OTHER -> token[x]]
        /\ Goto(r, "mail", [job[r] EXCEPT !.token = t, !.rows = {}])
  BY DEF InsertReset
<1>2. /\ TypeOK /\ job[r] \in Job /\ job[r].user \in Users /\ job[r].user \in verified
      /\ UNCHANGED <<users, reached, history, faults>> /\ pc[r] = "insert_reset"
      /\ \A x \in job[r].rows : token[x].kind = "reset"
  BY DEF IInv, JobsFit, TypeOK, Fits, InsertReset, At
<1> DEFINE j == [job[r] EXCEPT !.token = t, !.rows = {}]
           row == [Unused EXCEPT !.kind = "reset", !.user = job[r].user]
<1>3. j \in Job /\ j.token = t
  BY <1>2 DEF Job
<1>4. row \in Row /\ row.kind = "reset" /\ row.user = job[r].user
  BY <1>2 DEF Row, Unused
<1>5. Goto(r, "mail", j)
  BY <1>1
<1> HIDE DEF j
<1>6. token'[t] = row
  <2>1. t \notin job[r].rows
    BY <1>1, <1>2 DEF Fresh
  <2> QED
    BY <1>1, <2>1
<1>7. ASSUME NEW x \in Tokens, x # t
      PROVE  \/ token'[x] = token[x]
             \/ x \in Locked(r) /\ token[x].kind = "reset" /\ token'[x] = [token[x] EXCEPT !.state = "spent"]
  <2>1. token'[x] = IF x \in job[r].rows THEN [token[x] EXCEPT !.state = "spent"] ELSE token[x]
    BY <1>1, <1>7
  <2>2. Locked(r) = job[r].rows
    BY <1>2 DEF Locked
  <2> QED
    BY <1>2, <2>1, <2>2
<1> HIDE DEF row
<1>8. token' \in [Tokens -> Row]
  <2>1. ASSUME NEW x \in Tokens PROVE token'[x] \in Row
    <3>1. token[x] \in Row /\ [token[x] EXCEPT !.state = "spent"] \in Row
      <4>1. token[x] \in Row
        BY <1>2 DEF TypeOK
      <4> QED
        BY <4>1 DEF Row
    <3> QED
      BY <1>4, <1>6, <1>7, <3>1
  <2>2. DOMAIN token' = Tokens /\ token' = [x \in Tokens |-> token'[x]]
    BY <1>1
  <2> QED
    BY <2>1, <2>2
<1>9. pc'[r] = "mail" /\ job'[r] = j => Fits(r)'
  BY <1>3 DEF Fits, Resetting, Appointing
<1> QED
  BY <1>1, <1>2, <1>3, <1>4, <1>5, <1>6, <1>7, <1>8, <1>9, Mints, ZenonT(30) DEF TypeOK

(* What a reset is about to commit, and what it then writes: its link is   *)
(* still open and nobody else's, and only sessions go with it.             *)
LEMMA CommitDoes ==
  ASSUME IInv, NEW r \in Requests, CommitReset(r), NEW t, t = job[r].token, NEW u, u = job[r].user
  PROVE  /\ t \in Tokens /\ t \in reached /\ u \in Users /\ job[r].password \in Passwords
         /\ token[t].kind = "reset" /\ token[t].user = u /\ uses[t] = 0
         /\ \A q \in Requests \ {r} : t \notin Locked(q)
         /\ password' = [password EXCEPT ![u] = job[r].password]
         /\ epoch' = [epoch EXCEPT ![u] = @ + 1] /\ uses' = [uses EXCEPT ![t] = @ + 1]
         /\ Goto(r, "idle", NoJob)
         /\ UNCHANGED <<verified, banned, admin, reached, appointed, faults>>
         /\ token' \in [Tokens -> Row] /\ token'[t].state = "spent"
         /\ \A x \in Tokens :
              /\ token'[x].kind = token[x].kind /\ token'[x].user = token[x].user
              /\ x # t => token'[x].state = token[x].state \/ token[x].kind = "session"
<1>1. /\ TypeOK /\ Fits(r) /\ job[r] \in Job /\ pc[r] = "commit"
  BY DEF IInv, JobsFit, TypeOK, CommitReset, At
<1>2. /\ t \in Tokens /\ t \in reached /\ u \in Users /\ job[r].password \in Passwords
      /\ token[t].kind = "reset" /\ token[t].user = u /\ Open(t) /\ t \in job[r].rows
      /\ \A x \in job[r].rows : x # t => token[x].kind = "session"
  BY <1>1 DEF Fits, Resetting, Open
<1>3. uses[t] = 0
  BY <1>2 DEF IInv, UsedSpent, Open
<1>4. \A q \in Requests \ {r} : t \notin Locked(q)
  <2>1. t \in Locked(r)
    BY <1>1, <1>2 DEF Locked
  <2> QED
    BY <1>2, <2>1 DEF IInv, LocksApart
<1>5. /\ password' = [password EXCEPT ![u] = job[r].password]
      /\ epoch' = [epoch EXCEPT ![u] = @ + 1] /\ uses' = [uses EXCEPT ![t] = @ + 1]
      /\ Goto(r, "idle", NoJob)
      /\ UNCHANGED <<verified, banned, admin, reached, appointed, faults>>
      /\ token' = [x \in Tokens |->
           CASE x = t -> [token[x] EXCEPT !.state = "spent"]
             [] x \in job[r].rows \ {t} -> [token[x] EXCEPT !.state = "deleted"]
             [] OTHER -> token[x]]
  BY DEF CommitReset, Done
<1>6. ASSUME NEW x \in Tokens
      PROVE  token'[x] = IF x = t THEN [token[x] EXCEPT !.state = "spent"]
                         ELSE IF x \in job[r].rows THEN [token[x] EXCEPT !.state = "deleted"]
                         ELSE token[x]
  BY <1>5
<1>7. ASSUME NEW x \in Tokens
      PROVE  /\ token'[x] \in Row
             /\ token'[x].kind = token[x].kind /\ token'[x].user = token[x].user
             /\ x # t => token'[x].state = token[x].state \/ token[x].kind = "session"
             /\ x = t => token'[x].state = "spent"
  <2>1. token[x] \in Row
    BY <1>1 DEF TypeOK
  <2> QED
    BY <1>2, <1>6, <2>1, ZenonT(30) DEF Row
<1>8. token' \in [Tokens -> Row]
  <2>1. token' = [x \in Tokens |-> token'[x]]
    BY <1>5
  <2> QED
    BY <1>7, <2>1
<1> QED
  BY <1>2, <1>3, <1>4, <1>5, <1>7, <1>8

LEMMA CommitResetStep ==
  ASSUME IInv, NEW r \in Requests, CommitReset(r)
  PROVE  IInv'
<1>0. PICK t, u : t = job[r].token /\ u = job[r].user
  OBVIOUS
<1>1. /\ t \in Tokens /\ u \in Users /\ job[r].password \in Passwords
      /\ token[t].kind = "reset" /\ uses[t] = 0
      /\ \A q \in Requests \ {r} : t \notin Locked(q)
      /\ password' = [password EXCEPT ![u] = job[r].password]
      /\ epoch' = [epoch EXCEPT ![u] = @ + 1] /\ uses' = [uses EXCEPT ![t] = @ + 1]
      /\ Goto(r, "idle", NoJob)
      /\ UNCHANGED <<verified, banned, admin, reached, appointed, faults>>
  BY <1>0, CommitDoes
<1>2. /\ token' \in [Tokens -> Row] /\ token'[t].state = "spent"
      /\ \A x \in Tokens :
           /\ token'[x].kind = token[x].kind /\ token'[x].user = token[x].user
           /\ x # t => token'[x].state = token[x].state \/ token[x].kind = "session"
  BY <1>0, CommitDoes
<1>3. pc'[r] = "idle" /\ job'[r] = NoJob /\ pc' \in [Requests -> Steps] /\ job' \in [Requests -> Job]
  BY <1>1, NoJobType, GotoSlot DEF IInv
<1>4. /\ uses' \in [Tokens -> Nat] /\ uses'[t] = 1 /\ \A x \in Tokens : x # t => uses'[x] = uses[x]
  BY <1>1 DEF IInv, TypeOK
<1>5. TypeOK'
  <2>1. password' \in [Users -> Passwords \union {None}] /\ epoch' \in [Users -> Nat]
    BY <1>1 DEF IInv, TypeOK
  <2> QED
    BY <1>1, <1>2, <1>3, <1>4, <2>1 DEF IInv, TypeOK
<1>6. TokensKeep
  BY <1>2 DEF TokensKeep
<1>7. UsedSpent'
  <2> SUFFICES ASSUME NEW x \in Tokens, uses'[x] # 0
               PROVE  uses'[x] = 1 /\ token'[x].state = "spent" /\ token'[x].kind \in {"verify", "reset"}
    BY DEF UsedSpent
  <2>1. CASE x = t
    BY <1>1, <1>2, <1>4, <2>1
  <2>2. CASE x # t
    BY <1>2, <1>4, <2>2 DEF IInv, UsedSpent
  <2> QED
    BY <2>1, <2>2
<1>8. VerifiedByMail'
  <2>1. \A x \in Tokens : uses[x] > 0 => uses'[x] > 0
    BY <1>4
  <2> QED
    BY <1>1, <1>6, <2>1, StillVerified DEF VerifiedByMail
<1>9. ActingVerified'
  BY <1>1, <1>2 DEF IInv, ActingVerified
<1>10. Fits(r)' /\ Locked(r)' = {}
  BY <1>3, NoJobType DEF Fits, Locked, Resetting, Appointing
<1>11. \A q \in Requests \ {r} : \A x \in Locked(q) : token[x].kind = "reset" /\ Open(x) => Open(x)'
  <2> SUFFICES ASSUME NEW q \in Requests \ {r}, NEW x \in Locked(q), token[x].kind = "reset", Open(x)
               PROVE  Open(x)'
    OBVIOUS
  <2>1. x \in Tokens /\ x # t
    BY <1>1, HeldKinds
  <2> QED
    BY <1>2, <2>1 DEF Open
<1> QED
  BY <1>1, <1>5, <1>6, <1>7, <1>8, <1>9, <1>10, <1>11, NoJobType, Move

LEMMA DeleteSessionStep ==
  ASSUME IInv, NEW r \in Requests, DeleteSession(r)
  PROVE  IInv'
<1>0. PICK d : d = job[r].token
  OBVIOUS
<1>1. /\ pc[r] = "delete" /\ token' = [token EXCEPT ![d].state = "deleted"] /\ Goto(r, "idle", NoJob)
      /\ UNCHANGED <<users, reached, history, faults>>
  BY <1>0 DEF DeleteSession, At, Done
<1>2. TypeOK /\ d \in Tokens /\ token[d].kind = "session" /\ token[d] \in Row
  BY <1>0, <1>1 DEF IInv, JobsFit, Fits, TypeOK
<1>3. pc'[r] = "idle" /\ job'[r] = NoJob /\ pc' \in [Requests -> Steps] /\ job' \in [Requests -> Job]
  BY <1>1, <1>2, NoJobType, GotoSlot
<1>4. /\ token' \in [Tokens -> Row] /\ \A x \in Tokens : x # d => token'[x] = token[x]
      /\ token'[d].kind = token[d].kind /\ token'[d].user = token[d].user
  BY <1>1, <1>2 DEF TypeOK, Row
<1>5. /\ password' = password /\ verified' = verified /\ banned' = banned /\ admin' = admin
      /\ epoch' = epoch /\ uses' = uses /\ appointed' = appointed /\ reached' = reached
  BY <1>1 DEF users, history
<1>6. TypeOK'
  BY <1>1, <1>2, <1>3, <1>4, <1>5 DEF TypeOK
<1>7. TokensKeep
  BY <1>4 DEF TokensKeep
<1>8. UsedSpent'
  BY <1>2, <1>4, <1>5 DEF IInv, UsedSpent
<1>9. VerifiedByMail'
  BY <1>5, <1>7, StillVerified DEF VerifiedByMail
<1>10. ActingVerified'
  BY <1>4, <1>5 DEF IInv, ActingVerified
<1>11. Fits(r)' /\ Locked(r)' = {}
  BY <1>3, NoJobType DEF Fits, Locked, Resetting, Appointing
<1>12. \A q \in Requests \ {r} : \A x \in Locked(q) : token[x].kind = "reset" /\ Open(x) => Open(x)'
  <2> SUFFICES ASSUME NEW q \in Requests \ {r}, NEW x \in Locked(q), token[x].kind = "reset", Open(x)
               PROVE  Open(x)'
    OBVIOUS
  <2>1. x \in Tokens /\ x # d
    BY <1>2, HeldKinds
  <2> QED
    BY <1>4, <2>1 DEF Open
<1> QED
  BY <1>1, <1>5, <1>6, <1>7, <1>8, <1>9, <1>10, <1>11, <1>12, NoJobType, Move

(* A step of nobody's request.                                             *)
LEMMA Aside ==
  ASSUME IInv, UNCHANGED requests, TypeOK',
         verified \subseteq verified', appointed \subseteq appointed', reached \subseteq reached',
         \A t \in Tokens : token'[t].kind = token[t].kind /\ token'[t].user = token[t].user,
         \A t \in Tokens : token[t].kind = "reset" /\ Open(t) => Open(t)',
         UsedSpent', VerifiedByMail', ActingVerified'
  PROVE  IInv'
<1>1. pc' = pc /\ job' = job
  BY DEF requests
<1>2. TokensKeep
  BY DEF TokensKeep
<1>3. \A q \in Requests : Fits(q)' /\ Locked(q)' = Locked(q)
  <2> SUFFICES ASSUME NEW q \in Requests PROVE Fits(q)' /\ Locked(q)' = Locked(q)
    OBVIOUS
  <2>1. \A t \in Locked(q) : token[t].kind = "reset" /\ Open(t) => Open(t)'
    BY HeldKinds
  <2> QED
    BY <1>1, <1>2, <2>1, OthersFit
<1>4. LocksApart'
  BY <1>3 DEF IInv, LocksApart
<1> QED
  BY <1>3, <1>4 DEF IInv, JobsFit

LEMMA LinkStep ==
  ASSUME IInv, NEW t \in Tokens, VerifyLink(t) \/ Expire(t)
  PROVE  IInv'
<1>1. PICK state \in {"spent", "expired"} :
        /\ token' = [token EXCEPT ![t].state = state]
        /\ state = "spent" => token[t].kind = "verify"
  BY DEF VerifyLink, Expire, Live
<1>2. /\ UNCHANGED <<password, banned, admin, reached, epoch, appointed, requests, faults>>
      /\ token[t].state = "live" /\ token[t].kind # "unused" /\ TypeOK /\ token[t] \in Row
  BY DEF VerifyLink, Expire, Live, users, history, IInv, TypeOK
<1>3. /\ token' \in [Tokens -> Row] /\ \A x \in Tokens : x # t => token'[x] = token[x]
      /\ token'[t].kind = token[t].kind /\ token'[t].user = token[t].user /\ token'[t].state = state
  BY <1>1, <1>2 DEF TypeOK, Row
<1>4. \A x \in Tokens : token'[x].kind = token[x].kind /\ token'[x].user = token[x].user
  BY <1>3
<1>5. TokensKeep
  BY <1>4 DEF TokensKeep
<1>6. uses[t] = 0
  BY <1>2 DEF IInv, UsedSpent
<1>7. \A x \in Tokens : token[x].kind = "reset" /\ Open(x) => Open(x)'
  BY <1>1, <1>3 DEF Open
<1>8. CASE VerifyLink(t)
  <2>1. /\ verified' = verified \union {token[t].user} /\ uses' = [uses EXCEPT ![t] = @ + 1]
        /\ token'[t].state = "spent" /\ token[t].kind = "verify" /\ t \in reached
    BY <1>2, <1>8 DEF VerifyLink, Live, TypeOK
  <2>2. token[t].user \in Users
    BY <1>2 DEF TypeOK
  <2>3. /\ uses' \in [Tokens -> Nat] /\ uses'[t] = 1 /\ \A x \in Tokens : x # t => uses'[x] = uses[x]
    BY <1>2, <1>6, <2>1 DEF TypeOK
  <2>4. TypeOK'
    BY <1>2, <1>3, <2>1, <2>2, <2>3 DEF TypeOK, requests
  <2>5. UsedSpent'
    <3> SUFFICES ASSUME NEW x \in Tokens, uses'[x] # 0
                 PROVE  uses'[x] = 1 /\ token'[x].state = "spent" /\ token'[x].kind \in {"verify", "reset"}
      BY DEF UsedSpent
    <3>1. CASE x = t
      BY <1>3, <2>1, <2>3, <3>1
    <3>2. CASE x # t
      BY <1>3, <2>3, <3>2 DEF IInv, UsedSpent
    <3> QED
      BY <3>1, <3>2
  <2>6. VerifiedByMail'
    <3>1. \A x \in Tokens : uses[x] > 0 => uses'[x] > 0
      BY <1>6, <2>3
    <3>2. \A u \in verified :
            u \in appointed' \/ \E x \in reached' : token'[x].kind = "verify" /\ token'[x].user = u
                                                    /\ uses'[x] > 0
      BY <1>2, <1>5, <3>1, StillVerified
    <3>3. t \in reached' /\ token'[t].kind = "verify" /\ token'[t].user = token[t].user /\ uses'[t] > 0
      BY <1>2, <1>3, <2>1, <2>3
    <3> QED
      BY <2>1, <3>2, <3>3 DEF VerifiedByMail
  <2>7. ActingVerified'
    BY <1>4, <2>1 DEF IInv, ActingVerified
  <2> QED
    BY <1>2, <1>4, <1>7, <2>1, <2>4, <2>5, <2>6, <2>7, Aside
<1>9. CASE Expire(t)
  <2>1. UNCHANGED <<verified, uses>>
    BY <1>9 DEF Expire, users, history
  <2>2. TypeOK'
    BY <1>2, <1>3, <2>1 DEF TypeOK, requests
  <2>3. UsedSpent'
    BY <1>3, <1>6, <2>1 DEF IInv, UsedSpent
  <2>4. VerifiedByMail'
    BY <1>2, <1>5, <2>1, StillVerified DEF VerifiedByMail
  <2>5. ActingVerified'
    BY <1>4, <2>1 DEF IInv, ActingVerified
  <2> QED
    BY <1>2, <1>4, <1>7, <2>1, <2>2, <2>3, <2>4, <2>5, Aside
<1> QED
  BY <1>8, <1>9

(* Suspending somebody, or nothing at all.                                 *)
LEMMA BanStep ==
  ASSUME IInv, UNCHANGED <<password, verified, admin, token, reached, history, requests, faults>>,
         banned' \subseteq Users
  PROVE  IInv'
<1>1. /\ uses' = uses /\ appointed' = appointed /\ epoch' = epoch /\ pc' = pc /\ job' = job
  BY DEF history, requests
<1>2. TypeOK'
  BY <1>1 DEF IInv, TypeOK
<1>3. UsedSpent' /\ VerifiedByMail' /\ ActingVerified'
  BY <1>1 DEF IInv, UsedSpent, VerifiedByMail, ActingVerified
<1> QED
  BY <1>1, <1>2, <1>3, Aside DEF Open

------------------------------------------------------------------------------
(* The inductive invariant and what follows from it.                       *)

LEMMA InitInv == Init => IInv
<1> SUFFICES ASSUME Init PROVE IInv
  OBVIOUS
<1>1. Unused \in Row /\ Unused.kind = "unused" /\ 0 \in 0 .. MaxFaults
  BY AccountsAssumption DEF Unused, Row
<1>2. TypeOK
  BY <1>1, NoJobType DEF Init, TypeOK
<1>3. JobsFit /\ LocksApart
  BY NoJobType DEF Init, JobsFit, Fits, LocksApart, Locked, Resetting, Appointing
<1>4. UsedSpent /\ VerifiedByMail /\ ActingVerified
  BY <1>1 DEF Init, UsedSpent, VerifiedByMail, ActingVerified
<1> QED
  BY <1>2, <1>3, <1>4 DEF IInv

LEMMA StepInv == IInv /\ [Next]_vars => IInv'
<1> SUFFICES ASSUME IInv, [Next]_vars PROVE IInv'
  OBVIOUS
<1>1. CASE \E r \in Requests : Arrival(r)
  <2>1. PICK r \in Requests : Arrival(r)
    BY <1>1
  <2>2. CASE \E u \in Users, p \in Passwords : AppointStart(r, u, p)
    BY <2>2, AppointStep
  <2>3. CASE ~\E u \in Users, p \in Passwords : AppointStart(r, u, p)
    BY <2>1, <2>3, ArrivalStep DEF Arrival
  <2> QED
    BY <2>2, <2>3
<1>2. CASE \E r \in Requests : Register(r)
  BY <1>2, InsertStep, StoreCodeStep, MailStep DEF Register
<1>3. CASE \E r \in Requests : Login(r)
  BY <1>3, LoginReadsStep, OpenSessionStep, DeleteSessionStep DEF Login
<1>4. CASE \E r \in Requests : Forgot(r)
  BY <1>4, LoginReadsStep, VoidStep, InsertResetStep DEF Forgot
<1>5. CASE \E r \in Requests : Reset(r)
  BY <1>5, SpendStep, HoldStep, CommitResetStep DEF Reset
<1>6. CASE \E r \in Requests : EnsureAdmin(r)
  BY <1>6, LoginReadsStep, InsertStep, AppointStep DEF EnsureAdmin
<1>7. CASE \E r \in Requests : MailFails(r) \/ Abort(r)
  <2>1. PICK r \in Requests : MailFails(r) \/ Abort(r)
    BY <1>7
  <2>2. faults' \in 0 .. MaxFaults
    BY <2>1, AccountsAssumption DEF MailFails, Abort, IInv, TypeOK
  <2>3. Done(r) /\ UNCHANGED <<users, token, reached, history>>
    BY <2>1 DEF MailFails, Abort
  <2> QED
    BY <2>2, <2>3, Ends
<1>8. CASE \E t \in Tokens : VerifyLink(t) \/ Expire(t)
  BY <1>8, LinkStep
<1>9. CASE \E u \in Users : Ban(u)
  <2>1. /\ UNCHANGED <<password, verified, admin, token, reached, history, requests, faults>>
        /\ banned' \subseteq Users
    BY <1>9 DEF Ban, IInv, TypeOK
  <2> QED
    BY <2>1, BanStep
<1>10. CASE UNCHANGED vars
  BY <1>10, BanStep DEF vars, users, IInv, TypeOK
<1> QED
  BY <1>1, <1>2, <1>3, <1>4, <1>5, <1>6, <1>7, <1>8, <1>9, <1>10 DEF Next

LEMMA Invariant == Spec => []IInv
<1>1. Init => IInv
  BY InitInv
<1>2. IInv /\ [Next]_vars => IInv'
  BY StepInv
<1> QED
  BY <1>1, <1>2, PTL DEF Spec

(* "a link works exactly once": however often a mailed link is followed or *)
(* a reset form submitted, email_verifications.rs and password_resets.rs   *)
(* apply it once.                                                          *)
THEOREM LinksWorkOnceAlways == Spec => []LinksWorkOnce
<1>1. IInv => LinksWorkOnce
  BY DEF IInv, TypeOK, UsedSpent, LinksWorkOnce
<1> QED
  BY <1>1, Invariant, PTL

(* Being verified takes a mailed link or an appointment on the server, and *)
(* a session or a reset link takes being verified, whatever happened       *)
(* between the read of the account and the insert.                         *)
THEOREM OnlyVerifiedActAlways == Spec => []OnlyVerifiedAct
<1>1. IInv => OnlyVerifiedAct
  BY DEF IInv, OnlyVerifiedAct
<1> QED
  BY <1>1, Invariant, PTL

(* A password once set changes only by an open link that was mailed for    *)
(* that account, and the step that changes it ends the link.               *)
THEOREM PasswordsByLinkAlways == Spec => PasswordsByLink
<1> DEFINE ByLink(u) ==
      \E t \in reached : token[t].kind = "reset" /\ token[t].user = u
                         /\ uses[t] = 0 /\ token'[t].state = "spent"
<1>1. ASSUME IInv, [Next]_vars, NEW u \in Users, Exists(u), password'[u] # password[u]
      PROVE  ByLink(u)
  <2>1. CASE \E r \in Requests : CommitReset(r)
    <3>1. PICK r \in Requests : CommitReset(r)
      BY <2>1
    <3>2. PICK t, v : t = job[r].token /\ v = job[r].user
      OBVIOUS
    <3>3. /\ t \in reached /\ token[t].kind = "reset" /\ token[t].user = v /\ uses[t] = 0
          /\ token'[t].state = "spent" /\ password' = [password EXCEPT ![v] = job[r].password]
      BY <1>1, <3>1, <3>2, CommitDoes
    <3>4. u = v
      BY <1>1, <3>3 DEF IInv, TypeOK
    <3> QED
      BY <3>3, <3>4
  <2>2. CASE \E r \in Requests : InsertUser(r) \/ InsertAdmin(r)
    BY <1>1, <2>2 DEF InsertUser, InsertAdmin, Exists, IInv, TypeOK
  <2>3. CASE UNCHANGED password
    BY <1>1, <2>3
  <2>4. \/ \E r \in Requests : CommitReset(r)
        \/ \E r \in Requests : InsertUser(r) \/ InsertAdmin(r)
        \/ UNCHANGED password
    BY <1>1, ZenonT(30) DEF Next, vars, users, Arrival, RegisterStart, LoginStart, AppointStart, ForgotStart,
       LogoutStart, ResetStart, Register, StoreCode, Mail, Login, GetUser, ReadHash, OpenSession,
       DeleteSession, Forgot, Lookup, SnapshotEarlier, VoidEarlier, InsertReset, Reset, Spend,
       SetPassword, DropSessions, EnsureAdmin, FindAccount, MarkVerified, SetAdmin, MailFails,
       Abort, VerifyLink, Expire, Ban
  <2> QED
    BY <2>1, <2>2, <2>3, <2>4
<1>2. IInv /\ [Next]_vars =>
        [\A u \in Users : Exists(u) /\ password'[u] # password[u] =>
           \E t \in reached : token[t].kind = "reset" /\ token[t].user = u
                              /\ uses[t] = 0 /\ token'[t].state = "spent"]_vars
  BY <1>1
<1> QED
  BY <1>2, Invariant, PTL DEF Spec, PasswordsByLink
==============================================================================
